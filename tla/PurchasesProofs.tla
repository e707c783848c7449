---------------------------- MODULE PurchasesProofs ----------------------------
(***************************************************************************)
(* Theorems about the Wallets and the Billing of Desk, for any calls,      *)
(* withdrawals, amounts, subscriptions, plans and events.                  *)
(***************************************************************************)
EXTENDS Desk, Integers, SequenceTheorems, TLAPS

\* A row of wallets is that of a provisioning that got as far, and the accounts
\* exist if it has answered.
Provisioned ==
  \A r \in wallets : /\ provision[r] \in {"created", "answered", "failed"}
                     /\ provision[r] = "answered" => booked

\* What has passed the check is positive, and what was paid was asked for.
AskedFor ==
  /\ \A w \in Withdrawals : payout[w].at = "checked" => Asked[w] > 0
  /\ \A t \in transfers : t.key = PayoutKeyOf[t.by] /\ t.amount = W!AmountRaw(t.by)

WalletInv ==
  W!TypeOK /\ Provisioned /\ AskedFor /\ W!PaidOnceAsAsked /\ W!SubmittedIsPaid

Payouts == [at : {"none", "checked", "submitted", "refused", "failed", "lost"}, from : Provisions]

-----------------------------------------------------------------------------
\* What the assumptions say of each constant but the unit.
LEMMA WalletConstants ==
  W!WalletAssumption =>
    /\ PayoutKeyOf \in [Withdrawals -> PayoutKeys] /\ Asked \in [Withdrawals -> Int]
    /\ Deposits \subseteq Nat /\ MaxFunds \in Nat /\ Unread \notin Nat
  BY SMT DEF W!WalletAssumption

\* What the adapter writes as a decimal is what the provider reads: with all its
\* places, the fraction loses nothing.
LEMMA AmountIsRead ==
  ASSUME W!WalletAssumption, NEW raw \in Nat
  PROVE  W!AmountRead(raw) = raw
<1>1. CASE USDC = 10
  BY <1>1, SMT DEF W!AmountRead
<1>2. CASE USDC = 100
  BY <1>2, SMT DEF W!AmountRead
<1>3. CASE USDC = 1000000
  BY <1>3, SMT DEF W!AmountRead
<1> QED
  BY <1>1, <1>2, <1>3, SMT DEF W!WalletAssumption

\* The rounded amount is off by at most half an atomic unit, up if at all at the half.
LEMMA AmountIsNear ==
  ASSUME NEW w \in Withdrawals, Asked[w] \in Int, Asked[w] > 0
  PROVE  /\ W!AmountRaw(w) \in Nat
         /\ 10 * W!AmountRaw(w) - Asked[w] <= 5 /\ Asked[w] - 10 * W!AmountRaw(w) < 5
<1> DEFINE a == Asked[w]
<1>1. a \in Int /\ a > 0
  OBVIOUS
<1> HIDE DEF a
<1>2. /\ (a + 5) \div 10 \in Nat
      /\ 10 * ((a + 5) \div 10) - a <= 5 /\ a - 10 * ((a + 5) \div 10) < 5
  BY <1>1
<1> QED
  BY <1>2 DEF a, W!AmountRaw

LEMMA Reached ==
  ASSUME W!TypeOK, NEW w \in Withdrawals,
         NEW next \in {"none", "checked", "submitted", "refused", "failed", "lost"}, W!Reaches(w, next)
  PROVE  /\ payout' \in [Withdrawals -> Payouts] /\ payout'[w].at = next
         /\ \A v \in Withdrawals \ {w} : payout'[v] = payout[v]
<1>1. payout[w] \in Payouts
  BY DEF W!TypeOK, Payouts
<1>2. [payout[w] EXCEPT !.at = next] = [at |-> next, from |-> payout[w].from]
  BY <1>1 DEF Payouts
<1>3. [at |-> next, from |-> payout[w].from] \in Payouts
  BY <1>1 DEF Payouts
<1> QED
  BY <1>2, <1>3 DEF W!Reaches, W!TypeOK, Payouts

-----------------------------------------------------------------------------
LEMMA WalletInvInit == W!WalletAssumption /\ W!Init => WalletInv
<1> SUFFICES ASSUME W!WalletAssumption, W!Init PROVE WalletInv
  OBVIOUS
<1>1. PICK r \in Provisions : payout = [w \in Withdrawals |-> [at |-> "none", from |-> r]]
  BY DEF W!Init
<1>2. 0 \in 0 .. MaxFunds /\ Unread \in 0 .. MaxFunds \cup {Unread}
  BY WalletConstants
<1>3. payout \in [Withdrawals -> Payouts]
  BY <1>1 DEF Payouts
<1>4. /\ funds \in [Provisions -> 0 .. MaxFunds] /\ cache \in [Provisions -> 0 .. MaxFunds]
      /\ reading \in [Provisions -> 0 .. MaxFunds \cup {Unread}]
  BY <1>2 DEF W!Init
<1>5. W!TypeOK
  BY <1>3, <1>4 DEF W!Init, W!TypeOK, Payouts
<1> QED
  BY <1>1, <1>5 DEF W!Init, WalletInv, Provisioned, AskedFor, W!PaidOnceAsAsked, W!SubmittedIsPaid

\* Provisioning and the balance cache do not touch what was paid.
LEMMA PaidKept ==
  ASSUME WalletInv, UNCHANGED <<payout, transfers>>
  PROVE  AskedFor' /\ W!PaidOnceAsAsked' /\ W!SubmittedIsPaid'
  BY DEF WalletInv, AskedFor, W!PaidOnceAsAsked, W!SubmittedIsPaid, W!AmountRaw

LEMMA ProvisionStep ==
  ASSUME W!WalletAssumption, WalletInv, NEW r \in Provisions,
         \/ W!FindWallet(r) \/ W!GenerateWallet(r) \/ W!CreateWallet(r) \/ W!EnsureAccounts(r)
         \/ W!ProvisioningFails(r)
  PROVE  WalletInv'
<1>0. W!TypeOK /\ Provisioned
  BY DEF WalletInv
<1> USE <1>0
<1>1. UNCHANGED <<funds, cache, reading, payout, transfers>>
  BY DEF W!FindWallet, W!GenerateWallet, W!CreateWallet, W!EnsureAccounts, W!ProvisioningFails
<1>2. W!TypeOK' /\ Provisioned'
  <2>1. CASE W!FindWallet(r)
    BY <2>1 DEF W!FindWallet, W!Proceeds, W!TypeOK, Provisioned
  <2>2. CASE W!GenerateWallet(r)
    BY <2>2 DEF W!GenerateWallet, W!Proceeds, W!TypeOK, Provisioned
  <2>3. CASE W!CreateWallet(r)
    BY <2>3 DEF W!CreateWallet, W!Proceeds, W!TypeOK, Provisioned
  <2>4. CASE W!EnsureAccounts(r)
    BY <2>4 DEF W!EnsureAccounts, W!Proceeds, W!TypeOK, Provisioned
  <2>5. CASE W!ProvisioningFails(r)
    BY <2>5 DEF W!ProvisioningFails, W!Proceeds, W!TypeOK, Provisioned
  <2> QED
    BY <2>1, <2>2, <2>3, <2>4, <2>5
<1> QED
  BY <1>1, <1>2, PaidKept DEF WalletInv

LEMMA BalanceStep ==
  ASSUME W!WalletAssumption, WalletInv, NEW r \in Provisions,
         W!GetBalance(r) \/ W!UpdateBalanceCache(r) \/ \E d \in Deposits : W!Deposit(r, d)
  PROVE  WalletInv'
<1>0. W!TypeOK /\ Provisioned
  BY DEF WalletInv
<1> USE <1>0 DEF W!rows
<1>1. UNCHANGED <<payout, transfers, provision, wallets, booked>>
  BY DEF W!GetBalance, W!UpdateBalanceCache, W!Deposit
<1>2. CASE W!GetBalance(r)
  <2>1. W!TypeOK'
    BY <1>2 DEF W!GetBalance, W!TypeOK
  <2> QED
    BY <1>1, <2>1, PaidKept DEF WalletInv, Provisioned
<1>3. CASE W!UpdateBalanceCache(r)
  <2>1. reading[r] \in 0 .. MaxFunds
    BY <1>3 DEF W!UpdateBalanceCache, W!TypeOK
  <2>2. W!TypeOK'
    BY <1>3, <2>1 DEF W!UpdateBalanceCache, W!TypeOK
  <2> QED
    BY <1>1, <2>2, PaidKept DEF WalletInv, Provisioned
<1>4. ASSUME NEW d \in Deposits, W!Deposit(r, d) PROVE WalletInv'
  <2>1. funds[r] + d \in 0 .. MaxFunds
    BY <1>4, WalletConstants DEF W!Deposit, W!TypeOK
  <2>2. W!TypeOK'
    BY <1>4, <2>1 DEF W!Deposit, W!TypeOK
  <2> QED
    BY <1>1, <2>2, PaidKept DEF WalletInv, Provisioned
<1> QED
  BY <1>2, <1>3, <1>4

\* A withdrawal that stays within what was paid already: refused, failed, or answered
\* with the transfer of its key.
LEMMA AnsweredStep ==
  ASSUME W!WalletAssumption, WalletInv, NEW w \in Withdrawals,
         NEW next \in {"checked", "submitted", "refused", "failed", "lost"}, W!Reaches(w, next),
         UNCHANGED <<W!rows, funds, cache, reading, transfers>>,
         next = "checked" => Asked[w] > 0,
         next = "submitted" => \E t \in transfers : t.key = PayoutKeyOf[w]
  PROVE  WalletInv'
<1>0. W!TypeOK /\ Provisioned /\ AskedFor /\ W!PaidOnceAsAsked /\ W!SubmittedIsPaid
  BY DEF WalletInv
<1>1. /\ payout' \in [Withdrawals -> Payouts] /\ payout'[w].at = next
      /\ \A v \in Withdrawals \ {w} : payout'[v] = payout[v]
  BY <1>0, Reached
<1>2. W!TypeOK'
  BY <1>0, <1>1 DEF W!TypeOK, Payouts, W!rows
<1>3. Provisioned' /\ W!PaidOnceAsAsked'
  BY <1>0 DEF Provisioned, W!PaidOnceAsAsked, W!rows
<1>4. AskedFor'
  BY <1>0, <1>1 DEF AskedFor, W!AmountRaw
<1>5. W!SubmittedIsPaid'
  BY <1>0, <1>1 DEF W!SubmittedIsPaid
<1> QED
  BY <1>2, <1>3, <1>4, <1>5 DEF WalletInv

\* The provider pays a key it has not paid yet, and no other transfer has it.
LEMMA PayStep ==
  ASSUME W!WalletAssumption, WalletInv, NEW w \in Withdrawals, W!Pay(w)
  PROVE  WalletInv'
<1> DEFINE amount == W!AmountRead(W!AmountRaw(w))
           r == payout[w].from
           done == {t \in transfers : t.key = PayoutKeyOf[w]}
           x == [key |-> PayoutKeyOf[w], from |-> r, by |-> w, amount |-> amount]
<1>0. W!TypeOK /\ Provisioned /\ AskedFor /\ W!PaidOnceAsAsked /\ W!SubmittedIsPaid
  BY DEF WalletInv
<1>1. payout[w].at = "checked" /\ UNCHANGED <<W!rows, cache, reading>>
  BY DEF W!Pay
<1>2. CASE done = {} /\ W!Reaches(w, "failed") /\ UNCHANGED <<funds, transfers>>
  BY <1>1, <1>2, AnsweredStep
<1>3. CASE done # {} /\ (W!Reaches(w, "submitted") \/ W!Reaches(w, "lost")) /\ UNCHANGED <<funds, transfers>>
  <2>1. \E t \in transfers : t.key = PayoutKeyOf[w]
    BY <1>3
  <2> HIDE DEF done
  <2> QED
    BY <1>1, <1>3, <2>1, AnsweredStep
<1>4. CASE /\ done = {} /\ amount <= funds[r]
           /\ funds' = [funds EXCEPT ![r] = @ - amount]
           /\ transfers' = transfers \cup {x}
           /\ W!Reaches(w, "submitted") \/ W!Reaches(w, "lost")
  <2>1. Asked[w] \in Int /\ Asked[w] > 0
    BY <1>0, <1>1, WalletConstants DEF AskedFor
  <2>2. /\ amount = W!AmountRaw(w) /\ amount \in Nat
        /\ 10 * amount - Asked[w] <= 5 /\ Asked[w] - 10 * amount < 5
    BY <2>1, AmountIsNear, AmountIsRead
  <2>3. \A t \in transfers : t.key # PayoutKeyOf[w]
    BY <1>4
  <2>4. r \in Provisions /\ funds[r] \in 0 .. MaxFunds /\ PayoutKeyOf[w] \in PayoutKeys
    BY <1>0, WalletConstants DEF W!TypeOK
  <2>5. PICK next \in {"submitted", "lost"} : W!Reaches(w, next)
    BY <1>4
  <2>6. /\ payout' \in [Withdrawals -> Payouts] /\ payout'[w].at = next
        /\ \A v \in Withdrawals \ {w} : payout'[v] = payout[v]
    BY <1>0, <2>5, Reached
  <2> HIDE DEF amount, r, done
  <2>7. x \in W!Transfer /\ x.key = PayoutKeyOf[w] /\ x.by = w /\ x.amount = amount
    BY <2>2, <2>4 DEF W!Transfer
  <2> HIDE DEF x
  <2>8. funds' \in [Provisions -> 0 .. MaxFunds]
    <3>1. funds[r] - amount \in 0 .. MaxFunds
      BY <1>4, <2>2, <2>4, WalletConstants
    <3> QED
      BY <1>0, <1>4, <3>1 DEF W!TypeOK
  <2>9. W!TypeOK'
    BY <1>0, <1>1, <1>4, <2>6, <2>7, <2>8 DEF W!TypeOK, Payouts, W!rows
  <2>10. Provisioned'
    BY <1>0, <1>1 DEF Provisioned, W!rows
  <2>11. AskedFor'
    BY <1>0, <1>4, <2>2, <2>6, <2>7 DEF AskedFor, W!AmountRaw
  <2>12. W!PaidOnceAsAsked'
    BY <1>0, <1>4, <2>2, <2>3, <2>7 DEF W!PaidOnceAsAsked
  <2>13. W!SubmittedIsPaid'
    BY <1>0, <1>4, <2>6, <2>7 DEF W!SubmittedIsPaid
  <2> QED
    BY <2>9, <2>10, <2>11, <2>12, <2>13 DEF WalletInv
<1> QED
  BY <1>2, <1>3, <1>4 DEF W!Pay

LEMMA WalletInvNext == W!WalletAssumption /\ WalletInv /\ W!Next => WalletInv'
<1> SUFFICES ASSUME W!WalletAssumption, WalletInv, W!Next PROVE WalletInv'
  OBVIOUS
<1>1. ASSUME NEW w \in Withdrawals, W!CheckWithdrawal(w) PROVE WalletInv'
  <2>1. CASE Asked[w] > 0 /\ W!Reaches(w, "checked")
    BY <1>1, <2>1, AnsweredStep DEF W!CheckWithdrawal
  <2>2. CASE W!Reaches(w, "refused")
    BY <1>1, <2>2, AnsweredStep DEF W!CheckWithdrawal
  <2> QED
    BY <1>1, <2>1, <2>2 DEF W!CheckWithdrawal
<1>2. ASSUME NEW w \in Withdrawals, W!PayFails(w) PROVE WalletInv'
  BY <1>2, AnsweredStep DEF W!PayFails
<1> QED
  BY <1>1, <1>2, ProvisionStep, BalanceStep, PayStep DEF W!Next

\* What was paid, and to whom it was said, is in order in every reachable state.
THEOREM WalletInvariant == ASSUME W!WalletAssumption PROVE W!Spec => []WalletInv
<1>1. W!Init => WalletInv
  BY WalletInvInit
<1>2. WalletInv /\ [W!Next]_(W!vars) => WalletInv'
  <2>1. WalletInv /\ UNCHANGED W!vars => WalletInv'
    BY DEF W!vars, WalletInv, W!TypeOK, Provisioned, AskedFor, W!AmountRaw, W!PaidOnceAsAsked, W!SubmittedIsPaid
  <2> QED
    BY <2>1, WalletInvNext
<1> QED
  BY <1>1, <1>2, PTL DEF W!Spec

\* A key pays at most once however often it is asked again, and within half an atomic
\* unit of what was asked.
THEOREM KeysPayOnce == ASSUME W!WalletAssumption PROVE W!Spec => []W!PaidOnceAsAsked
<1>1. WalletInv => W!PaidOnceAsAsked
  BY DEF WalletInv
<1> QED
  BY <1>1, WalletInvariant, PTL

\* Who was told that a withdrawal was submitted has been paid under its key.
THEOREM SubmittedArePaid == ASSUME W!WalletAssumption PROVE W!Spec => []W!SubmittedIsPaid
<1>1. WalletInv => W!SubmittedIsPaid
  BY DEF WalletInv
<1> QED
  BY <1>1, WalletInvariant, PTL

\* A wallet without accounts is one whose provisioning has not ended or was cut off.
THEOREM UnbookedAreUnfinished == ASSUME W!WalletAssumption PROVE W!Spec => []W!UnbookedIsUnfinished
<1>1. WalletInv => W!UnbookedIsUnfinished
  BY DEF WalletInv, W!TypeOK, Provisioned, W!UnbookedIsUnfinished
<1> QED
  BY <1>1, WalletInvariant, PTL

-----------------------------------------------------------------------------

\* A plan that may be written when these prices were agreed to.
Covers(prices, p) == p \in prices \cup {"FREE"} \/ (p = Pro /\ OtherPrice \in prices)

\* What a provider may tell of: prices that were agreed to, and what a call may write.
Paid(s) == provider[s].state \notin {"none", "pending"}
PaidIsBought == \A s \in B!Subs : Paid(s) => provider[s].price \in bought
EventsOfTheirs ==
  \A n \in B!Names : \A i \in 1 .. Len(events[n]) :
    /\ events[n][i].price \in bought
    /\ events[n][i].sub \in IF n = "stripe" THEN StripeSubs ELSE PayPalSubs
CallsOfTheirs ==
  \A c \in PlanCalls :
    /\ call[c].op \in {"activate", "upgrade"} =>
         /\ call[c].sub \in PayPalSubs /\ Paid(call[c].sub)
         /\ call[c].plan \in Plans \cup {"FREE"} /\ Covers(bought, call[c].plan)
    /\ call[c].op \in {"ask", "clean", "confirm"} => call[c].intent \in B!Intent
RowWasBought == Covers(bought, row.plan)

\* A subscription of the tenant's that goes on, by an event of which a plan is set.
Counted(s) == s \in Tagged \cup PayPalSubs
GoesOn(s) == provider[s].state \notin {"none", "pending", "ended"}
Raises(e) == Counted(e.sub) /\ e.kind \in {"updated", "plan"}
Lowers(e) == Counted(e.sub) /\ e.kind = "deleted"

\* In order, what raises the plan for a subscription that has ended is followed by
\* what lowers it.
EndsComeLast ==
  \A n \in B!Names : \A i \in 1 .. Len(events[n]) :
    Raises(events[n][i]) =>
      \/ GoesOn(events[n][i].sub)
      \/ \E j \in i + 1 .. Len(events[n]) : Lowers(events[n][j])

\* A paid plan is the one of a subscription that goes on, or the event is under way
\* that ends it.
PlanEnds ==
  ordered /\ ~late /\ ~confirmed /\ row.plan # "FREE" =>
    \/ \E s \in B!Subs : Counted(s) /\ GoesOn(s)
    \/ \E n \in B!Names : \E i \in 1 .. Len(events[n]) : Lowers(events[n][i])

BillingInv ==
  /\ B!TypeOK /\ PaidIsBought /\ EventsOfTheirs /\ CallsOfTheirs /\ RowWasBought
  /\ (ordered => EndsComeLast) /\ PlanEnds

-----------------------------------------------------------------------------

States == B!StripeStates \cup {"none", "pending", "approved"}

\* The plan that is found for a price that was agreed to may be written.
LEMMA PlanOfPrice ==
  ASSUME B!BillingAssumption, NEW price \in B!Prices
  PROVE  /\ B!PlanFound(price) \in Plans \cup {"FREE"}
         /\ \A prices : price \in prices => Covers(prices, B!PlanFound(price))
  BY DEF B!BillingAssumption, B!Prices, B!PlanFound, Covers

\* What is agreed to later takes no plan away.
LEMMA CoversMore ==
  ASSUME NEW some, NEW more, some \subseteq more, NEW p, Covers(some, p)
  PROVE  Covers(more, p)
  BY DEF Covers

\* Every status of a subscription has its capitals.
LEMMA InCapitals ==
  ASSUME NEW state \in B!StripeStates
  PROVE  B!Capitals(state) \in B!RowStates
  BY DEF B!StripeStates, B!Capitals, B!RowStates

\* The queue a provider tells of a subscription in.
QueueOf(s) == IF s \in StripeSubs THEN "stripe" ELSE "paypal"

\* A sequence without its i-th element.
LEMMA Removal ==
  ASSUME NEW E, NEW q \in Seq(E), NEW i \in 1 .. Len(q)
  PROVE  /\ B!RemoveAt(q, i) \in Seq(E) /\ Len(B!RemoveAt(q, i)) = Len(q) - 1
         /\ \A k \in 1 .. Len(q) - 1 : B!RemoveAt(q, i)[k] = IF k < i THEN q[k] ELSE q[k + 1]
<1> DEFINE a == SubSeq(q, 1, i - 1)
           b == SubSeq(q, i + 1, Len(q))
<1>1. /\ Len(q) \in Nat /\ i \in Nat /\ i >= 1 /\ i <= Len(q)
      /\ \A k \in 1 .. Len(q) : q[k] \in E
  OBVIOUS
<1>2. a \in Seq(E) /\ Len(a) = i - 1 /\ \A k \in 1 .. i - 1 : a[k] = q[k]
  <2>1. \A k \in 1 .. i - 1 : q[k] \in E
    BY <1>1
  <2>2. /\ a \in Seq(E) /\ Len(a) = (IF 1 <= i - 1 THEN (i - 1) - 1 + 1 ELSE 0)
        /\ \A k \in 1 .. (i - 1) - 1 + 1 : a[k] = q[1 + k - 1]
    BY <1>1, <2>1, SubSeqProperties
  <2> HIDE DEF a
  <2> QED
    BY <1>1, <2>2
<1>3. b \in Seq(E) /\ Len(b) = Len(q) - i /\ \A k \in 1 .. Len(q) - i : b[k] = q[i + k]
  <2>1. \A k \in i + 1 .. Len(q) : q[k] \in E
    BY <1>1
  <2>2. /\ b \in Seq(E) /\ Len(b) = (IF i + 1 <= Len(q) THEN Len(q) - (i + 1) + 1 ELSE 0)
        /\ \A k \in 1 .. Len(q) - (i + 1) + 1 : b[k] = q[(i + 1) + k - 1]
    BY <1>1, <2>1, SubSeqProperties
  <2> HIDE DEF b
  <2> QED
    BY <1>1, <2>2
<1>4. B!RemoveAt(q, i) = a \o b
  BY DEF B!RemoveAt
<1> HIDE DEF a, b
<1>5. /\ a \o b \in Seq(E) /\ Len(a \o b) = Len(a) + Len(b)
      /\ \A k \in 1 .. Len(a) + Len(b) : (a \o b)[k] = IF k <= Len(a) THEN a[k] ELSE b[k - Len(a)]
  BY <1>2, <1>3, ConcatProperties
<1> DEFINE r == a \o b
<1> HIDE DEF r
<1>6. /\ r \in Seq(E) /\ Len(r) = Len(q) - 1
      /\ \A k \in 1 .. Len(q) - 1 : r[k] = IF k <= i - 1 THEN a[k] ELSE b[k - (i - 1)]
  BY <1>1, <1>2, <1>3, <1>5 DEF r
<1>7. ASSUME NEW k \in 1 .. Len(q) - 1 PROVE r[k] = IF k < i THEN q[k] ELSE q[k + 1]
  <2>1. CASE k < i
    BY <1>1, <1>2, <1>6, <2>1
  <2>2. CASE ~(k < i)
    <3>1. k - (i - 1) \in 1 .. Len(q) - i /\ i + (k - (i - 1)) = k + 1
      BY <1>1, <2>2
    <3>2. b[k - (i - 1)] = q[k + 1]
      BY <1>3, <3>1
    <3> QED
      BY <1>1, <1>6, <2>2, <3>2
  <2> QED
    BY <2>1, <2>2
<1> QED
  BY <1>4, <1>6, <1>7 DEF r

\* A step tells only of s, at the end of its queue, of plans that are bought, and
\* raises the plan only for a subscription that goes on.
Grows(s) ==
  /\ events' \in [B!Names -> Seq(B!Event)] /\ sent' \in 0 .. MaxEvents
  /\ \A n \in B!Names :
       /\ Len(events[n]) <= Len(events'[n])
       /\ \A i \in 1 .. Len(events[n]) : events'[n][i] = events[n][i]
       /\ \A i \in Len(events[n]) + 1 .. Len(events'[n]) :
            /\ n = QueueOf(s) /\ events'[n][i].sub = s /\ events'[n][i].price \in bought'
            /\ events'[n][i].kind \in {"updated", "plan"} => GoesOn(s)'

\* And changes only s: what has been paid stays so, and the end is told.
Changes(s) ==
  /\ provider' \in [B!Subs -> B!Subscription] /\ \A t \in B!Subs \ {s} : provider'[t] = provider[t]
  /\ bought \subseteq bought' /\ bought' \subseteq B!Prices
  /\ Paid(s) => Paid(s)'
  /\ Paid(s)' => provider'[s].price \in bought'
  /\ GoesOn(s) =>
       \/ GoesOn(s)'
       \/ \E i \in Len(events[QueueOf(s)]) + 1 .. Len(events'[QueueOf(s)]) :
            events'[QueueOf(s)][i].kind = "deleted"

\* What holds of the providers and their events, and of the row.
OutsideFits ==
  /\ ordered \in BOOLEAN /\ provider \in [B!Subs -> B!Subscription]
  /\ events \in [B!Names -> Seq(B!Event)] /\ sent \in 0 .. MaxEvents
  /\ expired \subseteq 1 .. MaxIntents /\ bought \subseteq B!Prices
  /\ PaidIsBought /\ EventsOfTheirs /\ (ordered => EndsComeLast)

RowFits ==
  /\ exists \in BOOLEAN /\ row \in B!Row /\ confirmed \in BOOLEAN /\ late \in BOOLEAN
  /\ RowWasBought /\ PlanEnds

CallRecords ==
  [op : B!Ops, sub : B!Subs \cup {None}, plan : Plans \cup {"FREE", None},
   intent : B!Intent \cup {None}]
CallsFit == call \in [PlanCalls -> CallRecords] /\ intents \in 0 .. MaxIntents /\ CallsOfTheirs

LEMMA BillingParts == BillingInv <=> OutsideFits /\ RowFits /\ CallsFit
  BY DEF BillingInv, B!TypeOK, OutsideFits, RowFits, CallsFit, CallRecords

LEMMA BillingPartsNext == BillingInv' <=> OutsideFits' /\ RowFits' /\ CallsFit'
  BY DEF BillingInv, B!TypeOK, OutsideFits, RowFits, CallsFit, CallRecords

\* What is kept when the providers, the calls or the row are left alone.
LEMMA OutsideKept ==
  ASSUME OutsideFits, UNCHANGED B!outside, bought \subseteq bought', bought' \subseteq B!Prices
  PROVE  OutsideFits'
  BY DEF OutsideFits, B!outside, PaidIsBought, Paid, EventsOfTheirs, EndsComeLast, Raises, Lowers,
         GoesOn

LEMMA CallsKept ==
  ASSUME CallsFit, UNCHANGED <<call, intents>>, bought \subseteq bought',
         \A s \in PayPalSubs : Paid(s) => Paid(s)'
  PROVE  CallsFit'
<1>1. \A c \in PlanCalls : Covers(bought, call[c].plan) => Covers(bought', call[c].plan)
  BY DEF Covers
<1> QED
  BY <1>1 DEF CallsFit, CallsOfTheirs

\* A queue only has events of its own subscriptions.
LEMMA QueueKnows ==
  ASSUME B!BillingAssumption, OutsideFits, NEW n \in B!Names, NEW i \in 1 .. Len(events[n])
  PROVE  /\ events[n][i] \in B!Event /\ events[n][i].sub \in B!Subs
         /\ QueueOf(events[n][i].sub) = n /\ events[n][i].price \in bought
<1>1. events[n] \in Seq(B!Event)
  BY DEF OutsideFits
<1>2. events[n][i] \in B!Event
  BY <1>1
<1>3. /\ events[n][i].price \in bought
      /\ events[n][i].sub \in IF n = "stripe" THEN StripeSubs ELSE PayPalSubs
  BY DEF OutsideFits, EventsOfTheirs
<1> QED
  BY <1>2, <1>3 DEF B!BillingAssumption, B!Subs, B!Names, QueueOf

\* The providers' side of the invariant, and the row's when the row is left alone.
LEMMA ProviderFits ==
  ASSUME B!BillingAssumption, OutsideFits, RowFits, NEW s \in B!Subs, Grows(s), Changes(s),
         UNCHANGED <<ordered, expired, exists, row, confirmed, late>>
  PROVE  /\ OutsideFits' /\ RowFits'
         /\ bought \subseteq bought' /\ \A t \in PayPalSubs : Paid(t) => Paid(t)'
<1> DEFINE q == QueueOf(s)
<1>0. /\ q \in B!Names
      /\ events \in [B!Names -> Seq(B!Event)] /\ events' \in [B!Names -> Seq(B!Event)]
      /\ \A n \in B!Names : Len(events[n]) \in Nat /\ Len(events'[n]) \in Nat
  BY DEF QueueOf, B!Names, OutsideFits, Grows
<1>1. /\ \A t \in B!Subs \ {s} : provider'[t] = provider[t] /\ Paid(t)' = Paid(t) /\ GoesOn(t)' = GoesOn(t)
      /\ bought \subseteq bought' /\ bought' \subseteq B!Prices
  BY DEF Changes, Paid, GoesOn
<1>2. \A t \in B!Subs : Paid(t) => Paid(t)'
  BY <1>1 DEF Changes
<1>3. PaidIsBought'
  BY <1>1 DEF Changes, PaidIsBought, OutsideFits
<1>4. EventsOfTheirs'
  <2>1. ASSUME NEW n \in B!Names, NEW i \in 1 .. Len(events'[n])
        PROVE  /\ events'[n][i].price \in bought'
               /\ events'[n][i].sub \in IF n = "stripe" THEN StripeSubs ELSE PayPalSubs
    <3>1. CASE i <= Len(events[n])
      <4>1. i \in 1 .. Len(events[n]) /\ events'[n][i] = events[n][i]
        BY <1>0, <2>1, <3>1 DEF Grows
      <4> QED
        BY <1>1, <4>1 DEF OutsideFits, EventsOfTheirs
    <3>2. CASE ~(i <= Len(events[n]))
      <4>1. i \in Len(events[n]) + 1 .. Len(events'[n])
        BY <1>0, <2>1, <3>2
      <4>2. n = QueueOf(s) /\ events'[n][i].sub = s /\ events'[n][i].price \in bought'
        BY <4>1 DEF Grows
      <4> QED
        BY <4>2 DEF QueueOf, B!Subs
    <3> QED
      BY <3>1, <3>2
  <2> QED
    BY <2>1 DEF EventsOfTheirs
\* The end of s is told at the end of its queue.
<1>5. ASSUME NEW t \in B!Subs, Counted(t), GoesOn(t), ~GoesOn(t)'
      PROVE  t = s /\ \E j \in Len(events[q]) + 1 .. Len(events'[q]) : Lowers(events'[q][j])
  <2>1. t = s
    BY <1>1, <1>5
  <2>2. PICK j \in Len(events[q]) + 1 .. Len(events'[q]) : events'[q][j].kind = "deleted"
    BY <1>5, <2>1 DEF Changes
  <2>3. events'[q][j].sub = s
    BY <1>0, <2>2 DEF Grows
  <2> QED
    BY <1>5, <2>1, <2>2, <2>3 DEF Lowers
<1>6. ASSUME ordered, NEW n \in B!Names, NEW i \in 1 .. Len(events'[n]), Raises(events'[n][i])
      PROVE  \/ provider'[events'[n][i].sub].state \notin {"none", "pending", "ended"}
             \/ \E j \in i + 1 .. Len(events'[n]) : Lowers(events'[n][j])
  <2>1. CASE i <= Len(events[n])
    <3>1. i \in 1 .. Len(events[n]) /\ events'[n][i] = events[n][i]
      BY <1>0, <1>6, <2>1 DEF Grows
    <3>2. events[n][i].sub \in B!Subs /\ QueueOf(events[n][i].sub) = n
      BY <3>1, QueueKnows
    <3>3. \/ GoesOn(events[n][i].sub) \/ \E j \in i + 1 .. Len(events[n]) : Lowers(events[n][j])
      BY <1>6, <3>1 DEF OutsideFits, EndsComeLast
    <3>4. CASE \E j \in i + 1 .. Len(events[n]) : Lowers(events[n][j])
      <4>1. PICK j \in i + 1 .. Len(events[n]) : Lowers(events[n][j])
        BY <3>4
      <4>2. j \in 1 .. Len(events[n]) /\ Len(events[n]) <= Len(events'[n])
        BY <1>0, <3>1, <4>1 DEF Grows
      <4>3. j \in i + 1 .. Len(events'[n]) /\ events'[n][j] = events[n][j]
        BY <1>0, <3>1, <4>1, <4>2 DEF Grows
      <4> QED
        BY <4>1, <4>3
    <3>5. CASE GoesOn(events[n][i].sub)
      <4> DEFINE t == events[n][i].sub
      <4>1. Counted(t) /\ t \in B!Subs /\ QueueOf(t) = n /\ GoesOn(t)
        BY <1>6, <3>1, <3>2, <3>5 DEF Raises
      <4> HIDE DEF t
      <4>a. CASE provider'[t].state \notin {"none", "pending", "ended"}
        BY <3>1, <4>a DEF t
      <4>b. CASE provider'[t].state \in {"none", "pending", "ended"}
        <5>2. n = q /\ \E j \in Len(events[q]) + 1 .. Len(events'[q]) : Lowers(events'[q][j])
          <6>1. PICK u \in B!Subs : u = t
            BY <4>1
          <6>2. ~GoesOn(u)' /\ GoesOn(u) /\ Counted(u)
            BY <4>1, <4>b, <6>1 DEF GoesOn
          <6> QED
            BY <1>5, <4>1, <6>1, <6>2
        <5>3. PICK j \in Len(events[n]) + 1 .. Len(events'[n]) : Lowers(events'[n][j])
          BY <5>2
        <5>4. j \in i + 1 .. Len(events'[n])
          BY <1>0, <3>1, <5>3
        <5> QED
          BY <5>3, <5>4
      <4> QED
        BY <4>a, <4>b
    <3> QED
      BY <3>3, <3>4, <3>5
  <2>2. CASE ~(i <= Len(events[n]))
    <3>1. i \in Len(events[n]) + 1 .. Len(events'[n])
      BY <1>0, <1>6, <2>2
    <3>2. events'[n][i].sub = s /\ (events'[n][i].kind \in {"updated", "plan"} => GoesOn(s)')
      BY <3>1 DEF Grows
    <3>3. events'[n][i].kind \in {"updated", "plan"}
      BY <1>6 DEF Raises
    <3> QED
      BY <3>2, <3>3 DEF GoesOn
  <2> QED
    BY <2>1, <2>2
<1>7. ordered' => EndsComeLast'
  BY <1>6 DEF EndsComeLast, Raises, Lowers, GoesOn
<1>8. PlanEnds'
  <2>1. SUFFICES ASSUME ordered, ~late, ~confirmed, row.plan # "FREE"
                 PROVE  \/ \E t \in B!Subs : Counted(t) /\ GoesOn(t)'
                        \/ \E n \in B!Names : \E i \in 1 .. Len(events'[n]) : Lowers(events'[n][i])
    BY DEF PlanEnds, Lowers
  <2>2. CASE \E n \in B!Names : \E i \in 1 .. Len(events[n]) : Lowers(events[n][i])
    <3>a. PICK n \in B!Names : \E i \in 1 .. Len(events[n]) : Lowers(events[n][i])
      BY <2>2
    <3>1. PICK i \in 1 .. Len(events[n]) : Lowers(events[n][i])
      BY <3>a
    <3>2. i \in 1 .. Len(events'[n]) /\ events'[n][i] = events[n][i]
      BY <1>0, <3>1 DEF Grows
    <3> QED
      BY <3>1, <3>2
  <2>3. CASE \E t \in B!Subs : Counted(t) /\ GoesOn(t)
    <3>1. PICK t \in B!Subs : Counted(t) /\ GoesOn(t)
      BY <2>3
    <3>2. CASE ~GoesOn(t)'
      <4>1. PICK j \in Len(events[q]) + 1 .. Len(events'[q]) : Lowers(events'[q][j])
        BY <1>5, <3>1, <3>2
      <4>2. j \in 1 .. Len(events'[q])
        BY <1>0, <4>1
      <4> QED
        BY <1>0, <4>1, <4>2
    <3> QED
      BY <3>1, <3>2
  <2> QED
    BY <2>1, <2>2, <2>3 DEF RowFits, PlanEnds
<1>9. OutsideFits'
  BY <1>1, <1>3, <1>4, <1>7 DEF OutsideFits, Grows, Changes
<1>10. RowFits'
  BY <1>1, <1>8 DEF RowFits, RowWasBought, Covers
<1>11. \A t \in PayPalSubs : Paid(t) => Paid(t)'
  BY <1>2 DEF B!Subs
<1> QED
  BY <1>1, <1>9, <1>10, <1>11

-----------------------------------------------------------------------------

\* What is told is at the end of the queue.
LEMMA Told ==
  ASSUME OutsideFits, intents \in Nat, MaxEvents \in Nat, NEW s \in B!Subs,
         NEW news \in Seq(B!Event), B!Tells(s, news),
         \A k \in 1 .. Len(news) :
           /\ news[k].sub = s /\ news[k].price \in bought'
           /\ news[k].kind \in {"updated", "plan"} => GoesOn(s)'
  PROVE  /\ Grows(s)
         /\ \A k \in 1 .. Len(news) :
              \E i \in Len(events[QueueOf(s)]) + 1 .. Len(events'[QueueOf(s)]) :
                events'[QueueOf(s)][i] = news[k]
<1> DEFINE q == QueueOf(s)
<1>0. q \in B!Names /\ events \in [B!Names -> Seq(B!Event)] /\ sent \in 0 .. MaxEvents
  BY DEF QueueOf, B!Names, OutsideFits
<1>1. /\ sent' = sent + Len(news) /\ sent + Len(news) <= MaxEvents - intents
      /\ events' = [events EXCEPT ![q] = events[q] \o news]
  BY DEF B!Tells, QueueOf
<1> HIDE DEF q
<1>2. Len(news) \in Nat /\ events[q] \in Seq(B!Event) /\ Len(events[q]) \in Nat
  BY <1>0
<1> DEFINE r == events[q] \o news
<1>3. /\ r \in Seq(B!Event) /\ Len(r) = Len(events[q]) + Len(news)
      /\ \A i \in 1 .. Len(events[q]) + Len(news) :
           r[i] = IF i <= Len(events[q]) THEN events[q][i] ELSE news[i - Len(events[q])]
  BY <1>2, ConcatProperties
<1> HIDE DEF r
<1>4. events' = [events EXCEPT ![q] = r]
  BY <1>1 DEF r
<1>5. /\ events' \in [B!Names -> Seq(B!Event)] /\ events'[q] = r
      /\ \A n \in B!Names \ {q} : events'[n] = events[n]
  BY <1>0, <1>3, <1>4
<1>6. sent' \in 0 .. MaxEvents
  BY <1>0, <1>1, <1>2
<1>7. \A i \in Len(events[q]) + 1 .. Len(r) : r[i] = news[i - Len(events[q])]
                                             /\ i - Len(events[q]) \in 1 .. Len(news)
  BY <1>2, <1>3
<1>8. ASSUME NEW n \in B!Names
      PROVE  /\ Len(events[n]) <= Len(events'[n])
             /\ \A i \in 1 .. Len(events[n]) : events'[n][i] = events[n][i]
             /\ \A i \in Len(events[n]) + 1 .. Len(events'[n]) :
                  /\ n = q /\ events'[n][i].sub = s /\ events'[n][i].price \in bought'
                  /\ events'[n][i].kind \in {"updated", "plan"} => GoesOn(s)'
  <2>1. CASE n = q
    <3>1. Len(r) >= Len(events[q]) /\ \A i \in 1 .. Len(events[q]) : r[i] = events[q][i]
      BY <1>2, <1>3
    <3>2. events[n] = events[q] /\ events'[n] = r
      BY <1>5, <2>1
    <3>3. Len(events[n]) <= Len(events'[n])
      BY <3>1, <3>2
    <3>4. \A i \in 1 .. Len(events[n]) : events'[n][i] = events[n][i]
      BY <3>1, <3>2
    <3>5. ASSUME NEW i \in Len(events[n]) + 1 .. Len(events'[n])
          PROVE  /\ events'[n][i].sub = s /\ events'[n][i].price \in bought'
                 /\ events'[n][i].kind \in {"updated", "plan"} => GoesOn(s)'
      <4>1. PICK k \in 1 .. Len(news) : events'[n][i] = news[k]
        BY <1>7, <3>2
      <4> QED
        BY <4>1
    <3> QED
      BY <2>1, <3>3, <3>4, <3>5
  <2>2. CASE n # q
    <3>1. events'[n] = events[n] /\ Len(events[n]) \in Nat
      BY <1>0, <1>5, <2>2
    <3> QED
      BY <3>1
  <2> QED
    BY <2>1, <2>2
<1>9. ASSUME NEW k \in 1 .. Len(news)
      PROVE  \E i \in Len(events[q]) + 1 .. Len(events'[q]) : events'[q][i] = news[k]
  <2> DEFINE m == Len(events[q])
             i == m + k
  <2>1. m \in Nat /\ k \in Nat /\ k >= 1 /\ k <= Len(news) /\ Len(r) = m + Len(news)
    BY <1>2, <1>3
  <2>2. i \in m + 1 .. Len(r) /\ i \in 1 .. m + Len(news) /\ ~(i <= m) /\ i - m = k
    BY <1>2, <2>1
  <2>3. r[i] = news[i - m]
    BY <1>3, <2>2
  <2> QED
    BY <1>5, <2>2, <2>3
<1> QED
  BY <1>5, <1>6, <1>8, <1>9 DEF Grows, q

\* One event.
LEMMA ToldOnce ==
  ASSUME OutsideFits, intents \in Nat, MaxEvents \in Nat, NEW s \in B!Subs, NEW k \in B!EventKinds,
         B!Tells(s, <<B!EventOf(s, k)>>), provider'[s].price \in bought', bought' \subseteq B!Prices,
         provider'[s].state \in B!StripeStates,
         k \in {"updated", "plan"} => GoesOn(s)'
  PROVE  /\ Grows(s)
         /\ \E i \in Len(events[QueueOf(s)]) + 1 .. Len(events'[QueueOf(s)]) :
              events'[QueueOf(s)][i].kind = k
<1> DEFINE e == B!EventOf(s, k)
<1>1. /\ e \in B!Event /\ e.sub = s /\ e.price = provider'[s].price /\ e.kind = k
  BY DEF B!EventOf, B!Event
<1> HIDE DEF e
<1> DEFINE news == <<e>>
<1>2. news \in Seq(B!Event) /\ Len(news) = 1 /\ news[1] = e
  BY <1>1
<1>3. B!Tells(s, news)
  BY DEF e
<1> HIDE DEF news
<1>4. \A j \in 1 .. Len(news) :
        /\ news[j].sub = s /\ news[j].price \in bought'
        /\ news[j].kind \in {"updated", "plan"} => GoesOn(s)'
  BY <1>1, <1>2
<1>5. /\ Grows(s)
      /\ \A j \in 1 .. Len(news) :
           \E i \in Len(events[QueueOf(s)]) + 1 .. Len(events'[QueueOf(s)]) :
             events'[QueueOf(s)][i] = news[j]
  BY <1>2, <1>3, <1>4, Told
<1>6. \E i \in Len(events[QueueOf(s)]) + 1 .. Len(events'[QueueOf(s)]) : events'[QueueOf(s)][i] = e
  BY <1>2, <1>5
<1> QED
  BY <1>1, <1>5, <1>6

\* None.
LEMMA ToldNothing ==
  ASSUME OutsideFits, NEW s \in B!Subs, UNCHANGED <<events, sent>>
  PROVE  Grows(s)
<1>1. \A n \in B!Names : events'[n] = events[n] /\ Len(events[n]) \in Nat
  BY DEF OutsideFits
<1> QED
  BY <1>1 DEF OutsideFits, Grows

\* A subscription that gets into another state, or on another plan.
LEMMA StateChanged ==
  ASSUME OutsideFits, NEW s \in B!Subs, NEW x \in States, B!Becomes(s, x),
         bought \subseteq bought', bought' \subseteq B!Prices,
         x \in {"none", "pending"} => ~Paid(s),
         x \notin {"none", "pending"} => provider[s].price \in bought',
         \/ GoesOn(s) => x \notin {"none", "pending", "ended"}
         \/ \E i \in Len(events[QueueOf(s)]) + 1 .. Len(events'[QueueOf(s)]) :
              events'[QueueOf(s)][i].kind = "deleted"
  PROVE  Changes(s) /\ provider'[s].price = provider[s].price /\ provider'[s].state = x
<1>1. /\ provider' \in [B!Subs -> B!Subscription]
      /\ \A t \in B!Subs \ {s} : provider'[t] = provider[t]
      /\ provider'[s].price = provider[s].price /\ provider'[s].state = x
  BY DEF B!Becomes, OutsideFits, B!Subscription, States
<1> QED
  BY <1>1 DEF Changes, Paid, GoesOn

LEMMA NothingChanged ==
  ASSUME OutsideFits, NEW s \in B!Subs, UNCHANGED <<provider, bought>>
  PROVE  Changes(s)
  BY DEF OutsideFits, Changes, Paid, GoesOn, PaidIsBought

LEMMA Becoming ==
  ASSUME OutsideFits, NEW s \in B!Subs, NEW x \in States, B!Becomes(s, x)
  PROVE  provider'[s].price = provider[s].price /\ provider'[s].state = x
         /\ provider[s].price \in B!Prices
  BY DEF B!Becomes, OutsideFits, B!Subscription, States

\* The steps of the providers.
LEMMA ProviderStep ==
  ASSUME B!BillingAssumption, OutsideFits, intents \in Nat, MaxEvents \in Nat, NEW s \in B!Subs,
         \/ B!SubscribeStripe(s) \/ B!MoveOn(s) \/ B!ApprovePayPal(s) \/ B!StartPayPal(s)
         \/ B!Charge(s) \/ B!EndAtProvider(s) \/ B!CreatePayPal(s)
  PROVE  Grows(s) /\ Changes(s)
<1>0. /\ bought \subseteq B!Prices /\ provider[s].price \in B!Prices
      /\ (Paid(s) => provider[s].price \in bought)
      /\ {"none", "pending", "approved"} \subseteq States /\ B!StripeStates \subseteq States
      /\ B!StripeStates
           = {"active", "past_due", "incomplete", "incomplete_expired", "unpaid", "ended"}
  BY DEF OutsideFits, PaidIsBought, B!Subscription, B!StripeStates, States
<1>a. CASE B!SubscribeStripe(s) /\ B!Becomes(s, "incomplete")
           /\ B!Tells(s, <<B!EventOf(s, "updated")>>)
  <2>1. provider[s].state = "none" /\ bought' = bought \cup {provider[s].price}
    BY <1>a DEF B!SubscribeStripe, B!Buys
  <2>2. provider'[s].price = provider[s].price /\ provider'[s].state = "incomplete" /\ GoesOn(s)'
    BY <1>0, <1>a, Becoming DEF GoesOn
  <2>3. Grows(s)
    BY <1>0, <1>a, <2>1, <2>2, ToldOnce DEF B!EventKinds
  <2>4. Changes(s)
    BY <1>0, <1>a, <2>1, StateChanged
  <2> QED
    BY <2>3, <2>4
<1>b. CASE B!MoveOn(s)
  <2>1. PICK x \in B!Onward(provider[s].state) : B!Becomes(s, x)
    BY <1>b DEF B!MoveOn
  <2>2. /\ provider[s].state \in {"incomplete", "past_due", "unpaid"}
        /\ x \in {"active", "incomplete_expired", "unpaid"}
    BY <2>1 DEF B!Onward
  <2>3. bought' = bought /\ B!Tells(s, <<B!EventOf(s, "updated")>>)
    BY <1>b DEF B!MoveOn, B!history
  <2>4. Paid(s) /\ provider'[s].price = provider[s].price /\ provider'[s].state = x /\ GoesOn(s)'
    BY <1>0, <2>1, <2>2, Becoming DEF Paid, GoesOn
  <2>5. Grows(s)
    BY <1>0, <2>2, <2>3, <2>4, ToldOnce DEF B!EventKinds
  <2>6. Changes(s)
    BY <1>0, <2>1, <2>2, <2>3, <2>4, StateChanged
  <2> QED
    BY <2>5, <2>6
<1>1. CASE B!SubscribeStripe(s) /\ B!Becomes(s, "active")
           /\ B!Tells(s, <<B!EventOf(s, "updated"), B!EventOf(s, "paid")>>)
  <2> DEFINE e == B!EventOf(s, "updated")
             f == B!EventOf(s, "paid")
             news == <<e, f>>
  <2>1. /\ provider[s].state = "none" /\ B!Becomes(s, "active") /\ B!Tells(s, news)
        /\ bought' = bought \cup {provider[s].price}
    BY <1>1 DEF B!SubscribeStripe, B!Buys
  <2>2. provider'[s].price = provider[s].price /\ provider'[s].state = "active"
    BY <1>0, <2>1, Becoming
  <2>3. /\ e \in B!Event /\ e.sub = s /\ e.price = provider'[s].price
        /\ f \in B!Event /\ f.sub = s /\ f.price = provider'[s].price
    BY <1>0, <2>2 DEF B!EventOf, B!Event, B!EventKinds
  <2> HIDE DEF e, f
  <2>4. news \in Seq(B!Event) /\ Len(news) = 2 /\ news[1] = e /\ news[2] = f
    BY <2>3
  <2> HIDE DEF news
  <2>5. GoesOn(s)'
    BY <2>2 DEF GoesOn
  <2>6. \A k \in 1 .. Len(news) :
          /\ news[k].sub = s /\ news[k].price \in bought'
          /\ news[k].kind \in {"updated", "plan"} => GoesOn(s)'
    BY <2>1, <2>2, <2>3, <2>4, <2>5
  <2>7. Grows(s)
    BY <2>1, <2>4, <2>6, Told
  <2>8. Changes(s)
    BY <1>0, <2>1, StateChanged
  <2> QED
    BY <2>7, <2>8
<1>2. CASE B!ApprovePayPal(s)
  <2>1. /\ B!Becomes(s, "approved") /\ bought' = bought \cup {provider[s].price}
        /\ UNCHANGED <<events, sent>>
    BY <1>2 DEF B!ApprovePayPal, B!Buys
  <2> QED
    BY <1>0, <2>1, ToldNothing, StateChanged
<1>3. CASE B!StartPayPal(s)
  <2>1. /\ provider[s].state = "approved" /\ B!Becomes(s, "active") /\ bought' = bought
        /\ B!Tells(s, <<B!EventOf(s, "updated")>>)
    BY <1>3 DEF B!StartPayPal, B!history
  <2>2. Paid(s) /\ provider'[s].price = provider[s].price /\ provider'[s].state = "active" /\ GoesOn(s)'
    BY <1>0, <2>1, Becoming DEF Paid, GoesOn
  <2>3. Grows(s)
    BY <1>0, <2>1, <2>2, ToldOnce DEF B!EventKinds
  <2> QED
    BY <1>0, <2>1, <2>2, <2>3, StateChanged
<1>4. CASE B!Charge(s)
  <2>1. PICK x \in {"active", "past_due"}, k \in {"paid", "unpaid"} :
          /\ provider[s].state \in {"active", "past_due"} /\ B!Becomes(s, x) /\ bought' = bought
          /\ B!Tells(s, <<B!EventOf(s, k)>>)
    BY <1>4 DEF B!Charge, B!history
  <2>2. Paid(s) /\ provider'[s].price = provider[s].price /\ provider'[s].state = x
    BY <1>0, <2>1, Becoming DEF Paid
  <2>3. Grows(s)
    BY <1>0, <2>1, <2>2, ToldOnce DEF B!EventKinds
  <2> QED
    BY <1>0, <2>1, <2>2, <2>3, StateChanged
<1>5. CASE B!EndAtProvider(s)
  <2>1. /\ provider[s].state \in {"active", "past_due", "unpaid"} /\ B!Becomes(s, "ended") /\ bought' = bought
        /\ B!Tells(s, <<B!EventOf(s, "deleted")>>)
    BY <1>5 DEF B!EndAtProvider, B!history
  <2>2. Paid(s) /\ provider'[s].price = provider[s].price /\ provider'[s].state = "ended"
    BY <1>0, <2>1, Becoming DEF Paid
  <2>3. /\ Grows(s)
        /\ \E i \in Len(events[QueueOf(s)]) + 1 .. Len(events'[QueueOf(s)]) :
             events'[QueueOf(s)][i].kind = "deleted"
    BY <1>0, <2>1, <2>2, ToldOnce DEF B!EventKinds
  <2> QED
    BY <1>0, <2>1, <2>2, <2>3, StateChanged
<1>6. CASE B!CreatePayPal(s)
  <2>1. /\ provider[s].state = "none" /\ B!Becomes(s, "pending") /\ bought' = bought
        /\ UNCHANGED <<events, sent>>
    BY <1>6 DEF B!CreatePayPal, B!history
  <2>2. ~Paid(s) /\ ~GoesOn(s)
    BY <2>1 DEF Paid, GoesOn
  <2> QED
    BY <1>0, <2>1, <2>2, ToldNothing, StateChanged
<1> QED
  BY <1>a, <1>b, <1>1, <1>2, <1>3, <1>4, <1>5, <1>6 DEF B!SubscribeStripe

LEMMA ProviderInv ==
  ASSUME B!BillingAssumption, BillingInv,
         B!Provider \/ B!CreateCheckout \/ B!CancelStripe \/ \E s \in B!Subs : B!CreatePayPal(s)
  PROVE  BillingInv'
<1>0. OutsideFits /\ RowFits /\ CallsFit
  BY BillingParts
<1>n. intents \in Nat /\ MaxEvents \in Nat
  BY <1>0 DEF CallsFit, B!BillingAssumption
<1>1. ASSUME NEW s \in B!Subs,
             \/ B!SubscribeStripe(s) \/ B!MoveOn(s) \/ B!ApprovePayPal(s) \/ B!StartPayPal(s)
             \/ B!Charge(s) \/ B!EndAtProvider(s) \/ B!CreatePayPal(s)
      PROVE  BillingInv'
  <2>1. UNCHANGED <<ordered, expired, exists, row, call, intents, confirmed, late>>
    BY <1>1 DEF B!SubscribeStripe, B!MoveOn, B!ApprovePayPal, B!StartPayPal, B!Charge, B!EndAtProvider,
                B!CreatePayPal, B!table, B!history
  <2>2. Grows(s) /\ Changes(s)
    BY <1>0, <1>n, <1>1, ProviderStep
  <2>3. OutsideFits' /\ RowFits' /\ bought \subseteq bought' /\ \A t \in PayPalSubs : Paid(t) => Paid(t)'
    BY <1>0, <2>1, <2>2, ProviderFits
  <2>4. CallsFit'
    BY <1>0, <2>1, <2>3, CallsKept
  <2> QED
    BY <2>3, <2>4, BillingPartsNext
<1>2. CASE B!CancelStripe
  <2>0. PICK s \in B!Subs : s = row.stripe
    BY <1>0, <1>2 DEF B!CancelStripe, RowFits, B!Row, B!Subs
  <2>1. /\ provider[s].state \in {"active", "past_due", "unpaid"} /\ UNCHANGED <<provider, bought>>
        /\ B!Tells(s, <<B!EventOf(s, "updated")>>)
        /\ UNCHANGED <<ordered, expired, exists, row, call, intents, confirmed, late>>
    BY <1>2, <2>0 DEF B!CancelStripe, B!table, B!history
  <2>3. "updated" \in B!EventKinds /\ provider'[s].state \in B!StripeStates
    BY <2>1 DEF B!EventKinds, B!StripeStates
  <2>4. provider'[s].price \in bought' /\ bought' \subseteq B!Prices /\ GoesOn(s)'
    BY <1>0, <2>1 DEF OutsideFits, PaidIsBought, Paid, GoesOn
  <2>5. Grows(s)
    BY <1>0, <1>n, <2>1, <2>3, <2>4, ToldOnce
  <2>6. Changes(s)
    BY <1>0, <2>1, NothingChanged
  <2>7. OutsideFits' /\ RowFits' /\ bought \subseteq bought' /\ \A t \in PayPalSubs : Paid(t) => Paid(t)'
    BY <1>0, <2>1, <2>5, <2>6, ProviderFits
  <2>8. CallsFit'
    BY <1>0, <2>1, <2>7, CallsKept
  <2> QED
    BY <2>7, <2>8, BillingPartsNext
<1>3. ASSUME NEW i \in 1 .. MaxIntents, B!DayPasses(i) PROVE BillingInv'
  <2>1. /\ expired' = expired \cup {i}
        /\ UNCHANGED <<ordered, provider, events, sent, exists, row, call, intents,
                       bought, confirmed, late>>
    BY <1>3 DEF B!DayPasses, B!table, B!history
  <2>2. OutsideFits'
    BY <1>0, <2>1 DEF OutsideFits, PaidIsBought, Paid, EventsOfTheirs, EndsComeLast, Raises, Lowers,
                      GoesOn
  <2>3. RowFits'
    BY <1>0, <2>1 DEF RowFits, RowWasBought, PlanEnds, Lowers, GoesOn
  <2>4. CallsFit'
    BY <1>0, <2>1, CallsKept DEF Paid
  <2> QED
    BY <2>2, <2>3, <2>4, BillingPartsNext
<1>4. CASE B!CreateCheckout
  <2>1. /\ exists' = TRUE /\ row' = [row EXCEPT !.customer = TRUE]
        /\ UNCHANGED B!outside /\ UNCHANGED <<call, intents, bought, confirmed, late>>
    BY <1>4 DEF B!CreateCheckout, B!history
  <2>2. OutsideFits'
    BY <1>0, <2>1, OutsideKept DEF OutsideFits
  <2>3. row' \in B!Row /\ row'.plan = row.plan
    BY <1>0, <2>1 DEF RowFits, B!Row
  <2>4. RowFits'
    BY <1>0, <2>1, <2>3 DEF RowFits, RowWasBought, PlanEnds, Lowers, GoesOn, B!outside
  <2>5. CallsFit'
    BY <1>0, <2>1, CallsKept DEF Paid, B!outside
  <2> QED
    BY <2>2, <2>4, <2>5, BillingPartsNext
<1> QED
  BY <1>1, <1>2, <1>3, <1>4 DEF B!Provider

-----------------------------------------------------------------------------

\* The row of a tenant that is on the free plan again.
LEMMA EndedRow ==
  ASSUME NEW r \in B!Row
  PROVE  B!Ended(r) \in B!Row /\ B!Ended(r).plan = "FREE"
  BY DEF B!Ended, B!Row, B!RowStates

LEMMA NoPayPal ==
  ASSUME NEW r \in B!Row
  PROVE  /\ [r EXCEPT !.paypal = None] \in B!Row /\ [r EXCEPT !.paypal = None].plan = r.plan
         /\ [r EXCEPT !.stripe = None] \in B!Row /\ [r EXCEPT !.stripe = None].plan = r.plan
         /\ [r EXCEPT !.intent = None] \in B!Row /\ [r EXCEPT !.intent = None].plan = r.plan
  BY DEF B!Row

\* What an event makes of the plan: it is raised, lowered, or left by what does not lower it.
LEMMA EventWrites ==
  ASSUME B!BillingAssumption, OutsideFits, RowFits, NEW n \in B!Names, NEW i \in 1 .. Len(events[n]),
         IF n = "stripe" THEN B!StripeEvent(events[n][i]) ELSE B!PayPalEvent(events[n][i])
  PROVE  /\ exists' \in BOOLEAN /\ row' \in B!Row
         /\ \/ row'.plan = "FREE"
            \/ Raises(events[n][i]) /\ row'.plan = B!PlanFound(events[n][i].price)
            \/ ~Lowers(events[n][i]) /\ row'.plan = row.plan
<1>0. PICK e \in B!Event : e = events[n][i]
  BY QueueKnows
<1>1. /\ row \in B!Row /\ exists \in BOOLEAN
      /\ e.kind \in B!EventKinds /\ e.price \in B!Prices /\ e.status \in B!StripeStates
      /\ e.sub \in IF n = "stripe" THEN StripeSubs ELSE PayPalSubs
      /\ StripeSubs \cap PayPalSubs = {} /\ Tagged \subseteq StripeSubs
  BY <1>0 DEF RowFits, OutsideFits, EventsOfTheirs, B!Event, B!BillingAssumption
<1> DEFINE found == B!PlanFound(e.price)
           capitals == B!Capitals(e.status)
           paid == B!InvoiceStatus(e)
<1>a. /\ found \in Plans \cup {"FREE"} /\ capitals \in B!RowStates
      /\ paid \in B!RowStates /\ "ACTIVE" \in B!RowStates
  BY <1>1, PlanOfPrice, InCapitals DEF B!InvoiceStatus, B!RowStates
<1>b. found = B!PlanFound(events[n][i].price)
  BY <1>0
<1> HIDE DEF found, capitals, paid
<1>2. CASE n = "stripe"
  <2>1. B!StripeEvent(e)
    BY <1>0, <1>2
  <2>2. e.sub \in Tagged <=> Counted(e.sub)
    BY <1>1, <1>2 DEF Counted
  <2>3. CASE e.kind \in {"updated", "deleted"} /\ B!StripeSubscription(e)
    <3>1. CASE e.sub \notin Tagged
      BY <1>0, <1>1, <2>2, <2>3, <3>1 DEF B!StripeSubscription, B!table, Lowers
    <3>2. CASE e.sub \in Tagged /\ e.kind = "updated"
      <4>1. exists' = TRUE /\ row' = [row EXCEPT !.stripe = e.sub, !.customer = TRUE,
                                                 !.plan = found, !.status = capitals]
        BY <2>3, <3>2 DEF B!StripeSubscription, B!Upsert, found, capitals
      <4>2. row' \in B!Row /\ row'.plan = found
        BY <1>1, <1>2, <1>a, <4>1 DEF B!Row
      <4> QED
        BY <1>0, <1>b, <2>2, <3>2, <4>1, <4>2 DEF Raises
    <3>3. CASE e.sub \in Tagged /\ e.kind = "deleted"
      <4>1. exists' = TRUE /\ row' = [B!Ended(row) EXCEPT !.stripe = None]
        BY <2>3, <3>3 DEF B!StripeSubscription, B!Upsert
      <4> QED
        BY <1>1, <4>1, EndedRow, NoPayPal
    <3> QED
      BY <2>3, <3>1, <3>2, <3>3
  <2>4. CASE e.kind \in {"paid", "unpaid"} /\ B!StripeInvoice(e)
    <3>1. exists' = exists /\ (row' = row \/ row' = [row EXCEPT !.status = paid])
      BY <2>4 DEF B!StripeInvoice, B!Update, B!table, paid
    <3>2. row' \in B!Row /\ row'.plan = row.plan
      BY <1>1, <1>a, <3>1 DEF B!Row
    <3> QED
      BY <1>0, <1>1, <2>4, <3>1, <3>2 DEF Lowers
  <2>5. CASE e.kind = "refunded" /\ B!Update(B!Ended(row))
    BY <1>1, <2>5, EndedRow DEF B!Update
  <2> QED
    BY <2>1, <2>3, <2>4, <2>5 DEF B!StripeEvent
<1>3. CASE n # "stripe"
  <2>1. B!PayPalEvent(e) /\ Counted(e.sub)
    BY <1>0, <1>1, <1>3 DEF Counted
  <2>2. CASE e.kind = "updated"
             /\ B!Upsert([row EXCEPT !.paypal = e.sub, !.plan = found, !.status = "ACTIVE"])
    <3>1. row' = [row EXCEPT !.paypal = e.sub, !.plan = found, !.status = "ACTIVE"] /\ exists' = TRUE
      BY <2>2 DEF B!Upsert
    <3>2. row' \in B!Row /\ row'.plan = found
      BY <1>1, <1>3, <1>a, <3>1 DEF B!Row
    <3> QED
      BY <1>0, <1>b, <2>1, <2>2, <3>1, <3>2 DEF Raises
  <2>3. CASE e.kind \in {"paid", "unpaid"} /\ B!Update([row EXCEPT !.status = paid])
    <3>1. row' = [row EXCEPT !.status = paid] /\ exists' = exists
      BY <2>3 DEF B!Update
    <3>2. row' \in B!Row /\ row'.plan = row.plan
      BY <1>1, <1>a, <3>1 DEF B!Row
    <3> QED
      BY <1>0, <1>1, <2>3, <3>1, <3>2 DEF Lowers
  <2>4. CASE e.kind = "deleted" /\ B!Update([B!Ended(row) EXCEPT !.paypal = None])
    <3>1. row' = [B!Ended(row) EXCEPT !.paypal = None] /\ exists' = exists
      BY <2>4 DEF B!Update
    <3> QED
      BY <1>1, <3>1, EndedRow, NoPayPal
  <2>5. CASE e.kind = "plan" /\ B!Update([row EXCEPT !.plan = found])
    <3>1. row' = [row EXCEPT !.plan = found] /\ exists' = exists
      BY <2>5 DEF B!Update
    <3>2. row' \in B!Row /\ row'.plan = found
      BY <1>1, <1>a, <3>1 DEF B!Row
    <3> QED
      BY <1>0, <1>1, <1>b, <2>1, <2>5, <3>1, <3>2 DEF Raises
  <2> QED
    BY <2>1, <2>2, <2>3, <2>4, <2>5 DEF B!PayPalEvent, found, paid
<1> QED
  BY <1>2, <1>3

\* The queues after an event was handled, and perhaps is there to be handled again.
LEMMA EventHandled ==
  ASSUME B!BillingAssumption, OutsideFits, NEW n \in B!Names, NEW i \in 1 .. Len(events[n]),
         \/ events' = [events EXCEPT ![n] = B!RemoveAt(events[n], i)]
         \/ UNCHANGED events
  PROVE  /\ events' \in [B!Names -> Seq(B!Event)]
         /\ \A m \in B!Names : m # n => events'[m] = events[m]
         /\ \/ events'[n] = events[n]
            \/ /\ Len(events'[n]) = Len(events[n]) - 1
               /\ \A k \in 1 .. Len(events[n]) - 1 :
                    events'[n][k] = IF k < i THEN events[n][k] ELSE events[n][k + 1]
<1>1. events \in [B!Names -> Seq(B!Event)] /\ events[n] \in Seq(B!Event)
  BY DEF OutsideFits
<1>2. CASE UNCHANGED events
  BY <1>1, <1>2
<1>3. CASE events' = [events EXCEPT ![n] = B!RemoveAt(events[n], i)]
  <2> DEFINE r == B!RemoveAt(events[n], i)
  <2>1. /\ r \in Seq(B!Event) /\ Len(r) = Len(events[n]) - 1
        /\ \A k \in 1 .. Len(events[n]) - 1 : r[k] = IF k < i THEN events[n][k] ELSE events[n][k + 1]
    BY <1>1, Removal
  <2> HIDE DEF r
  <2>2. events' = [events EXCEPT ![n] = r]
    BY <1>3 DEF r
  <2>3. /\ events' \in [B!Names -> Seq(B!Event)] /\ events'[n] = r
        /\ \A m \in B!Names : m # n => events'[m] = events[m]
    BY <1>1, <2>1, <2>2
  <2> QED
    BY <2>1, <2>3
<1> QED
  BY <1>2, <1>3

LEMMA HandleInv ==
  ASSUME B!BillingAssumption, BillingInv, NEW n \in B!Names, B!HandleEvent(n)
  PROVE  BillingInv'
<1>0. OutsideFits /\ RowFits /\ CallsFit
  BY BillingParts
<1>1. PICK i \in DOMAIN events[n] :
        /\ ordered => i = 1
        /\ IF n = "stripe" THEN B!StripeEvent(events[n][i]) ELSE B!PayPalEvent(events[n][i])
        /\ \/ events' = [events EXCEPT ![n] = B!RemoveAt(events[n], i)]
           \/ UNCHANGED events
  BY DEF B!HandleEvent
<1>2. UNCHANGED <<ordered, provider, sent, expired, call, intents, bought, confirmed, late>>
  BY DEF B!HandleEvent, B!history
<1>3. \A m \in B!Names : events[m] \in Seq(B!Event) /\ Len(events[m]) \in Nat
  BY <1>0 DEF OutsideFits
<1>4. i \in 1 .. Len(events[n]) /\ i \in Nat /\ i >= 1
  BY <1>1, <1>3
<1>5. /\ exists' \in BOOLEAN /\ row' \in B!Row
      /\ \/ row'.plan = "FREE"
         \/ Raises(events[n][i]) /\ row'.plan = B!PlanFound(events[n][i].price)
         \/ ~Lowers(events[n][i]) /\ row'.plan = row.plan
  BY <1>0, <1>1, <1>4, EventWrites
<1>6. /\ events' \in [B!Names -> Seq(B!Event)]
      /\ \A m \in B!Names : m # n => events'[m] = events[m]
      /\ \/ events'[n] = events[n]
         \/ /\ Len(events'[n]) = Len(events[n]) - 1
            /\ \A k \in 1 .. Len(events[n]) - 1 :
                 events'[n][k] = IF k < i THEN events[n][k] ELSE events[n][k + 1]
  BY <1>0, <1>1, <1>4, EventHandled
\* What is there after it was there before it, and the later ones are later.
<1>7. ASSUME NEW m \in B!Names, NEW k \in 1 .. Len(events'[m])
      PROVE  \E j \in 1 .. Len(events[m]) : events'[m][k] = events[m][j]
  <2>1. CASE events'[m] = events[m]
    BY <1>7, <2>1
  <2>2. CASE events'[m] # events[m]
    <3>1. /\ m = n /\ k \in 1 .. Len(events[n]) - 1
          /\ events'[n][k] = IF k < i THEN events[n][k] ELSE events[n][k + 1]
      BY <1>6, <1>7, <2>2
    <3>2. k \in 1 .. Len(events[n]) /\ k + 1 \in 1 .. Len(events[n])
      BY <1>3, <3>1
    <3> QED
      BY <3>1, <3>2
  <2> QED
    BY <2>1, <2>2
<1>8. ASSUME ordered
      PROVE  \/ events'[n] = events[n]
             \/ /\ Len(events'[n]) = Len(events[n]) - 1
                /\ \A k \in 1 .. Len(events[n]) - 1 : events'[n][k] = events[n][k + 1]
  <2>1. \A k \in 1 .. Len(events[n]) - 1 : ~(k < i)
    BY <1>1, <1>3, <1>8
  <2> QED
    BY <1>6, <2>1
<1>9. ASSUME ordered, NEW m \in B!Names, NEW j \in 1 .. Len(events[m]), m # n \/ j > 1
      PROVE  \E k \in 1 .. Len(events'[m]) : events'[m][k] = events[m][j]
  <2>1. CASE events'[m] = events[m]
    BY <1>9, <2>1
  <2>2. CASE events'[m] # events[m]
    <3>1. /\ m = n /\ Len(events'[n]) = Len(events[n]) - 1
          /\ \A k \in 1 .. Len(events[n]) - 1 : events'[n][k] = events[n][k + 1]
      BY <1>6, <1>8, <1>9, <2>2
    <3>2. j - 1 \in 1 .. Len(events[n]) - 1 /\ (j - 1) + 1 = j
      BY <1>3, <1>9, <3>1
    <3> QED
      BY <3>1, <3>2
  <2> QED
    BY <2>1, <2>2
<1>10. EventsOfTheirs'
  <2>1. ASSUME NEW m \in B!Names, NEW k \in 1 .. Len(events'[m])
        PROVE  /\ events'[m][k].price \in bought
               /\ events'[m][k].sub \in IF m = "stripe" THEN StripeSubs ELSE PayPalSubs
    <3>1. PICK j \in 1 .. Len(events[m]) : events'[m][k] = events[m][j]
      BY <1>7, <2>1
    <3>2. /\ events[m][j].price \in bought
          /\ events[m][j].sub \in IF m = "stripe" THEN StripeSubs ELSE PayPalSubs
      BY <1>0, <2>1 DEF OutsideFits, EventsOfTheirs
    <3> QED
      BY <3>1, <3>2
  <2> QED
    BY <1>2, <2>1 DEF EventsOfTheirs
<1>11. ordered' => EndsComeLast'
  <2>1. ASSUME ordered, NEW m \in B!Names, NEW k \in 1 .. Len(events'[m]), Raises(events'[m][k])
        PROVE  \/ GoesOn(events'[m][k].sub)
               \/ \E j \in k + 1 .. Len(events'[m]) : Lowers(events'[m][j])
    <3>1. CASE events'[m] = events[m]
      BY <1>0, <2>1, <3>1 DEF OutsideFits, EndsComeLast
    <3>2. CASE events'[m] # events[m]
      <4>1. /\ m = n /\ Len(events'[n]) = Len(events[n]) - 1
            /\ \A l \in 1 .. Len(events[n]) - 1 : events'[n][l] = events[n][l + 1]
        BY <1>6, <1>8, <2>1, <3>2
      <4>2. k \in 1 .. Len(events[n]) - 1 /\ k + 1 \in 1 .. Len(events[n])
            /\ events'[n][k] = events[n][k + 1]
        BY <1>3, <2>1, <4>1
      <4>3. \/ GoesOn(events[n][k + 1].sub)
            \/ \E j \in (k + 1) + 1 .. Len(events[n]) : Lowers(events[n][j])
        BY <1>0, <2>1, <4>1, <4>2 DEF OutsideFits, EndsComeLast
      <4>4. CASE \E j \in (k + 1) + 1 .. Len(events[n]) : Lowers(events[n][j])
        <5>1. PICK j \in (k + 1) + 1 .. Len(events[n]) : Lowers(events[n][j])
          BY <4>4
        <5>2. /\ j - 1 \in k + 1 .. Len(events[n]) - 1 /\ j - 1 \in 1 .. Len(events[n]) - 1
              /\ (j - 1) + 1 = j
          BY <1>3, <4>2, <5>1
        <5>3. events'[n][j - 1] = events[n][j]
          BY <4>1, <5>2
        <5> QED
          BY <4>1, <5>1, <5>2, <5>3
      <4> QED
        BY <4>1, <4>2, <4>3, <4>4
    <3> QED
      BY <3>1, <3>2
  <2> QED
    BY <1>2, <2>1 DEF EndsComeLast, Raises, Lowers, GoesOn
<1>12. PlanEnds'
  <2>1. SUFFICES ASSUME ordered, ~late, ~confirmed, row'.plan # "FREE"
                 PROVE  \/ \E t \in B!Subs : Counted(t) /\ GoesOn(t)
                        \/ \E m \in B!Names : \E k \in 1 .. Len(events'[m]) : Lowers(events'[m][k])
    BY <1>2 DEF PlanEnds, Lowers, GoesOn
  <2>2. i = 1
    BY <1>1, <2>1
  <2>3. CASE Raises(events[n][i])
    <3>1. \/ GoesOn(events[n][i].sub) \/ \E j \in i + 1 .. Len(events[n]) : Lowers(events[n][j])
      BY <1>0, <1>4, <2>1, <2>3 DEF OutsideFits, EndsComeLast
    <3>2. CASE GoesOn(events[n][i].sub)
      <4>1. events[n][i].sub \in B!Subs /\ Counted(events[n][i].sub)
        BY <1>0, <1>4, <2>3, QueueKnows DEF Raises
      <4> QED
        BY <3>2, <4>1
    <3>3. CASE \E j \in i + 1 .. Len(events[n]) : Lowers(events[n][j])
      <4>1. PICK j \in i + 1 .. Len(events[n]) : Lowers(events[n][j])
        BY <3>3
      <4>2. j \in 1 .. Len(events[n]) /\ j > 1
        BY <1>3, <2>2, <4>1
      <4>3. \E k \in 1 .. Len(events'[n]) : events'[n][k] = events[n][j]
        BY <1>9, <2>1, <4>2
      <4> QED
        BY <4>1, <4>3
    <3> QED
      BY <3>1, <3>2, <3>3
  <2>4. CASE ~Lowers(events[n][i]) /\ row'.plan = row.plan
    <3>1. \/ \E t \in B!Subs : Counted(t) /\ GoesOn(t)
          \/ \E m \in B!Names : \E j \in 1 .. Len(events[m]) : Lowers(events[m][j])
      BY <1>0, <2>1, <2>4 DEF RowFits, PlanEnds
    <3>2. ASSUME NEW m \in B!Names, NEW j \in 1 .. Len(events[m]), Lowers(events[m][j])
          PROVE  \E k \in 1 .. Len(events'[m]) : Lowers(events'[m][k])
      <4>1. m # n \/ j # i
        BY <2>4, <3>2
      <4>2. m # n \/ j > 1
        BY <1>3, <2>2, <3>2, <4>1
      <4>3. PICK k \in 1 .. Len(events'[m]) : events'[m][k] = events[m][j]
        BY <1>9, <2>1, <4>2
      <4> QED
        BY <3>2, <4>3
    <3> QED
      BY <3>1, <3>2
  <2> QED
    BY <1>5, <2>1, <2>3, <2>4
<1>13. OutsideFits'
  BY <1>0, <1>2, <1>6, <1>10, <1>11 DEF OutsideFits, PaidIsBought, Paid
<1>14. RowFits'
  <2>1. Covers(bought, B!PlanFound(events[n][i].price))
    <3>1. events[n][i].price \in bought /\ events[n][i].price \in B!Prices
      BY <1>0, <1>4, QueueKnows DEF OutsideFits
    <3> QED
      BY <3>1, PlanOfPrice
  <2>2. Covers(bought, row'.plan)
    BY <1>0, <1>5, <2>1 DEF RowFits, RowWasBought, Covers
  <2> QED
    BY <1>0, <1>2, <1>5, <1>12, <2>2 DEF RowFits, RowWasBought
<1>15. CallsFit'
  BY <1>0, <1>2, CallsKept DEF Paid
<1> QED
  BY <1>13, <1>14, <1>15, BillingPartsNext

-----------------------------------------------------------------------------

\* What a call that is begun is to write.
LEMMA CallStarts ==
  ASSUME CallsFit, NEW c \in PlanCalls, NEW o \in B!Ops, NEW s \in B!Subs \cup {None},
         NEW p \in Plans \cup {"FREE", None}, NEW i \in B!Intent \cup {None},
         B!Starts(c, B!Did(o, s, p, i)), intents' \in 0 .. MaxIntents,
         bought \subseteq bought', \A t \in PayPalSubs : Paid(t) => Paid(t)',
         o \in {"activate", "upgrade"} =>
           /\ s \in PayPalSubs /\ (\A t \in PayPalSubs : t = s => Paid(t)')
           /\ p \in Plans \cup {"FREE"} /\ Covers(bought', p),
         o \in {"ask", "clean", "confirm"} => i \in B!Intent
  PROVE  CallsFit'
<1> DEFINE r == B!Did(o, s, p, i)
<1>1. r \in CallRecords /\ r.op = o /\ r.sub = s /\ r.plan = p /\ r.intent = i
  BY DEF B!Did, CallRecords
<1>2. call' = [call EXCEPT ![c] = r]
  BY DEF B!Starts
<1> HIDE DEF r
<1>3. call' \in [PlanCalls -> CallRecords] /\ call'[c] = r /\ \A d \in PlanCalls \ {c} : call'[d] = call[d]
  BY <1>1, <1>2 DEF CallsFit
<1>4. ASSUME NEW d \in PlanCalls
      PROVE  /\ call'[d].op \in {"activate", "upgrade"} =>
                  /\ call'[d].sub \in PayPalSubs
                  /\ provider'[call'[d].sub].state \notin {"none", "pending"}
                  /\ call'[d].plan \in Plans \cup {"FREE"} /\ Covers(bought', call'[d].plan)
             /\ call'[d].op \in {"ask", "clean", "confirm"} => call'[d].intent \in B!Intent
  <2>1. CASE d = c
    BY <1>1, <1>3, <2>1 DEF Paid
  <2>2. CASE d # c
    <3>1. call'[d] = call[d]
      BY <1>3, <2>2
    <3>2. Covers(bought, call[d].plan) => Covers(bought', call[d].plan)
      BY DEF Covers
    <3> QED
      BY <3>1, <3>2 DEF CallsFit, CallsOfTheirs, Paid
  <2> QED
    BY <2>1, <2>2
<1> QED
  BY <1>3, <1>4 DEF CallsFit, CallsOfTheirs, Paid

\* A call that is over has nothing to write.
LEMMA CallFinishes ==
  ASSUME CallsFit, NEW c \in PlanCalls, B!Finishes(c), intents' = intents,
         bought \subseteq bought', provider' = provider
  PROVE  CallsFit'
<1>1. B!Idle \in CallRecords /\ B!Idle.op = "idle"
  BY DEF B!Idle, CallRecords, B!Ops
<1>2. call' = [call EXCEPT ![c] = B!Idle]
  BY DEF B!Finishes
<1>3. call' \in [PlanCalls -> CallRecords] /\ call'[c].op = "idle"
      /\ \A d \in PlanCalls \ {c} : call'[d] = call[d]
  BY <1>1, <1>2 DEF CallsFit
<1>4. ASSUME NEW d \in PlanCalls
      PROVE  /\ call'[d].op \in {"activate", "upgrade"} =>
                  /\ call'[d].sub \in PayPalSubs
                  /\ provider[call'[d].sub].state \notin {"none", "pending"}
                  /\ call'[d].plan \in Plans \cup {"FREE"} /\ Covers(bought', call'[d].plan)
             /\ call'[d].op \in {"ask", "clean", "confirm"} => call'[d].intent \in B!Intent
  <2>1. CASE d = c
    BY <1>3, <2>1
  <2>2. CASE d # c
    <3>1. call'[d] = call[d]
      BY <1>3, <2>2
    <3>2. Covers(bought, call[d].plan) => Covers(bought', call[d].plan)
      BY DEF Covers
    <3> QED
      BY <3>1, <3>2 DEF CallsFit, CallsOfTheirs, Paid
  <2> QED
    BY <2>1, <2>2
<1> QED
  BY <1>3, <1>4 DEF CallsFit, CallsOfTheirs, Paid

\* The calls that ask a provider, or read the row, and write nothing of ours yet.
LEMMA AskingInv ==
  ASSUME B!BillingAssumption, BillingInv, NEW c \in PlanCalls,
         \/ \E s \in B!Subs : B!RefundAtStripe(c, s) \/ B!FetchPayPal(c, s)
         \/ \E p \in Plans : B!RevisePayPal(c, p) \/ B!AskCrypto(c, p)
         \/ B!CancelPayPal(c) \/ B!FindExpired(c) \/ B!FindIntent(c)
  PROVE  BillingInv'
<1>0. OutsideFits /\ RowFits /\ CallsFit
  BY BillingParts
<1>a. /\ row \in B!Row /\ intents \in 0 .. MaxIntents /\ MaxIntents \in Nat
      /\ intents \in Nat /\ MaxEvents \in Nat /\ bought \subseteq B!Prices
      /\ provider \in [B!Subs -> B!Subscription]
      /\ \A s \in B!Subs : Paid(s) => provider[s].price \in bought
  BY <1>0 DEF RowFits, CallsFit, B!BillingAssumption, OutsideFits, PaidIsBought
<1>b. PayPalSubs \subseteq B!Subs /\ {"activate", "upgrade", "cancel", "ask", "clean", "confirm", "refund"}
        \subseteq B!Ops
  BY DEF B!Subs, B!Ops
<1>1. ASSUME NEW s \in B!Subs, B!RefundAtStripe(c, s) PROVE BillingInv'
  <2>1. /\ provider[s].state \in {"active", "past_due", "unpaid", "ended"}
        /\ B!Starts(c, B!Did("refund", s, None, None))
        /\ UNCHANGED <<provider, bought>> /\ B!Tells(s, <<B!EventOf(s, "refunded")>>)
        /\ UNCHANGED <<ordered, expired, exists, row, intents, confirmed, late>>
    BY <1>1 DEF B!RefundAtStripe, B!table, B!history
  <2>2. /\ provider'[s].price \in bought' /\ bought' \subseteq B!Prices
        /\ provider'[s].state \in B!StripeStates
    BY <1>a, <2>1 DEF Paid, B!StripeStates
  <2>3. Grows(s)
    BY <1>0, <1>a, <2>1, <2>2, ToldOnce DEF B!EventKinds
  <2>4. Changes(s)
    BY <1>0, <2>1, NothingChanged
  <2>5. OutsideFits' /\ RowFits' /\ bought \subseteq bought' /\ \A t \in PayPalSubs : Paid(t) => Paid(t)'
    BY <1>0, <2>1, <2>3, <2>4, ProviderFits
  <2>6. CallsFit'
    BY <1>0, <1>a, <1>b, <2>1, <2>5, CallStarts
  <2> QED
    BY <2>5, <2>6, BillingPartsNext
<1>2. ASSUME NEW s \in B!Subs, B!FetchPayPal(c, s) PROVE BillingInv'
  <2>1. /\ s \in PayPalSubs /\ provider[s].state \in {"approved", "active"}
        /\ B!Starts(c, B!Did("activate", s, B!PlanFound(provider[s].price), None))
        /\ UNCHANGED B!outside /\ UNCHANGED <<exists, row, intents, bought, confirmed, late>>
    BY <1>2 DEF B!FetchPayPal, B!table, B!history
  <2>2. OutsideFits' /\ \A t \in PayPalSubs : Paid(t)' = Paid(t)
    BY <1>0, <1>a, <2>1, OutsideKept DEF Paid, B!outside
  <2>3. RowFits'
    BY <1>0, <2>1 DEF RowFits, RowWasBought, PlanEnds, Lowers, GoesOn, B!outside
  <2>4. Paid(s) /\ provider[s].price \in bought /\ provider[s].price \in B!Prices
    BY <1>a, <2>1 DEF Paid
  <2>a. /\ B!PlanFound(provider[s].price) \in Plans \cup {"FREE"}
        /\ Covers(bought', B!PlanFound(provider[s].price))
    BY <2>1, <2>4, PlanOfPrice
  <2>5. CallsFit'
    BY <1>0, <1>a, <1>b, <2>1, <2>2, <2>4, <2>a, CallStarts
  <2> QED
    BY <2>2, <2>3, <2>5, BillingPartsNext
<1>3. ASSUME NEW p \in Plans, B!RevisePayPal(c, p) PROVE BillingInv'
  <2>0. PICK s \in PayPalSubs : s = row.paypal
    BY <1>3, <1>a DEF B!RevisePayPal, B!Row
  <2>1. /\ provider[s].state = "active" /\ provider' = [provider EXCEPT ![s].price = p]
        /\ bought' = bought \cup {p}
        /\ \/ B!Starts(c, B!Did("upgrade", s, p, None)) /\ UNCHANGED <<events, sent>>
           \/ UNCHANGED call /\ B!Tells(s, <<B!EventOf(s, "plan")>>)
        /\ UNCHANGED <<ordered, expired, exists, row, intents, confirmed, late>>
    BY <1>3, <2>0 DEF B!RevisePayPal, B!Buys, B!table
  <2>2. /\ s \in B!Subs /\ provider' \in [B!Subs -> B!Subscription]
        /\ provider'[s].price = p /\ provider'[s].state = "active"
        /\ \A t \in B!Subs \ {s} : provider'[t] = provider[t]
    BY <1>a, <1>b, <2>1 DEF B!Subscription, B!Prices
  <2>3. Changes(s) /\ GoesOn(s)' /\ Paid(s)'
    BY <1>a, <2>1, <2>2 DEF Changes, GoesOn, Paid, B!Prices
  <2>4. Grows(s)
    <3>1. CASE UNCHANGED <<events, sent>>
      BY <1>0, <2>2, <3>1, ToldNothing
    <3>2. CASE B!Tells(s, <<B!EventOf(s, "plan")>>)
      <4>1. /\ provider'[s].price \in bought' /\ bought' \subseteq B!Prices
            /\ "plan" \in B!EventKinds /\ provider'[s].state \in B!StripeStates
        BY <1>a, <2>1, <2>2 DEF B!EventKinds, B!Prices, B!StripeStates
      <4> QED
        BY <1>0, <1>a, <2>2, <2>3, <3>2, <4>1, ToldOnce
    <3> QED
      BY <2>1, <3>1, <3>2
  <2>5. OutsideFits' /\ RowFits' /\ bought \subseteq bought' /\ \A t \in PayPalSubs : Paid(t) => Paid(t)'
    BY <1>0, <2>1, <2>2, <2>3, <2>4, ProviderFits
  <2>6. CallsFit'
    <3>1. CASE UNCHANGED call
      BY <1>0, <2>1, <2>5, <3>1, CallsKept
    <3>2. CASE B!Starts(c, B!Did("upgrade", s, p, None))
      <4>1. Covers(bought', p)
        BY <2>1 DEF Covers
      <4> QED
        BY <4>1, <1>0, <1>a, <1>b, <2>1, <2>2, <2>3, <2>5, <3>2, CallStarts
    <3> QED
      BY <2>1, <3>1, <3>2
  <2> QED
    BY <2>5, <2>6, BillingPartsNext
<1>4. ASSUME NEW p \in Plans, B!AskCrypto(c, p) PROVE BillingInv'
  <2> DEFINE i == [id |-> intents', plan |-> p]
  <2>1. /\ intents < MaxIntents /\ intents' = intents + 1 /\ exists' = TRUE
        /\ B!Starts(c, B!Did("ask", None, None, i))
        /\ UNCHANGED B!outside /\ UNCHANGED <<row, bought, confirmed, late>>
    BY <1>4 DEF B!AskCrypto, B!history
  <2>2. intents' \in 0 .. MaxIntents /\ intents' \in 1 .. MaxIntents
    BY <1>a, <2>1
  <2>3. i \in B!Intent
    BY <2>2 DEF B!Intent
  <2> HIDE DEF i
  <2>4. OutsideFits' /\ \A t \in PayPalSubs : Paid(t)' = Paid(t)
    BY <1>0, <1>a, <2>1, OutsideKept DEF Paid, B!outside
  <2>5. RowFits'
    BY <1>0, <2>1 DEF RowFits, RowWasBought, PlanEnds, Lowers, GoesOn, B!outside
  <2>6. CallsFit'
    BY <1>0, <1>b, <2>1, <2>2, <2>3, <2>4, CallStarts
  <2> QED
    BY <2>4, <2>5, <2>6, BillingPartsNext
<1>5. CASE B!CancelPayPal(c)
  <2>0. PICK s \in PayPalSubs : s = row.paypal
    BY <1>5, <1>a DEF B!CancelPayPal, B!Row
  <2>1. /\ provider[s].state \in {"active", "past_due"} /\ B!Becomes(s, "ended") /\ bought' = bought
        /\ B!Tells(s, <<B!EventOf(s, "deleted")>>)
        /\ B!Starts(c, B!Did("cancel", s, None, None))
        /\ UNCHANGED <<ordered, expired, exists, row, intents, confirmed, late>>
    BY <1>5, <2>0 DEF B!CancelPayPal, B!table, B!history
  <2>2. s \in B!Subs /\ Paid(s) /\ "ended" \in States /\ "ended" \in B!StripeStates
    BY <1>b, <2>1 DEF Paid, States, B!StripeStates
  <2>3. provider'[s].state = "ended" /\ provider'[s].price = provider[s].price /\ provider[s].price \in bought /\ bought' \subseteq B!Prices
    BY <1>0, <1>a, <2>1, <2>2, Becoming
  <2>4. /\ Grows(s)
        /\ \E i \in Len(events[QueueOf(s)]) + 1 .. Len(events'[QueueOf(s)]) :
             events'[QueueOf(s)][i].kind = "deleted"
    BY <1>0, <1>a, <2>1, <2>2, <2>3, ToldOnce DEF B!EventKinds
  <2>5. Changes(s)
    BY <1>0, <2>1, <2>2, <2>3, <2>4, StateChanged
  <2>6. OutsideFits' /\ RowFits' /\ bought \subseteq bought' /\ \A t \in PayPalSubs : Paid(t) => Paid(t)'
    BY <1>0, <2>1, <2>2, <2>4, <2>5, ProviderFits
  <2>7. CallsFit'
    BY <1>0, <1>a, <1>b, <2>1, <2>2, <2>6, CallStarts
  <2> QED
    BY <2>6, <2>7, BillingPartsNext
<1>6. CASE B!FindExpired(c) \/ B!FindIntent(c)
  <2>1. PICK o \in {"clean", "confirm"} :
          /\ row.intent # None /\ B!Starts(c, B!Did(o, None, None, row.intent))
          /\ UNCHANGED B!outside /\ UNCHANGED <<exists, row, intents, bought, confirmed, late>>
    BY <1>6 DEF B!FindExpired, B!FindIntent, B!table, B!history
  <2>2. row.intent \in B!Intent
    BY <1>a, <2>1 DEF B!Row
  <2>3. OutsideFits' /\ \A t \in PayPalSubs : Paid(t)' = Paid(t)
    BY <1>0, <1>a, <2>1, OutsideKept DEF Paid, B!outside
  <2>4. RowFits'
    BY <1>0, <2>1 DEF RowFits, RowWasBought, PlanEnds, Lowers, GoesOn, B!outside
  <2>5. CallsFit'
    BY <1>0, <1>a, <1>b, <2>1, <2>2, <2>3, CallStarts
  <2> QED
    BY <2>3, <2>4, <2>5, BillingPartsNext
<1> QED
  BY <1>1, <1>2, <1>3, <1>4, <1>5, <1>6

\* The row after a write, if its plan is as it was, or free, or one of a subscription
\* that goes on, or an administrator's.
LEMMA RowWritten ==
  ASSUME B!BillingAssumption, OutsideFits, RowFits, UNCHANGED B!outside, exists' \in BOOLEAN,
         row' \in B!Row, confirmed' \in BOOLEAN, late' \in BOOLEAN,
         bought \subseteq bought', confirmed => confirmed', late => late',
         row'.plan = row.plan \/ Covers(bought', row'.plan),
         \/ confirmed' \/ late' \/ row'.plan \in {"FREE", row.plan}
         \/ \E s \in B!Subs : Counted(s) /\ GoesOn(s)
  PROVE  RowFits'
<1>1. UNCHANGED <<ordered, provider, events>>
  BY DEF B!outside
<1>2. RowWasBought'
  BY DEF RowFits, RowWasBought, Covers
<1>3. PlanEnds'
  BY <1>1 DEF RowFits, PlanEnds, Lowers, GoesOn
<1> QED
  BY <1>2, <1>3 DEF RowFits

LEMMA WritingInv ==
  ASSUME B!BillingAssumption, BillingInv, NEW c \in PlanCalls,
         \/ B!WriteRefund(c) \/ B!WriteActivation(c) \/ B!WriteUpgrade(c) \/ B!WriteCancel(c)
         \/ B!WriteIntent(c) \/ B!CleanExpired(c) \/ B!ConfirmCrypto(c)
  PROVE  BillingInv'
<1>0. OutsideFits /\ RowFits /\ CallsFit
  BY BillingParts
<1>a. /\ row \in B!Row /\ bought \subseteq B!Prices /\ exists \in BOOLEAN /\ confirmed \in BOOLEAN
      /\ late \in BOOLEAN
      /\ call[c].op \in {"activate", "upgrade"} =>
           /\ call[c].sub \in PayPalSubs /\ Paid(call[c].sub)
           /\ call[c].plan \in Plans \cup {"FREE"} /\ Covers(bought, call[c].plan)
      /\ call[c].op \in {"ask", "clean", "confirm"} => call[c].intent \in B!Intent
      /\ provider \in [B!Subs -> B!Subscription] /\ PayPalSubs \subseteq B!Subs
  BY <1>0 DEF RowFits, OutsideFits, CallsFit, CallsOfTheirs, B!Subs
<1>b. B!Finishes(c) /\ UNCHANGED B!outside /\ UNCHANGED intents
  BY DEF B!WriteRefund, B!WriteActivation, B!WriteUpgrade, B!WriteCancel, B!WriteIntent,
         B!CleanExpired, B!ConfirmCrypto
<1>c. ASSUME bought \subseteq bought', bought' \subseteq B!Prices, RowFits' PROVE BillingInv'
  <2>1. OutsideFits'
    BY <1>0, <1>b, <1>c, OutsideKept
  <2>2. CallsFit'
    BY <1>0, <1>b, <1>c, CallFinishes DEF B!outside
  <2> QED
    BY <1>c, <2>1, <2>2, BillingPartsNext
<1>1. CASE B!WriteRefund(c) \/ B!WriteCancel(c) \/ B!WriteIntent(c) \/ B!CleanExpired(c)
  <2>1. UNCHANGED <<exists, bought, confirmed, late>>
    BY <1>1 DEF B!WriteRefund, B!WriteCancel, B!WriteIntent, B!CleanExpired, B!Update, B!history
  <2>2. row' \in B!Row /\ row'.plan \in {"FREE", row.plan}
    <3>1. CASE B!WriteRefund(c)
      <4>1. row' = [row EXCEPT !.status = "CANCELLED"]
        BY <3>1 DEF B!WriteRefund, B!Update
      <4> QED
        BY <1>a, <4>1 DEF B!Row, B!RowStates
    <3>2. CASE B!WriteCancel(c)
      <4>1. row' = [B!Ended(row) EXCEPT !.paypal = None]
        BY <3>2 DEF B!WriteCancel, B!Update
      <4> QED
        BY <1>a, <4>1, EndedRow, NoPayPal
    <3>3. CASE B!WriteIntent(c)
      <4>1. row' = [row EXCEPT !.intent = call[c].intent] /\ call[c].intent \in B!Intent
        BY <1>a, <3>3 DEF B!WriteIntent, B!Update
      <4> QED
        BY <1>a, <4>1 DEF B!Row
    <3>4. CASE B!CleanExpired(c)
      <4>1. row' = [row EXCEPT !.intent = None]
        BY <3>4 DEF B!CleanExpired, B!Update
      <4> QED
        BY <1>a, <4>1 DEF B!Row
    <3> QED
      BY <1>1, <3>1, <3>2, <3>3, <3>4
  <2>3. RowFits'
    BY <1>0, <1>a, <1>b, <2>1, <2>2, RowWritten DEF Covers
  <2> QED
    BY <1>a, <1>c, <2>1, <2>3
<1>2. CASE B!WriteActivation(c) \/ B!WriteUpgrade(c)
  <2>1. /\ call[c].op \in {"activate", "upgrade"} /\ UNCHANGED <<bought, confirmed>>
        /\ late' = (late \/ provider[call[c].sub].state = "ended")
    BY <1>2 DEF B!WriteActivation, B!WriteUpgrade, B!IsLate
  <2>2. /\ call[c].sub \in PayPalSubs /\ Paid(call[c].sub)
        /\ call[c].plan \in Plans \cup {"FREE"} /\ Covers(bought, call[c].plan)
    BY <1>a, <2>1
  <2>3. exists' \in BOOLEAN /\ row' \in B!Row /\ row'.plan = call[c].plan
    <3>1. CASE B!WriteActivation(c)
      <4>1. PICK how \in {"ACTIVE", "TRIALING"} :
              /\ exists' = TRUE
              /\ row' = [row EXCEPT !.paypal = call[c].sub, !.plan = call[c].plan, !.status = how]
        BY <3>1 DEF B!WriteActivation, B!Upsert
      <4> QED
        BY <1>a, <2>2, <4>1 DEF B!Row, B!RowStates
    <3>2. CASE B!WriteUpgrade(c)
      <4>1. exists' = exists /\ row' = [row EXCEPT !.plan = call[c].plan]
        BY <3>2 DEF B!WriteUpgrade, B!Update
      <4> QED
        BY <1>a, <2>2, <4>1 DEF B!Row
    <3> QED
      BY <1>2, <3>1, <3>2
  <2>4. late' \in BOOLEAN /\ (late => late')
    BY <1>a, <2>1
  <2>5. late' \/ \E s \in B!Subs : Counted(s) /\ GoesOn(s)
    <3> DEFINE s == call[c].sub
    <3>1. s \in B!Subs /\ Counted(s) /\ provider[s].state \in States
      BY <1>a, <2>2 DEF Counted, B!Subscription, States
    <3>2. provider[s].state = "ended" \/ GoesOn(s)
      BY <2>2, <3>1 DEF Paid, GoesOn, States
    <3> QED
      BY <2>1, <3>1, <3>2
  <2>6. RowFits'
    BY <1>0, <1>a, <1>b, <2>1, <2>2, <2>3, <2>4, <2>5, RowWritten
  <2> QED
    BY <1>a, <1>c, <2>1, <2>6
<1>3. CASE B!ConfirmCrypto(c)
  <2>1. /\ call[c].intent \in B!Intent /\ bought' = bought \cup {call[c].intent.plan}
        /\ confirmed' = TRUE /\ UNCHANGED <<exists, late>>
        /\ row' = [row EXCEPT !.plan = call[c].intent.plan, !.status = "ACTIVE", !.intent = None]
    BY <1>3, <1>a DEF B!ConfirmCrypto, B!Buys, B!Update
  <2>2. call[c].intent.plan \in Plans /\ Plans \subseteq B!Prices
    BY <2>1 DEF B!Intent, B!Prices
  <2>3. row' \in B!Row /\ row'.plan = call[c].intent.plan /\ Covers(bought', row'.plan)
    BY <1>a, <2>1, <2>2 DEF B!Row, B!RowStates, Covers
  <2>4. RowFits'
    BY <1>0, <1>a, <1>b, <2>1, <2>3, RowWritten
  <2> QED
    BY <1>a, <1>c, <2>1, <2>2, <2>4
<1> QED
  BY <1>1, <1>2, <1>3

LEMMA BillingInvInit ==
  ASSUME B!BillingAssumption, B!Init
  PROVE  BillingInv
<1>1. /\ provider = [s \in B!Subs |-> [state |-> "none", price |-> PriceOf[s]]]
      /\ \A s \in B!Subs : PriceOf[s] \in B!Prices
  BY DEF B!Init, B!BillingAssumption
<1>2. provider \in [B!Subs -> B!Subscription] /\ \A s \in B!Subs : ~Paid(s)
  BY <1>1 DEF B!Subscription, States, Paid
<1>3. \A n \in B!Names : events[n] = <<>> /\ Len(events[n]) = 0
  BY DEF B!Init
<1>4. events \in [B!Names -> Seq(B!Event)]
  BY DEF B!Init
<1>5. OutsideFits
  BY <1>2, <1>3, <1>4 DEF B!Init, B!BillingAssumption, OutsideFits, PaidIsBought, EventsOfTheirs,
                          EndsComeLast
<1>6. row \in B!Row /\ row.plan = "FREE"
  BY DEF B!Init, B!Row, B!RowStates
<1>7. RowFits
  BY <1>6 DEF B!Init, RowFits, RowWasBought, PlanEnds, Covers
<1>8. B!Idle \in CallRecords /\ B!Idle.op = "idle"
  BY DEF B!Idle, CallRecords, B!Ops
<1>9. CallsFit
  BY <1>8 DEF B!Init, B!BillingAssumption, CallsFit, CallsOfTheirs
<1> QED
  BY <1>5, <1>7, <1>9, BillingParts

LEMMA BillingInvNext ==
  ASSUME B!BillingAssumption, BillingInv, [B!Next]_B!vars
  PROVE  BillingInv'
<1>1. CASE UNCHANGED B!vars
  <2>1. OutsideFits /\ RowFits /\ CallsFit
    BY BillingParts
  <2>2. UNCHANGED B!outside /\ UNCHANGED <<exists, row, call, intents, bought, confirmed, late>>
    BY <1>1 DEF B!vars, B!table, B!history
  <2>3. OutsideFits'
    BY <2>1, <2>2, OutsideKept DEF OutsideFits
  <2>4. RowFits'
    BY <2>1, <2>2 DEF RowFits, RowWasBought, PlanEnds, Lowers, GoesOn, B!outside
  <2>5. CallsFit'
    BY <2>1, <2>2, CallsKept DEF Paid, B!outside
  <2> QED
    BY <2>3, <2>4, <2>5, BillingPartsNext
<1>2. CASE B!Provider \/ B!CreateCheckout \/ B!CancelStripe \/ \E s \in B!Subs : B!CreatePayPal(s)
  BY <1>2, ProviderInv
<1>3. ASSUME NEW n \in B!Names, B!HandleEvent(n) PROVE BillingInv'
  BY <1>3, HandleInv
<1>4. ASSUME NEW c \in PlanCalls, B!Call(c) PROVE BillingInv'
  <2>1. \/ \E s \in B!Subs : B!RefundAtStripe(c, s) \/ B!FetchPayPal(c, s)
        \/ \E p \in Plans : B!RevisePayPal(c, p) \/ B!AskCrypto(c, p)
        \/ B!CancelPayPal(c) \/ B!FindExpired(c) \/ B!FindIntent(c)
        \/ B!WriteRefund(c) \/ B!WriteActivation(c) \/ B!WriteUpgrade(c) \/ B!WriteCancel(c)
        \/ B!WriteIntent(c) \/ B!CleanExpired(c) \/ B!ConfirmCrypto(c)
    BY <1>4 DEF B!Call
  <2> QED
    BY <2>1, AskingInv, WritingInv
<1> QED
  BY <1>1, <1>2, <1>3, <1>4 DEF B!Next

\* The types of Billing; every plan an event, a call or the row has is bought; in a queue,
\* what raises the plan for a subscription that has ended is followed by what lowers it;
\* and a paid plan has a subscription that goes on, or an event under way that ends it.
THEOREM BillingInvariant == B!Spec => []BillingInv
<1>1. B!Init => BillingInv
  BY BillingInvInit, DeskAssumption
<1>2. BillingInv /\ [B!Next]_B!vars => BillingInv'
  BY BillingInvNext, DeskAssumption
<1> QED
  BY <1>1, <1>2, PTL DEF B!Spec

LEMMA BillingFacts ==
  ASSUME BillingInv
  PROVE  B!TypeOK /\ B!PlanWasBought /\ B!EndedIsFree
<1>1. B!TypeOK /\ RowWasBought /\ PlanEnds
  BY DEF BillingInv
<1>2. B!PlanWasBought
  BY <1>1 DEF RowWasBought, B!PlanWasBought, Covers
<1>3. B!EndedIsFree
  <2>1. SUFFICES ASSUME ordered, B!Quiet, ~late, ~confirmed,
                        \A s \in B!Subs : provider[s].state \in {"none", "pending", "ended"},
                        row.plan # "FREE"
                 PROVE  FALSE
    BY DEF B!EndedIsFree
  <2>2. \A s \in B!Subs : ~GoesOn(s)
    BY <2>1 DEF GoesOn
  <2>3. \A n \in B!Names : events[n] = <<>> /\ Len(events[n]) = 0
    BY <2>1 DEF B!Quiet
  <2> QED
    BY <1>1, <2>1, <2>2, <2>3 DEF PlanEnds
<1> QED
  BY <1>1, <1>2, <1>3

\* Whatever the order in which calls and events write the row of a tenant, its plan is
\* FREE, or one somebody agreed to pay or an administrator confirmed, or Pro when what
\* somebody agreed to is the price of no plan.
THEOREM PlansAreBought == B!Spec => []B!PlanWasBought
<1>1. BillingInv => B!PlanWasBought
  BY BillingFacts
<1> QED
  BY <1>1, BillingInvariant, PTL

\* A tenant whose subscriptions have all ended (an incomplete one that expired and an
\* unpaid one have not) is on FREE once the events are handled in order, unless a call
\* wrote after the end or an administrator confirmed a payment.
THEOREM EndsAreFree == B!Spec => []B!EndedIsFree
<1>1. BillingInv => B!EndedIsFree
  BY BillingFacts
<1> QED
  BY <1>1, BillingInvariant, PTL
=============================================================================
