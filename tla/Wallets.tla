------------------------------- MODULE Wallets -------------------------------
(***************************************************************************)
(* WalletsService over the Fireblocks adapter: provisioning of the         *)
(* operating wallet of one tenant on one chain, the balance cache, and     *)
(* withdrawals. Find, generate, insert and the bootstrap of the accounts   *)
(* are separate calls, so provisioning requests overlap; a withdrawal      *)
(* whose answer was lost is asked again with its idempotency key. Balances *)
(* are in atomic units of USDC, what callers ask for in tenths of a unit.  *)
(***************************************************************************)
EXTENDS Integers

CONSTANTS
  Provisions,   \* calls of provisionTenantWallet; each stands for its wallet, too
  Withdrawals,  \* calls of withdraw; a repeated call is another one
  PayoutKeys, PayoutKeyOf,   \* [Withdrawals -> PayoutKeys], idempotency keys
  Asked,        \* [Withdrawals -> Int], amountUsdc
  Deposits,     \* amounts that arrive at a wallet
  MaxFunds,     \* bound on what a wallet holds
  USDC,         \* atomic units of one USDC: 10^6, scaled down with the amounts
  Unread

WalletAssumption ==
  /\ PayoutKeyOf \in [Withdrawals -> PayoutKeys] /\ Asked \in [Withdrawals -> Int]
  /\ Deposits \subseteq Nat /\ MaxFunds \in Nat
  /\ USDC \in {10, 100, 1000000}
  /\ Unread \notin Nat

VARIABLES
  provision,  \* how far each provisioning is
  wallets,    \* rows of wallets
  booked,     \* do the accounts of the tenant and chain exist?
  funds,      \* balance on the chain
  cache,      \* wallets.balanceUsdc
  reading,    \* what a running syncBalance of the wallet has read
  payout,     \* how far each withdrawal is
  transfers   \* what the provider has moved, and for which withdrawals

vars == <<provision, wallets, booked, funds, cache, reading, payout, transfers>>
rows == <<provision, wallets, booked>>

Transfer == [key : PayoutKeys, from : Provisions, by : Withdrawals, amount : Nat]

TypeOK ==
  /\ provision \in [Provisions -> {"none", "asked", "generated", "created", "answered", "failed"}]
  /\ wallets \subseteq Provisions /\ booked \in BOOLEAN
  /\ funds \in [Provisions -> 0 .. MaxFunds] /\ cache \in [Provisions -> 0 .. MaxFunds]
  /\ reading \in [Provisions -> 0 .. MaxFunds \cup {Unread}]
  /\ payout \in [Withdrawals -> [at : {"none", "checked", "submitted", "refused", "failed", "lost"},
                                 from : Provisions]]
  /\ transfers \subseteq Transfer

Init ==
  /\ provision = [r \in Provisions |-> "none"]
  /\ wallets = {} /\ booked = FALSE
  /\ funds = [r \in Provisions |-> 0] /\ cache = [r \in Provisions |-> 0]
  /\ reading = [r \in Provisions |-> Unread]
  /\ payout \in {[w \in Withdrawals |-> [at |-> "none", from |-> r]] : r \in Provisions}
  /\ transfers = {}
-----------------------------------------------------------------------------
(* provisionTenantWallet.                                                  *)

Proceeds(r, next) == provision' = [provision EXCEPT ![r] = next]

FindWallet(r) ==
  /\ provision[r] = "none"
  /\ Proceeds(r, IF wallets = {} THEN "asked" ELSE "answered")
  /\ UNCHANGED <<wallets, booked, funds, cache, reading, payout, transfers>>

\* A vault and an address of its own for every call.
GenerateWallet(r) ==
  /\ provision[r] = "asked" /\ Proceeds(r, "generated")
  /\ UNCHANGED <<wallets, booked, funds, cache, reading, payout, transfers>>

CreateWallet(r) ==
  /\ provision[r] = "generated" /\ Proceeds(r, "created")
  /\ wallets' = wallets \cup {r}
  /\ UNCHANGED <<booked, funds, cache, reading, payout, transfers>>

\* Injected fault: the accounts are left to the first settlement.
AnswerUnbooked(r) ==
  /\ provision[r] = "created" /\ Proceeds(r, "answered")
  /\ UNCHANGED <<wallets, booked, funds, cache, reading, payout, transfers>>

EnsureAccounts(r) ==
  /\ provision[r] = "created" /\ Proceeds(r, "answered")
  /\ booked' = TRUE
  /\ UNCHANGED <<wallets, funds, cache, reading, payout, transfers>>

\* The provider or a query fails, or the process dies.
ProvisioningFails(r) ==
  /\ provision[r] \in {"asked", "generated", "created"} /\ Proceeds(r, "failed")
  /\ UNCHANGED <<wallets, booked, funds, cache, reading, payout, transfers>>
-----------------------------------------------------------------------------
(* Balances: money arrives, and syncBalance copies the balance.            *)

Deposit(r, d) ==
  /\ r \in wallets /\ funds[r] + d <= MaxFunds
  /\ funds' = [funds EXCEPT ![r] = @ + d]
  /\ UNCHANGED <<rows, cache, reading, payout, transfers>>

GetBalance(r) ==
  /\ r \in wallets
  /\ reading' = [reading EXCEPT ![r] = funds[r]]
  /\ UNCHANGED <<rows, funds, cache, payout, transfers>>

\* Injected fault: the answer is not waited for.
UpdateBalanceUnread(r) ==
  /\ r \in wallets
  /\ cache' = [cache EXCEPT ![r] = reading[r]]
  /\ UNCHANGED <<rows, reading, funds, payout, transfers>>

UpdateBalanceCache(r) ==
  /\ reading[r] # Unread
  /\ cache' = [cache EXCEPT ![r] = reading[r]]
  /\ reading' = [reading EXCEPT ![r] = Unread]
  /\ UNCHANGED <<rows, funds, payout, transfers>>
-----------------------------------------------------------------------------
(* withdraw.                                                               *)

Reaches(w, next) == payout' = [payout EXCEPT ![w].at = next]

\* The amount must be positive and within the cached balance.
CheckWithdrawal(w) ==
  LET r == payout[w].from IN
  /\ payout[w].at = "none" /\ r \in wallets
  /\ Reaches(w, IF Asked[w] > 0 /\ Asked[w] <= 10 * cache[r] THEN "checked" ELSE "refused")
  /\ UNCHANGED <<rows, funds, cache, reading, transfers>>

\* toFixed(0) of the amount in atomic units: to the nearest, halves up.
AmountRaw(w) == (Asked[w] + 5) \div 10

\* Injected fault: the fraction is written without its leading zeros.
AmountUnpadded(raw) ==
  LET fraction == raw % USDC
      shift == IF fraction = 0 THEN 1
               ELSE CHOOSE s \in {1, 10, 100, 1000, 10000, 100000} :
                      fraction * s < USDC /\ fraction * s * 10 >= USDC
  IN  (raw \div USDC) * USDC + fraction * shift

\* The adapter writes the amount as a decimal, whole units and a fraction padded
\* to its places, and the provider reads it back.
AmountRead(raw) == (raw \div USDC) * USDC + (raw % USDC)

\* Injected fault: the key only goes into the note.
PayAgain(w) ==
  LET amount == AmountRead(AmountRaw(w))
      r == payout[w].from
  IN
  /\ payout[w].at = "checked" /\ amount <= funds[r]
  /\ funds' = [funds EXCEPT ![r] = @ - amount]
  /\ transfers' = transfers \cup {[key |-> PayoutKeyOf[w], from |-> r, by |-> w, amount |-> amount]}
  /\ Reaches(w, "submitted") \/ Reaches(w, "lost")
  /\ UNCHANGED <<rows, cache, reading>>

\* The provider deduplicates by the key, and answers with the transfer it has.
\* The answer may be lost.
Pay(w) ==
  LET amount == AmountRead(AmountRaw(w))
      r == payout[w].from
      done == {t \in transfers : t.key = PayoutKeyOf[w]}
  IN
  /\ payout[w].at = "checked"
  /\ \/ /\ done = {} /\ amount > funds[r]
        /\ Reaches(w, "failed")
        /\ UNCHANGED <<funds, transfers>>
     \/ /\ done = {} /\ amount <= funds[r]
        /\ funds' = [funds EXCEPT ![r] = @ - amount]
        /\ transfers' = transfers \cup
             {[key |-> PayoutKeyOf[w], from |-> r, by |-> w, amount |-> amount]}
        /\ Reaches(w, "submitted") \/ Reaches(w, "lost")
     \/ /\ done # {}
        /\ Reaches(w, "submitted") \/ Reaches(w, "lost")
        /\ UNCHANGED <<funds, transfers>>
  /\ UNCHANGED <<rows, cache, reading>>

\* Injected fault: every answer of the provider counts as a submission.
PayFailsQuietly(w) ==
  /\ payout[w].at = "checked" /\ Reaches(w, "submitted")
  /\ UNCHANGED <<rows, funds, cache, reading, transfers>>

\* The provider is not reached.
PayFails(w) ==
  /\ payout[w].at = "checked" /\ Reaches(w, "failed")
  /\ UNCHANGED <<rows, funds, cache, reading, transfers>>

Next ==
  \/ \E r \in Provisions :
       \/ FindWallet(r) \/ GenerateWallet(r) \/ CreateWallet(r) \/ EnsureAccounts(r)
       \/ ProvisioningFails(r) \/ GetBalance(r) \/ UpdateBalanceCache(r)
       \/ \E d \in Deposits : Deposit(r, d)
  \/ \E w \in Withdrawals : CheckWithdrawal(w) \/ Pay(w) \/ PayFails(w)

Spec == Init /\ [][Next]_vars
-----------------------------------------------------------------------------
\* A wallet without the accounts of its tenant and chain is one whose provisioning
\* has not ended, or was cut off: the calls that find the wallet do not ensure
\* them, the first settlement does.
UnbookedIsUnfinished ==
  wallets # {} /\ ~booked => \E r \in Provisions : provision[r] \in {"created", "failed"}

\* However often a withdrawal is asked again, and whichever answers are lost, its
\* key pays once, and pays what was asked to within half an atomic unit.
PaidOnceAsAsked ==
  /\ \A t, u \in transfers : t.key = u.key => t = u
  /\ \A t \in transfers : /\ 10 * t.amount - Asked[t.by] <= 5
                          /\ Asked[t.by] - 10 * t.amount < 5

\* A caller who is told that a withdrawal was submitted has been paid under its key.
SubmittedIsPaid ==
  \A w \in Withdrawals : payout[w].at = "submitted" =>
    \E t \in transfers : t.key = PayoutKeyOf[w]
=============================================================================
