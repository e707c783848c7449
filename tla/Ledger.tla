-------------------------------- MODULE Ledger --------------------------------
(***************************************************************************)
(* LedgerService and LedgerRepository: the three accounts of a tenant on a *)
(* chain (here a book), created on demand, and the double entries that     *)
(* settle a payment. Settlements of one book run concurrently with each    *)
(* other and with the bootstrap of its accounts by wallet provisioning.    *)
(* Amounts are in atomic units of USDC.                                    *)
(***************************************************************************)
EXTENDS Integers, FiniteSets, Functions

CONSTANTS
  Books,        \* <<tenant, chain>> pairs
  Settlements,  \* calls of settlePayment, a retried call is another one
  BookOf,       \* [Settlements -> Books]
  Amount        \* [Settlements -> Nat], gross

ASSUME LedgerAssumption ==
  /\ BookOf \in [Settlements -> Books]
  /\ Amount \in [Settlements -> Nat]

VARIABLES
  accounts,  \* ledger_accounts: the codes each book has
  balance,   \* ledger_accounts.balance
  entries,   \* ledger_entries
  stage,     \* how far each call of settlePayment is
  missing,   \* accounts ensureWalletAccounts has still to upsert, per call
  rounds     \* how often each call found accounts missing

vars == <<accounts, balance, entries, stage, missing, rounds>>

PLATFORM_FEE_BPS == 50

\* 1010 is the asset account, 2010 the liability and 4010 the revenue account.
Codes == {"1010", "2010", "4010"}

\* Injected fault: the fee rounded up.
FeeOfCeiling(amount) == (amount * PLATFORM_FEE_BPS + 9999) \div 10000

\* The fee, rounded down to an atomic unit.
FeeOf(amount) == (amount * PLATFORM_FEE_BPS) \div 10000

Entry == [call : Settlements, debit : Codes, credit : Codes, amount : Nat]

TypeOK ==
  /\ accounts \in [Books -> SUBSET Codes]
  /\ balance \in [Books -> [Codes -> Nat]]
  /\ entries \subseteq Entry
  /\ stage \in [Settlements -> {"idle", "lookup", "ensure", "post", "done", "failed"}]
  /\ missing \in [Settlements -> SUBSET Codes]
  /\ rounds \in [Settlements -> Nat]

Init ==
  /\ accounts = [b \in Books |-> {}]
  /\ balance = [b \in Books |-> [c \in Codes |-> 0]]
  /\ entries = {}
  /\ stage = [s \in Settlements |-> "idle"]
  /\ missing = [s \in Settlements |-> {}]
  /\ rounds = [s \in Settlements |-> 0]

SettlePayment(s) ==
  /\ stage[s] = "idle"
  /\ stage' = [stage EXCEPT ![s] = "lookup"]
  /\ UNCHANGED <<accounts, balance, entries, missing, rounds>>

\* The three accounts are looked up; unless all are there, all are ensured.
FindAccounts(s) ==
  /\ stage[s] = "lookup"
  /\ IF accounts[BookOf[s]] = Codes
     THEN /\ stage' = [stage EXCEPT ![s] = "post"]
          /\ UNCHANGED <<missing, rounds>>
     ELSE /\ stage' = [stage EXCEPT ![s] = "ensure"]
          /\ missing' = [missing EXCEPT ![s] = Codes]
          /\ rounds' = [rounds EXCEPT ![s] = @ + 1]
  /\ UNCHANGED <<accounts, balance, entries>>

\* Injected fault: the revenue account is left to be created later.
UpsertAccountNoRevenue(s, c) ==
  /\ stage[s] = "ensure"
  /\ c \in missing[s]
  /\ accounts' = [accounts EXCEPT ![BookOf[s]] = @ \cup ({c} \ {"4010"})]
  /\ missing' = [missing EXCEPT ![s] = @ \ {c}]
  /\ UNCHANGED <<balance, entries, stage, rounds>>

\* Injected fault: an account somebody else has created is never done with.
UpsertAccountOnlyNew(s, c) ==
  /\ stage[s] = "ensure"
  /\ c \in missing[s] \ accounts[BookOf[s]]
  /\ accounts' = [accounts EXCEPT ![BookOf[s]] = @ \cup {c}]
  /\ missing' = [missing EXCEPT ![s] = @ \ {c}]
  /\ UNCHANGED <<balance, entries, stage, rounds>>

\* upsertAccount, one of three that run in parallel: an account that exists,
\* whoever created it, is left as it is, its balance too.
UpsertAccount(s, c) ==
  /\ stage[s] = "ensure"
  /\ c \in missing[s]
  /\ accounts' = [accounts EXCEPT ![BookOf[s]] = @ \cup {c}]
  /\ missing' = [missing EXCEPT ![s] = @ \ {c}]
  /\ UNCHANGED <<balance, entries, stage, rounds>>

\* All upserts are back: settlePayment calls itself.
Recurse(s) ==
  /\ stage[s] = "ensure"
  /\ missing[s] = {}
  /\ stage' = [stage EXCEPT ![s] = "lookup"]
  /\ UNCHANGED <<accounts, balance, entries, missing, rounds>>

\* ensureWalletAccounts on behalf of provisionTenantWallet, upsert by upsert.
ProvisionAccount(b, c) ==
  /\ c \notin accounts[b]
  /\ accounts' = [accounts EXCEPT ![b] = @ \cup {c}]
  /\ UNCHANGED <<balance, entries, stage, missing, rounds>>

\* Injected fault: the debit of an entry is subtracted.
EffectSigned(e, c) ==
  (IF c = e.credit THEN e.amount ELSE 0) - (IF c = e.debit THEN e.amount ELSE 0)

\* writeEntry on the balance of account c: both UPDATEs of an entry add.
Effect(e, c) ==
  (IF c = e.debit THEN e.amount ELSE 0) + (IF c = e.credit THEN e.amount ELSE 0)

GrossEntry(s) ==
  [call |-> s, debit |-> "1010", credit |-> "2010", amount |-> Amount[s]]
FeeEntry(s) ==
  [call |-> s, debit |-> "2010", credit |-> "4010", amount |-> FeeOf(Amount[s])]

\* The fee is booked only when it is not zero.
EntriesOf(s) ==
  {GrossEntry(s)} \cup {e \in {FeeEntry(s)} : e.amount > 0}

\* The transaction: the increments are atomic SQL and row locks keep them to
\* the commit, so settlements of one book do not lose updates.
PostEntries(s) ==
  LET b == BookOf[s]
      gross(c) == Effect(GrossEntry(s), c)
      fee(c) == IF FeeEntry(s) \in EntriesOf(s) THEN Effect(FeeEntry(s), c) ELSE 0
  IN
  /\ stage[s] = "post"
  /\ balance' = [balance EXCEPT ![b] = [c \in Codes |-> @[c] + gross(c) + fee(c)]]
  /\ entries' = entries \cup EntriesOf(s)
  /\ stage' = [stage EXCEPT ![s] = "done"]
  /\ UNCHANGED <<accounts, missing, rounds>>

\* A query fails: nothing of an open transaction is kept, and the caller's job
\* fails. Its retry is another call.
SettlementFault(s) ==
  /\ stage[s] \in {"lookup", "ensure", "post"}
  /\ stage' = [stage EXCEPT ![s] = "failed"]
  /\ missing' = [missing EXCEPT ![s] = {}]
  /\ UNCHANGED <<accounts, balance, entries, rounds>>

SettlementStep(s) ==
  \/ FindAccounts(s)
  \/ \E c \in Codes : UpsertAccount(s, c)
  \/ Recurse(s)
  \/ PostEntries(s)

Next ==
  \/ \E s \in Settlements : SettlePayment(s) \/ SettlementStep(s) \/ SettlementFault(s)
  \/ \E b \in Books, c \in Codes : ProvisionAccount(b, c)

Spec == Init /\ [][Next]_vars

\* The server goes on with the settlements it has begun.
FairSpec == Spec /\ WF_vars(\E s \in Settlements : SettlementStep(s))
-----------------------------------------------------------------------------
\* What the asset account, whose normal side is the debit, holds beyond the two
\* accounts whose normal side is the credit.
TrialBalance(b) == balance[b]["1010"] - (balance[b]["2010"] + balance[b]["4010"])

\* "This ensures the trial balance always zeros out": the fee goes from the liability
\* to the revenue ("Liability down, Revenue up"). The code adds it to both.
TrialBalanceZeros == \A b \in Books : TrialBalance(b) = 0

\* The balances are those of the entries: concurrent settlements lose no increment,
\* and one that is not done, whether it is under way or has failed, has left no entry.
BalancesMatchEntries ==
  /\ \A b \in Books, c \in Codes :
       balance[b][c] =
         SumFunctionOnSet([e \in entries |-> (IF c = e.debit THEN e.amount ELSE 0)
                                              + (IF c = e.credit THEN e.amount ELSE 0)],
                          {e \in entries : BookOf[e.call] = b})
  /\ \A e \in entries : stage[e.call] = "done"

\* Rounding is always down: the fees of a book stay within the rate of what it
\* has taken in, however many payments they come from.
FeesWithinRate ==
  \A b \in Books :
    balance[b]["4010"] * 10000 <= balance[b]["1010"] * PLATFORM_FEE_BPS

\* "tail-call safe (only recurses once)": whatever provisioning and the other
\* settlements create meanwhile, the second lookup finds every account.
RecursesOnce == \A s \in Settlements : rounds[s] <= 1

\* Again and again no settlement is under way: one that does not fail is posted,
\* first settlement of a book or not.
SettlementsEnd == []<>(\A s \in Settlements : stage[s] \in {"idle", "done", "failed"})
=============================================================================
