---------------------------- MODULE DepositsProofs ----------------------------
(***************************************************************************)
(* Theorems about Deposits and its three parts: Ledger, for any books,     *)
(* settlements and amounts; PaymentIntents, for any keys, tenants, wallets *)
(* and callers, and any number of attempts; BlockchainListener, for any    *)
(* connections and logs.                                                   *)
(***************************************************************************)
EXTENDS Deposits, FiniteSetTheorems, TLAPS

(* Sums over finite sets.                                                  *)

\* Induction over the subsets of a finite set, for a property given as the set G of
\* those that have it: it holds of S if it holds of a set whenever it does of all smaller ones.
LEMMA SmallerFirst ==
  ASSUME NEW S, IsFiniteSet(S), NEW G,
         \A T \in SUBSET S : (\A U \in SUBSET T : U # T => U \in G) => T \in G
  PROVE  S \in G
<1> SUFFICES ASSUME S \notin G PROVE FALSE
  OBVIOUS
<1> DEFINE Rest == {T \in SUBSET S : T \notin G}
<1>1. Rest \subseteq FiniteSubsetsOf(S) /\ Rest # {}
  BY FS_FiniteSubsetsOfFinite
<1>2. PICK T \in Rest : \A U \in Rest : ~(<<U, T>> \in StrictSubsetOrdering(S))
  <2> HIDE DEF Rest
  <2>1. IsWellFoundedOn(StrictSubsetOrdering(S), FiniteSubsetsOf(S))
    BY FS_StrictSubsetOrderingWellFounded
  <2> QED
    BY <1>1, <2>1, WFMin
<1>3. ASSUME NEW U \in SUBSET T, U # T PROVE U \in G
  BY <1>2, <1>3 DEF StrictSubsetOrdering
<1> QED
  BY <1>2, <1>3

\* The function that a sum is computed with.
Pick(s) == CHOOSE x \in s : TRUE
SumsUp(g, f, S) == g = [s \in SUBSET S |-> IF s = {} THEN 0 ELSE f[Pick(s)] + g[s \ {Pick(s)}]]
SumsOf(f, S) == CHOOSE g : SumsUp(g, f, S)

LEMMA SumUnfolds ==
  ASSUME NEW f, NEW S
  PROVE  SumFunctionOnSet(f, S) = SumsOf(f, S)[S]
  BY DEF SumFunctionOnSet, FoldFunctionOnSet, MapThenFoldSet, SumsOf, SumsUp, Pick

\* Two such functions agree where both are defined.
LEMMA SumsAgree ==
  ASSUME NEW f, NEW S, NEW T, NEW g, NEW h, SumsUp(g, f, S), SumsUp(h, f, T),
         NEW U, IsFiniteSet(U), U \subseteq S, U \subseteq T
  PROVE  g[U] = h[U]
<1> DEFINE G == {V \in SUBSET U : g[V] = h[V]}
<1>1. ASSUME NEW V \in SUBSET U, \A W \in SUBSET V : W # V => W \in G PROVE V \in G
  <2>1. CASE V = {}
    BY <2>1 DEF SumsUp
  <2>2. CASE V # {}
    <3>1. Pick(V) \in V
      BY <2>2 DEF Pick
    <3>2. V \ {Pick(V)} \in G
      BY <1>1, <3>1
    <3>3. g[V] = f[Pick(V)] + g[V \ {Pick(V)}] /\ h[V] = f[Pick(V)] + h[V \ {Pick(V)}]
      BY <2>2 DEF SumsUp
    <3> QED
      BY <3>2, <3>3
  <2> QED
    BY <2>1, <2>2
<1>2. U \in G
  <2> HIDE DEF G
  <2> QED
    BY <1>1, SmallerFirst
<1> QED
  BY <1>2

LEMMA SumsExist ==
  ASSUME NEW f, NEW S, IsFiniteSet(S)
  PROVE  SumsUp(SumsOf(f, S), f, S)
<1> DEFINE G == {T \in SUBSET S : SumsUp(SumsOf(f, T), f, T)}
<1>1. ASSUME NEW T \in SUBSET S, \A U \in SUBSET T : U # T => U \in G PROVE T \in G
  <2> DEFINE total(u) == SumsOf(f, u)[u]
             next(u) == IF u = {} THEN 0 ELSE f[Pick(u)] + total(u \ {Pick(u)})
             g == [s \in SUBSET T |-> next(s)]
  <2>1. ASSUME NEW u \in SUBSET T, u # T PROVE total(u) = next(u)
    <3>1. SumsUp(SumsOf(f, u), f, u)
      BY <1>1, <2>1
    <3>2. CASE u = {}
      BY <3>1, <3>2 DEF SumsUp
    <3>3. CASE u # {}
      <4> DEFINE v == u \ {Pick(u)}
      <4>1. Pick(u) \in u
        BY <3>3 DEF Pick
      <4>2. SumsUp(SumsOf(f, v), f, v)
        BY <1>1, <2>1, <4>1
      <4>3. IsFiniteSet(v)
        BY FS_Subset
      <4>4. SumsOf(f, u)[v] = SumsOf(f, v)[v]
        BY <3>1, <4>2, <4>3, SumsAgree
      <4>5. SumsOf(f, u)[u] = f[Pick(u)] + SumsOf(f, u)[v]
        BY <3>1, <3>3 DEF SumsUp
      <4> QED
        BY <3>3, <4>4, <4>5
    <3> QED
      BY <3>2, <3>3
  <2>2. ASSUME NEW s \in SUBSET T, s # {} PROVE g[s \ {Pick(s)}] = total(s \ {Pick(s)})
    <3>1. Pick(s) \in s
      BY <2>2 DEF Pick
    <3>2. s \ {Pick(s)} \in SUBSET T /\ s \ {Pick(s)} # T
      BY <3>1
    <3>3. total(s \ {Pick(s)}) = next(s \ {Pick(s)})
      BY <2>1, <3>2
    <3> HIDE DEF total, next
    <3> QED
      BY <3>2, <3>3
  <2>3. SumsUp(g, f, T)
    BY <2>2 DEF SumsUp
  <2> HIDE DEF g
  <2> QED
    BY <2>3 DEF SumsOf
<1>2. S \in G
  <2> HIDE DEF G
  <2> QED
    BY <1>1, SmallerFirst
<1> QED
  BY <1>2

\* The equation of a sum.
LEMMA SumEquation ==
  ASSUME NEW f, NEW S, IsFiniteSet(S)
  PROVE  SumFunctionOnSet(f, S) =
           IF S = {} THEN 0 ELSE f[Pick(S)] + SumFunctionOnSet(f, S \ {Pick(S)})
<1>1. SumsUp(SumsOf(f, S), f, S)
  BY SumsExist
<1>2. CASE S = {}
  BY <1>1, <1>2, SumUnfolds DEF SumsUp
<1>3. CASE S # {}
  <2> DEFINE T == S \ {Pick(S)}
  <2>1. IsFiniteSet(T)
    BY FS_Subset
  <2>2. SumsUp(SumsOf(f, T), f, T)
    BY <2>1, SumsExist
  <2>3. SumsOf(f, S)[T] = SumsOf(f, T)[T]
    BY <1>1, <2>1, <2>2, SumsAgree
  <2>4. SumsOf(f, S)[S] = f[Pick(S)] + SumsOf(f, S)[T]
    BY <1>1, <1>3 DEF SumsUp
  <2> QED
    BY <1>3, <2>3, <2>4, SumUnfolds
<1> QED
  BY <1>2, <1>3

\* A sum of integers is one, and its terms can be taken in any order.
LEMMA SumTyped ==
  ASSUME NEW f, NEW S, IsFiniteSet(S), \A x \in S : f[x] \in Int
  PROVE  SumFunctionOnSet(f, S) \in Int
<1> DEFINE G == {T \in SUBSET S : SumFunctionOnSet(f, T) \in Int}
<1>1. ASSUME NEW T \in SUBSET S, \A U \in SUBSET T : U # T => U \in G PROVE T \in G
  <2>1. SumFunctionOnSet(f, T) = IF T = {} THEN 0 ELSE f[Pick(T)] + SumFunctionOnSet(f, T \ {Pick(T)})
    BY FS_Subset, SumEquation
  <2>2. CASE T = {}
    BY <2>1, <2>2
  <2>3. CASE T # {}
    <3>1. Pick(T) \in T
      BY <2>3 DEF Pick
    <3>2. SumFunctionOnSet(f, T \ {Pick(T)}) \in Int
      BY <1>1, <3>1
    <3> QED
      BY <2>1, <2>3, <3>1, <3>2
  <2> QED
    BY <2>2, <2>3
<1>2. S \in G
  <2> HIDE DEF G
  <2> QED
    BY <1>1, SmallerFirst
<1> QED
  BY <1>2

LEMMA SumInAnyOrder ==
  ASSUME NEW f, NEW S, IsFiniteSet(S), \A x \in S : f[x] \in Int, NEW y \in S
  PROVE  SumFunctionOnSet(f, S) = f[y] + SumFunctionOnSet(f, S \ {y})
<1> DEFINE sum(T) == SumFunctionOnSet(f, T)
           G == {T \in SUBSET S : \A x \in T : sum(T) = f[x] + sum(T \ {x})}
<1>0. \A T \in SUBSET S : IsFiniteSet(T) /\ sum(T) \in Int
  BY FS_Subset, SumTyped
<1>1. ASSUME NEW T \in SUBSET S, \A U \in SUBSET T : U # T => U \in G PROVE T \in G
  <2> SUFFICES ASSUME NEW x \in T PROVE sum(T) = f[x] + sum(T \ {x})
    OBVIOUS
  <2> DEFINE p == Pick(T)
             both == (T \ {x}) \ {p}
  <2>1. p \in T
    BY DEF Pick
  <2>2. sum(T) = f[p] + sum(T \ {p})
    BY <1>0, SumEquation
  <2>3. CASE x = p
    BY <2>2, <2>3
  <2>4. CASE x # p
    <3>1. T \ {x} \in G /\ T \ {p} \in G /\ p \in T \ {x} /\ x \in T \ {p}
      BY <1>1, <2>1, <2>4
    <3>2. (T \ {p}) \ {x} = both
      OBVIOUS
    <3>3. sum(T \ {p}) = f[x] + sum(both) /\ sum(T \ {x}) = f[p] + sum(both)
      BY <3>1, <3>2
    <3>4. sum(both) \in Int /\ f[x] \in Int /\ f[p] \in Int
      BY <1>0, <2>1
    <3> HIDE DEF sum, both, p
    <3> QED
      BY <2>2, <3>3, <3>4
  <2> QED
    BY <2>3, <2>4
<1>2. S \in G
  <2> HIDE DEF G
  <2> QED
    BY <1>1, SmallerFirst
<1> QED
  BY <1>2

LEMMA SumWithOneMore ==
  ASSUME NEW f, NEW S, IsFiniteSet(S), \A x \in S : f[x] \in Int,
         NEW y, y \notin S, f[y] \in Int
  PROVE  SumFunctionOnSet(f, S \cup {y}) = f[y] + SumFunctionOnSet(f, S)
<1>1. IsFiniteSet(S \cup {y}) /\ (S \cup {y}) \ {y} = S
  BY FS_AddElement
<1>2. \A x \in S \cup {y} : f[x] \in Int
  OBVIOUS
<1> QED
  BY <1>1, <1>2, SumInAnyOrder

\* It depends on what is summed only.
LEMMA SumOfSame ==
  ASSUME NEW f, NEW g, NEW S, IsFiniteSet(S), \A x \in S : f[x] = g[x]
  PROVE  SumFunctionOnSet(f, S) = SumFunctionOnSet(g, S)
<1> DEFINE G == {T \in SUBSET S : SumFunctionOnSet(f, T) = SumFunctionOnSet(g, T)}
<1>1. ASSUME NEW T \in SUBSET S, \A U \in SUBSET T : U # T => U \in G PROVE T \in G
  <2>1. IsFiniteSet(T)
    BY FS_Subset
  <2>2. SumFunctionOnSet(f, T) = IF T = {} THEN 0 ELSE f[Pick(T)] + SumFunctionOnSet(f, T \ {Pick(T)})
    BY <2>1, SumEquation
  <2>3. SumFunctionOnSet(g, T) = IF T = {} THEN 0 ELSE g[Pick(T)] + SumFunctionOnSet(g, T \ {Pick(T)})
    BY <2>1, SumEquation
  <2>4. CASE T = {}
    BY <2>2, <2>3, <2>4
  <2>5. CASE T # {}
    <3>1. Pick(T) \in T
      BY <2>5 DEF Pick
    <3>2. SumFunctionOnSet(f, T \ {Pick(T)}) = SumFunctionOnSet(g, T \ {Pick(T)})
      BY <1>1, <3>1
    <3> QED
      BY <2>2, <2>3, <2>5, <3>1, <3>2
  <2> QED
    BY <2>4, <2>5
<1>2. S \in G
  <2> HIDE DEF G
  <2> QED
    BY <1>1, SmallerFirst
<1> QED
  BY <1>2

-----------------------------------------------------------------------------

\* The fee is a natural number, at most the rate and at most the amount.
LEMMA FeeBound ==
  ASSUME NEW a \in Nat
  PROVE  FeeOf(a) \in Nat /\ FeeOf(a) * 10000 <= a * 50 /\ FeeOf(a) <= a
  BY DEF FeeOf, PLATFORM_FEE_BPS

\* What one settlement adds to the three accounts of its book.
LEMMA PostedAmounts ==
  ASSUME TypeOK, NEW s \in Settlements, PostEntries(s)
  PROVE  LET b == BookOf[s] IN
         /\ balance' \in [Books -> [Codes -> Nat]]
         /\ \A d \in Books \ {b} : balance'[d] = balance[d]
         /\ balance'[b]["1010"] = balance[b]["1010"] + Amount[s]
         /\ balance'[b]["2010"] = balance[b]["2010"] + Amount[s] + FeeOf(Amount[s])
         /\ balance'[b]["4010"] = balance[b]["4010"] + FeeOf(Amount[s])
<1> DEFINE b == BookOf[s]
           gross(c) == Effect(GrossEntry(s), c)
           fee(c) == IF FeeEntry(s) \in EntriesOf(s) THEN Effect(FeeEntry(s), c) ELSE 0
<1>1. b \in Books /\ Amount[s] \in Nat /\ FeeOf(Amount[s]) \in Nat
  BY LedgerAssumption, FeeBound
<1>2. balance' = [balance EXCEPT ![b] = [c \in Codes |-> @[c] + gross(c) + fee(c)]]
  BY DEF PostEntries
<1>3. \A c \in Codes : gross(c) = IF c = "4010" THEN 0 ELSE Amount[s]
  BY <1>1 DEF Codes, Effect, GrossEntry
<1>4. \A c \in Codes : fee(c) = IF c = "1010" THEN 0 ELSE FeeOf(Amount[s])
  <2>1. \A c \in Codes : Effect(FeeEntry(s), c) = IF c = "1010" THEN 0 ELSE FeeOf(Amount[s])
    BY <1>1 DEF Codes, Effect, FeeEntry
  <2>2. FeeEntry(s) \in EntriesOf(s) \/ FeeOf(Amount[s]) = 0
    BY <1>1 DEF EntriesOf, FeeEntry
  <2> QED
    BY <2>1, <2>2
<1>5. \A c \in Codes : balance[b][c] \in Nat
  BY <1>1 DEF TypeOK
<1> HIDE DEF gross, fee
<1>6. \A c \in Codes : gross(c) \in Nat /\ fee(c) \in Nat
  BY <1>1, <1>3, <1>4
<1>7. /\ \A c \in Codes : balance'[b][c] = balance[b][c] + gross(c) + fee(c)
      /\ \A d \in Books \ {b} : balance'[d] = balance[d]
      /\ balance' \in [Books -> [Codes -> Nat]]
  BY <1>1, <1>2, <1>5, <1>6 DEF TypeOK
<1> QED
  BY <1>1, <1>3, <1>4, <1>5, <1>7 DEF Codes

LEMMA LedgerTypeInit == Init => TypeOK
  BY DEF Init, TypeOK

LEMMA LedgerTypeStep == TypeOK /\ [Next]_vars => TypeOK'
<1> SUFFICES ASSUME TypeOK, [Next]_vars PROVE TypeOK'
  OBVIOUS
<1> USE LedgerAssumption DEF TypeOK
<1>1. ASSUME NEW s \in Settlements, SettlePayment(s) PROVE TypeOK'
  BY <1>1 DEF SettlePayment
<1>2. ASSUME NEW s \in Settlements, FindAccounts(s) PROVE TypeOK'
  <2>1. CASE accounts[BookOf[s]] = Codes
    BY <1>2, <2>1 DEF FindAccounts
  <2>2. CASE accounts[BookOf[s]] # Codes
    <3>1. missing' \in [Settlements -> SUBSET Codes] /\ rounds' \in [Settlements -> Nat]
      <4>1. /\ missing' = [missing EXCEPT ![s] = Codes]
            /\ rounds' = [rounds EXCEPT ![s] = @ + 1]
        BY <1>2, <2>2 DEF FindAccounts
      <4>2. rounds' \in [Settlements -> Nat]
        BY <4>1
      <4>3. missing' \in [Settlements -> SUBSET Codes]
        BY <4>1
      <4> QED
        BY <4>2, <4>3
    <3> QED
      BY <1>2, <2>2, <3>1 DEF FindAccounts
  <2> QED
    BY <2>1, <2>2
<1>3. ASSUME NEW s \in Settlements, NEW c \in Codes, UpsertAccount(s, c) PROVE TypeOK'
  BY <1>3 DEF UpsertAccount
<1>4. ASSUME NEW s \in Settlements, Recurse(s) PROVE TypeOK'
  BY <1>4 DEF Recurse
<1>5. ASSUME NEW s \in Settlements, PostEntries(s) PROVE TypeOK'
  <2>1. Amount[s] \in Nat /\ FeeOf(Amount[s]) \in Nat
    BY FeeBound
  <2>2. balance' \in [Books -> [Codes -> Nat]]
    BY <1>5, PostedAmounts DEF TypeOK
  <2>3. entries' \subseteq Entry
    <3>1. GrossEntry(s) \in Entry /\ FeeEntry(s) \in Entry
      BY <2>1 DEF Entry, GrossEntry, FeeEntry, Codes
    <3> QED
      BY <1>5, <3>1 DEF PostEntries, EntriesOf
  <2> QED
    BY <1>5, <2>2, <2>3 DEF PostEntries
<1>6. ASSUME NEW s \in Settlements, SettlementFault(s) PROVE TypeOK'
  BY <1>6 DEF SettlementFault
<1>7. ASSUME NEW b \in Books, NEW c \in Codes, ProvisionAccount(b, c) PROVE TypeOK'
  BY <1>7 DEF ProvisionAccount
<1>8. CASE UNCHANGED vars
  BY <1>8 DEF vars
<1> QED
  BY <1>1, <1>2, <1>3, <1>4, <1>5, <1>6, <1>7, <1>8 DEF Next, SettlementStep

\* Every variable keeps its type; no balance gets negative.
THEOREM LedgerTypeCorrect == Spec => []TypeOK
  BY LedgerTypeInit, LedgerTypeStep, PTL DEF Spec

\* Only a settlement's transaction writes balances.
LEMMA BalanceWriters ==
  [Next]_vars => UNCHANGED balance \/ \E s \in Settlements : PostEntries(s)
  BY DEF Next, SettlementStep, vars, SettlePayment, FindAccounts, UpsertAccount, Recurse,
     SettlementFault, ProvisionAccount

OffByTheFees == \A b \in Books : TrialBalance(b) = -(2 * balance[b]["4010"])

\* How far a book is from the trial balance that the comments promise (the run "trial"
\* refutes it): by twice the fees it has taken, so it zeros out only without any.
THEOREM TrialBalanceIsOffByTheFees == Spec => []OffByTheFees
<1> DEFINE Sums == \A b \in Books : balance[b]["2010"] = balance[b]["1010"] + balance[b]["4010"]
<1>1. Init => Sums
  BY DEF Init, Codes
<1>2. TypeOK /\ Sums /\ [Next]_vars => Sums'
  <2> SUFFICES ASSUME TypeOK, Sums, [Next]_vars PROVE Sums'
    OBVIOUS
  <2>1. CASE UNCHANGED balance
    BY <2>1
  <2>2. ASSUME NEW s \in Settlements, PostEntries(s) PROVE Sums'
    <3>1. Amount[s] \in Nat /\ FeeOf(Amount[s]) \in Nat
      BY LedgerAssumption, FeeBound
    <3> QED
      BY <2>2, <3>1, PostedAmounts, LedgerAssumption DEF TypeOK, Codes
  <2> QED
    BY <2>1, <2>2, BalanceWriters
<1>3. TypeOK /\ Sums => OffByTheFees
  <2> SUFFICES ASSUME TypeOK, Sums, NEW b \in Books PROVE TrialBalance(b) = -(2 * balance[b]["4010"])
    BY DEF OffByTheFees
  <2>1. balance[b]["1010"] \in Nat /\ balance[b]["4010"] \in Nat /\ balance[b]["2010"] \in Nat
    BY DEF TypeOK, Codes
  <2> QED
    BY <2>1 DEF TrialBalance
<1> HIDE DEF Sums
<1> QED
  BY <1>1, <1>2, <1>3, LedgerTypeInit, LedgerTypeStep, PTL DEF Spec

\* The fees of a book never exceed the rate of what it has taken in.
THEOREM FeesStayWithinRate == Spec => []FeesWithinRate
<1>1. Init => FeesWithinRate
  BY DEF Init, FeesWithinRate, Codes, PLATFORM_FEE_BPS
<1>2. TypeOK /\ FeesWithinRate /\ [Next]_vars => FeesWithinRate'
  <2> SUFFICES ASSUME TypeOK, FeesWithinRate, [Next]_vars PROVE FeesWithinRate'
    OBVIOUS
  <2>1. CASE UNCHANGED balance
    BY <2>1 DEF FeesWithinRate
  <2>2. ASSUME NEW s \in Settlements, PostEntries(s) PROVE FeesWithinRate'
    <3>1. /\ Amount[s] \in Nat /\ FeeOf(Amount[s]) \in Nat
          /\ FeeOf(Amount[s]) * 10000 <= Amount[s] * 50
      BY LedgerAssumption, FeeBound
    <3> QED
      BY <2>2, <3>1, PostedAmounts, LedgerAssumption
      DEF FeesWithinRate, TypeOK, Codes, PLATFORM_FEE_BPS
  <2> QED
    BY <2>1, <2>2, BalanceWriters
<1> QED
  BY <1>1, <1>2, LedgerTypeInit, LedgerTypeStep, PTL DEF Spec

\* A call that has found accounts missing has ensured all of them by the time it
\* looks again, and an account is never deleted.
Ensured ==
  \A s \in Settlements :
    /\ rounds[s] <= 1
    /\ stage[s] = "idle" => rounds[s] = 0
    /\ stage[s] = "ensure" => Codes \ missing[s] \subseteq accounts[BookOf[s]]
    /\ stage[s] = "lookup" /\ rounds[s] > 0 => accounts[BookOf[s]] = Codes

\* settlePayment calls itself at most once.
THEOREM SettlePaymentRecursesOnce == Spec => []RecursesOnce
<1>1. Init => Ensured
  BY DEF Init, Ensured
<1>2. TypeOK /\ Ensured /\ [Next]_vars => Ensured'
  <2> SUFFICES ASSUME TypeOK, Ensured, [Next]_vars PROVE Ensured'
    OBVIOUS
  <2> USE LedgerAssumption DEF TypeOK, Ensured
  <2>1. ASSUME NEW s \in Settlements, SettlePayment(s) PROVE Ensured'
    BY <2>1 DEF SettlePayment
  <2>2. ASSUME NEW s \in Settlements, FindAccounts(s) PROVE Ensured'
    BY <2>2 DEF FindAccounts
  <2>3. ASSUME NEW s \in Settlements, NEW c \in Codes, UpsertAccount(s, c) PROVE Ensured'
    BY <2>3 DEF UpsertAccount
  <2>4. ASSUME NEW s \in Settlements, Recurse(s) PROVE Ensured'
    BY <2>4 DEF Recurse
  <2>5. ASSUME NEW s \in Settlements, PostEntries(s) PROVE Ensured'
    BY <2>5 DEF PostEntries
  <2>6. ASSUME NEW s \in Settlements, SettlementFault(s) PROVE Ensured'
    BY <2>6 DEF SettlementFault
  <2>7. ASSUME NEW b \in Books, NEW c \in Codes, ProvisionAccount(b, c) PROVE Ensured'
    BY <2>7 DEF ProvisionAccount
  <2>8. CASE UNCHANGED vars
    BY <2>8 DEF vars
  <2> QED
    BY <2>1, <2>2, <2>3, <2>4, <2>5, <2>6, <2>7, <2>8 DEF Next, SettlementStep
<1>3. Ensured => RecursesOnce
  BY DEF Ensured, RecursesOnce
<1> QED
  BY <1>1, <1>2, <1>3, LedgerTypeInit, LedgerTypeStep, PTL DEF Spec

-----------------------------------------------------------------------------
(* The entries and the balances.                                           *)

\* What the entries of a book come to on one of its accounts.
Effects(c) ==
  [e \in entries |-> (IF c = e.debit THEN e.amount ELSE 0) + (IF c = e.credit THEN e.amount ELSE 0)]
EntriesIn(b) == {e \in entries : BookOf[e.call] = b}

\* A settlement has its entries exactly when it is done.
SettledIsBooked ==
  \A s \in Settlements : {e \in entries : e.call = s} = IF stage[s] = "done" THEN EntriesOf(s) ELSE {}

BooksInv ==
  /\ TypeOK /\ IsFiniteSet(entries) /\ SettledIsBooked
  /\ \A b \in Books, c \in Codes : balance[b][c] = SumFunctionOnSet(Effects(c), EntriesIn(b))

\* The entries of a settlement, with their amounts on each account.
LEMMA EntriesOfOne ==
  ASSUME NEW s \in Settlements
  PROVE  LET g == GrossEntry(s) h == FeeEntry(s) IN
         /\ g # h /\ g \in Entry /\ h \in Entry /\ g.call = s /\ h.call = s
         /\ EntriesOf(s) = IF FeeOf(Amount[s]) > 0 THEN {g, h} ELSE {g}
         /\ g.debit = "1010" /\ g.credit = "2010" /\ g.amount = Amount[s]
         /\ h.debit = "2010" /\ h.credit = "4010" /\ h.amount = FeeOf(Amount[s])
<1>1. Amount[s] \in Nat /\ FeeOf(Amount[s]) \in Nat
  BY LedgerAssumption, FeeBound
<1> QED
  BY <1>1 DEF GrossEntry, FeeEntry, EntriesOf, Entry, Codes

LEMMA BooksInit == Init => BooksInv
<1> SUFFICES ASSUME Init PROVE BooksInv
  OBVIOUS
<1>1. entries = {} /\ IsFiniteSet(entries)
  BY FS_EmptySet DEF Init
<1>2. SettledIsBooked
  BY <1>1 DEF Init, SettledIsBooked
<1>3. ASSUME NEW b \in Books, NEW c \in Codes
      PROVE  balance[b][c] = SumFunctionOnSet(Effects(c), EntriesIn(b))
  <2>1. EntriesIn(b) = {}
    BY <1>1 DEF EntriesIn
  <2>2. SumFunctionOnSet(Effects(c), {}) = 0
    BY FS_EmptySet, SumEquation
  <2>3. balance[b][c] = 0
    BY DEF Init
  <2> QED
    BY <2>1, <2>2, <2>3
<1> QED
  BY <1>1, <1>2, <1>3, LedgerTypeInit DEF BooksInv

\* The transaction adds to the balances what its entries come to.
LEMMA PostKeepsBooks ==
  ASSUME BooksInv, NEW s \in Settlements, PostEntries(s) PROVE BooksInv'
<1> DEFINE b == BookOf[s]
           g == GrossEntry(s)
           h == FeeEntry(s)
           fee == FeeOf(Amount[s])
<1>1. Amount[s] \in Nat /\ fee \in Nat /\ b \in Books
  BY LedgerAssumption, FeeBound
<1>2. /\ stage[s] = "post" /\ stage'[s] = "done" /\ \A r \in Settlements \ {s} : stage'[r] = stage[r]
      /\ entries' = entries \cup EntriesOf(s)
  BY DEF PostEntries, BooksInv, TypeOK
<1>3. \A e \in entries : e.call # s
  BY <1>2 DEF BooksInv, SettledIsBooked
<1>4. /\ g # h /\ g.call = s /\ h.call = s /\ EntriesOf(s) = IF fee > 0 THEN {g, h} ELSE {g}
      /\ g.debit = "1010" /\ g.credit = "2010" /\ g.amount = Amount[s]
      /\ h.debit = "2010" /\ h.credit = "4010" /\ h.amount = fee
  BY EntriesOfOne
<1>5. IsFiniteSet(entries')
  <2>1. IsFiniteSet(entries \cup {g}) /\ IsFiniteSet((entries \cup {g}) \cup {h})
    BY FS_AddElement DEF BooksInv
  <2>2. entries' = IF fee > 0 THEN (entries \cup {g}) \cup {h} ELSE entries \cup {g}
    BY <1>2, <1>4
  <2> QED
    BY <2>1, <2>2
<1>6. SettledIsBooked'
  <2> SUFFICES ASSUME NEW r \in Settlements
               PROVE  {e \in entries' : e.call = r} = IF stage'[r] = "done" THEN EntriesOf(r) ELSE {}
    BY DEF SettledIsBooked, EntriesOf, GrossEntry, FeeEntry
  <2>1. \A e \in EntriesOf(s) : e.call = s
    BY <1>4
  <2>2. CASE r = s
    BY <1>2, <1>3, <2>1, <2>2
  <2>3. CASE r # s
    BY <1>2, <2>1, <2>3 DEF BooksInv, SettledIsBooked
  <2> QED
    BY <2>2, <2>3
<1>7. ASSUME NEW d \in Books, NEW c \in Codes
      PROVE  balance'[d][c] = SumFunctionOnSet(Effects(c)', EntriesIn(d)')
  <2> DEFINE F == Effects(c)'
             B == EntriesIn(d)
  <2>1. \A e \in entries' : F[e] = (IF c = e.debit THEN e.amount ELSE 0)
                                   + (IF c = e.credit THEN e.amount ELSE 0)
    BY DEF Effects
  <2>2. B \subseteq entries /\ entries \subseteq entries' /\ IsFiniteSet(B)
    BY <1>2, FS_Subset DEF EntriesIn, BooksInv
  <2>3. \A e \in B : F[e] = Effects(c)[e] /\ F[e] \in Int
    <3>1. \A e \in B : e.amount \in Nat
      BY <2>2 DEF BooksInv, TypeOK, Entry
    <3> QED
      BY <2>1, <2>2, <3>1 DEF Effects
  <2>4. balance[d][c] = SumFunctionOnSet(F, B) /\ balance[d][c] \in Nat
    <3>1. SumFunctionOnSet(Effects(c), B) = SumFunctionOnSet(F, B)
      BY <2>2, <2>3, SumOfSame
    <3> QED
      BY <3>1 DEF BooksInv, TypeOK
  <2>5. CASE d # b
    <3>1. EntriesIn(d)' = B
      BY <1>2, <1>4, <2>5 DEF EntriesIn
    <3>2. balance'[d][c] = balance[d][c]
      BY <2>5, PostedAmounts DEF BooksInv
    <3> QED
      BY <2>4, <3>1, <3>2
  <2>6. CASE d = b
    <3>1. g \in entries' /\ g \notin B
      BY <1>2, <1>3, <1>4, <2>2
    <3>2. F[g] = IF c = "4010" THEN 0 ELSE Amount[s]
      BY <1>1, <1>4, <2>1, <3>1 DEF Codes
    <3>3. SumFunctionOnSet(F, B \cup {g}) = F[g] + balance[d][c]
      <4>1. F[g] \in Int
        BY <1>1, <3>2
      <4> HIDE DEF F, B, g
      <4> QED
        BY <2>2, <2>3, <2>4, <3>1, <4>1, SumWithOneMore
    <3>4. CASE fee = 0
      <4>1. EntriesIn(d)' = B \cup {g}
        BY <1>2, <1>4, <2>6, <3>4 DEF EntriesIn
      <4>2. balance'[d][c] = balance[d][c] + IF c = "4010" THEN 0 ELSE Amount[s]
        BY <1>1, <2>4, <2>6, <3>4, PostedAmounts DEF BooksInv, Codes
      <4> QED
        BY <1>1, <2>4, <3>2, <3>3, <4>1, <4>2
    <3>5. CASE fee > 0
      <4>1. EntriesIn(d)' = (B \cup {g}) \cup {h}
        BY <1>2, <1>4, <2>6, <3>5 DEF EntriesIn
      <4>2. h \in entries' /\ h \notin B \cup {g}
        BY <1>2, <1>3, <1>4, <2>2, <3>5
      <4>3. F[h] = IF c = "1010" THEN 0 ELSE fee
        BY <1>1, <1>4, <2>1, <4>2 DEF Codes
      <4>4. SumFunctionOnSet(F, (B \cup {g}) \cup {h}) = F[h] + SumFunctionOnSet(F, B \cup {g})
        <5>1. IsFiniteSet(B \cup {g})
          BY <2>2, FS_AddElement
        <5>2. F[g] \in Int /\ F[h] \in Int
          BY <1>1, <3>2, <4>3
        <5> HIDE DEF F, B, g, h
        <5> QED
          BY <2>3, <4>2, <5>1, <5>2, SumWithOneMore
      <4>5. balance'[d][c] = balance[d][c] + (IF c = "4010" THEN 0 ELSE Amount[s])
                                           + (IF c = "1010" THEN 0 ELSE fee)
        BY <1>1, <2>4, <2>6, PostedAmounts DEF BooksInv, Codes
      <4>6. balance'[d][c] = SumFunctionOnSet(F, (B \cup {g}) \cup {h})
        <5> HIDE DEF F, B, g, h, fee
        <5> QED
          BY <1>1, <2>4, <3>2, <3>3, <4>3, <4>4, <4>5
      <4> QED
        BY <4>1, <4>6
    <3> QED
      BY <1>1, <3>4, <3>5
  <2> QED
    BY <2>5, <2>6
<1>8. TypeOK'
  BY LedgerTypeStep DEF BooksInv, Next, SettlementStep
<1> QED
  BY <1>5, <1>6, <1>7, <1>8 DEF BooksInv

LEMMA BooksStep == BooksInv /\ [Next]_vars => BooksInv'
<1> SUFFICES ASSUME BooksInv, [Next]_vars PROVE BooksInv'
  OBVIOUS
<1>1. ASSUME UNCHANGED <<balance, entries>>,
             \A s \in Settlements : stage'[s] = "done" <=> stage[s] = "done"
      PROVE  BooksInv'
  <2>1. TypeOK'
    BY LedgerTypeStep DEF BooksInv
  <2>2. SettledIsBooked'
    BY <1>1 DEF BooksInv, SettledIsBooked, EntriesOf, GrossEntry, FeeEntry
  <2>3. \A c : Effects(c)' = Effects(c)
    BY <1>1 DEF Effects
  <2>4. \A b : EntriesIn(b)' = EntriesIn(b)
    BY <1>1 DEF EntriesIn
  <2> QED
    BY <1>1, <2>1, <2>2, <2>3, <2>4 DEF BooksInv
<1>2. \/ \E s \in Settlements : PostEntries(s)
      \/ /\ UNCHANGED <<balance, entries>>
         /\ \A s \in Settlements : stage'[s] = "done" <=> stage[s] = "done"
  BY DEF BooksInv, TypeOK, Next, SettlementStep, vars, SettlePayment, FindAccounts, UpsertAccount,
         Recurse, SettlementFault, ProvisionAccount
<1> QED
  BY <1>1, <1>2, PostKeepsBooks

\* The inductive invariant of the books: a settlement has its entries when it is done, and
\* the balances are the sums of the entries.
THEOREM BooksInvariant == Spec => []BooksInv
  BY BooksInit, BooksStep, PTL DEF Spec

\* However settlements and provisioning interleave, each balance is what the entries of
\* its book come to, and only settlements that are done have left entries.
THEOREM BalancesAreOfEntries == Spec => []BalancesMatchEntries
<1>1. BooksInv => BalancesMatchEntries
  <2> SUFFICES ASSUME BooksInv PROVE BalancesMatchEntries
    OBVIOUS
  <2>1. \A e \in entries : e.call \in Settlements /\ stage[e.call] = "done"
    BY DEF BooksInv, SettledIsBooked, TypeOK, Entry
  <2> QED
    BY <2>1 DEF BalancesMatchEntries, BooksInv, Effects, EntriesIn
<1> QED
  BY <1>1, BooksInvariant, PTL

-----------------------------------------------------------------------------

Active == {"called", "checked", "ready", "created"}

\* A call that goes on has attempts left, and a caller that is not a job its one.
TriesLeft ==
  \A c \in Callers : caller[c] \in {"idle"} \cup Active =>
    tries[c] < MaxTries /\ (c \notin Jobs => tries[c] = 0)

\* A payment is of its caller: its key, its tenant, and a wallet of that tenant.
PaymentsAreCallers ==
  \A p \in payments :
    /\ p.key = KeyOf[p.by] /\ p.tenant = TenantOf[p.by]
    /\ OwnerOf[p.wallet] = p.tenant

\* What a call has found out still holds when it goes on.
CallsKnow ==
  \A c \in Callers :
    /\ caller[c] = "ready" => OwnerOf[WalletOf[c]] = TenantOf[c]
    /\ caller[c] = "created" =>
         \E p \in payments : p.key = KeyOf[c] /\ p.tenant = TenantOf[c]

\* Whoever has lost finds the winner's payment when it checks its key again, and
\* does not get as far as the insert.
LosersStop ==
  \A c \in Callers :
    /\ lost[c] > 0 => \E p \in payments : p.key = KeyOf[c]
    /\ caller[c] \in {"checked", "ready"} => lost[c] = 0

IntentInv ==
  /\ I!TypeOK /\ TriesLeft /\ PaymentsAreCallers /\ CallsKnow /\ LosersStop
  /\ I!OnePerKey /\ I!AnsweredWithOwn /\ I!LosesOnce

-----------------------------------------------------------------------------
\* A call that throws is counted, and ends or is made again.
LEMMA ThrowsCounts ==
  ASSUME I!IntentAssumption, I!TypeOK, TriesLeft, NEW c \in Callers, NEW error \in I!Ended,
         caller[c] \in Active, I!Throws(c, error)
  PROVE  /\ tries' \in [Callers -> 0 .. MaxTries]
         /\ caller' \in [Callers -> {"idle"} \cup Active \cup I!Ended]
         /\ caller'[c] \in {"called"} \cup I!Ended
         /\ \A d \in Callers \ {c} : caller'[d] = caller[d] /\ tries'[d] = tries[d]
         /\ TriesLeft'
<1> USE DEF I!IntentAssumption, I!TypeOK, Active, I!Ended
<1>1. /\ tries[c] \in Nat /\ tries[c] < MaxTries /\ (c \notin Jobs => tries[c] = 0)
      /\ MaxTries \in Nat
  BY DEF TriesLeft
<1>2. tries' = [tries EXCEPT ![c] = tries[c] + 1]
  BY DEF I!Throws
<1>3. caller' = [caller EXCEPT ![c] =
                  IF c \in Jobs /\ tries[c] + 1 < MaxTries THEN "called" ELSE error]
  BY DEF I!Throws
<1>4. /\ tries' \in [Callers -> 0 .. MaxTries]
      /\ tries'[c] = tries[c] + 1
      /\ \A d \in Callers \ {c} : tries'[d] = tries[d]
  BY <1>1, <1>2
<1>5. /\ caller' \in [Callers -> {"idle"} \cup Active \cup I!Ended]
      /\ caller'[c] \in {"called"} \cup I!Ended
      /\ caller'[c] = "called" => c \in Jobs /\ tries[c] + 1 < MaxTries
      /\ \A d \in Callers \ {c} : caller'[d] = caller[d]
  BY <1>3
<1>6. TriesLeft'
  BY <1>1, <1>4, <1>5 DEF TriesLeft
<1> QED
  BY <1>4, <1>5, <1>6

\* A call that goes on is not counted.
LEMMA GoesUncounted ==
  ASSUME I!IntentAssumption, I!TypeOK, TriesLeft, NEW c \in Callers, NEW next \in Active \cup I!Ended,
         caller[c] \in {"idle"} \cup Active, I!Goes(c, next)
  PROVE  /\ tries' \in [Callers -> 0 .. MaxTries]
         /\ caller' \in [Callers -> {"idle"} \cup Active \cup I!Ended]
         /\ caller'[c] = next
         /\ \A d \in Callers \ {c} : caller'[d] = caller[d]
         /\ TriesLeft'
  BY DEF I!IntentAssumption, I!TypeOK, Active, I!Ended, TriesLeft, I!Goes

LEMMA IntentInit == I!IntentAssumption /\ I!Init => IntentInv
  BY DEF I!IntentAssumption, I!Init, IntentInv, I!TypeOK, TriesLeft, PaymentsAreCallers, CallsKnow,
         LosersStop, I!OnePerKey, I!AnsweredWithOwn, I!LosesOnce, Active, I!Ended

\* One caller's step leaves what the others know, as payments are never taken back.
LEMMA OthersKeep ==
  ASSUME IntentInv, NEW c \in Callers,
         caller' \in [Callers -> {"idle"} \cup Active \cup I!Ended],
         \A d \in Callers \ {c} : caller'[d] = caller[d],
         payments \subseteq payments'
  PROVE  \A d \in Callers \ {c} :
           /\ caller'[d] = "ready" => OwnerOf[WalletOf[d]] = TenantOf[d]
           /\ caller'[d] = "created" =>
                \E p \in payments' : p.key = KeyOf[d] /\ p.tenant = TenantOf[d]
           /\ lost[d] > 0 => \E p \in payments' : p.key = KeyOf[d]
           /\ caller'[d] \in {"checked", "ready"} => lost[d] = 0
  BY DEF IntentInv, CallsKnow, LosersStop

\* A step that only moves one call, and does not move it past the insert.
LEMMA MovesOnly ==
  ASSUME I!IntentAssumption, IntentInv, NEW c \in Callers,
         UNCHANGED <<payments, answer, lost>>,
         tries' \in [Callers -> 0 .. MaxTries],
         caller' \in [Callers -> {"idle"} \cup Active \cup I!Ended],
         \A d \in Callers \ {c} : caller'[d] = caller[d],
         TriesLeft',
         caller'[c] # "created",
         caller'[c] = "ready" => OwnerOf[WalletOf[c]] = TenantOf[c],
         caller'[c] \in {"checked", "ready"} => lost[c] = 0
  PROVE  IntentInv'
<1>1. I!TypeOK'
  BY DEF IntentInv, I!TypeOK, Active, I!Ended
<1>2. CallsKnow' /\ LosersStop'
  BY OthersKeep DEF IntentInv, CallsKnow, LosersStop
<1>3. PaymentsAreCallers' /\ I!OnePerKey' /\ I!AnsweredWithOwn' /\ I!LosesOnce'
  BY DEF IntentInv, PaymentsAreCallers, I!OnePerKey, I!AnsweredWithOwn, I!LosesOnce
<1> QED
  BY <1>1, <1>2, <1>3 DEF IntentInv

\* A call is answered with a payment of its key and tenant.
LEMMA Answered ==
  ASSUME I!IntentAssumption, IntentInv, NEW c \in Callers, NEW p \in payments,
         p.key = KeyOf[c], p.tenant = TenantOf[c],
         caller[c] \in Active, I!Goes(c, "answered"), I!Gives(c, p), UNCHANGED <<payments, lost>>
  PROVE  IntentInv'
<1>1. /\ tries' \in [Callers -> 0 .. MaxTries]
      /\ caller' \in [Callers -> {"idle"} \cup Active \cup I!Ended]
      /\ caller'[c] = "answered"
      /\ \A d \in Callers \ {c} : caller'[d] = caller[d]
      /\ TriesLeft'
  BY GoesUncounted DEF IntentInv, I!Ended
<1>2. answer' = [answer EXCEPT ![c] = p] /\ answer \in [Callers -> I!Payment \cup {NoPayment}]
  BY DEF I!Gives, IntentInv, I!TypeOK
<1>3. I!TypeOK'
  BY <1>1, <1>2 DEF IntentInv, I!TypeOK, Active, I!Ended
<1>4. CallsKnow' /\ LosersStop'
  BY <1>1, OthersKeep DEF IntentInv, CallsKnow, LosersStop
<1>5. I!AnsweredWithOwn'
  BY <1>2 DEF IntentInv, I!AnsweredWithOwn, PaymentsAreCallers
<1>6. PaymentsAreCallers' /\ I!OnePerKey' /\ I!LosesOnce'
  BY DEF IntentInv, PaymentsAreCallers, I!OnePerKey, I!LosesOnce
<1> QED
  BY <1>1, <1>3, <1>4, <1>5, <1>6 DEF IntentInv

LEMMA IntentCall ==
  ASSUME I!IntentAssumption, IntentInv, NEW c \in Callers, I!Call(c) PROVE IntentInv'
<1>1. caller'[c] = "called" /\ I!Goes(c, "called")
  BY DEF I!Call, I!Goes, IntentInv, I!TypeOK
<1> QED
  BY <1>1, GoesUncounted, MovesOnly DEF I!Call, IntentInv, Active

LEMMA IntentCheckKey ==
  ASSUME I!IntentAssumption, IntentInv, NEW c \in Callers, I!CheckKey(c) PROVE IntentInv'
<1> DEFINE existing == {p \in payments : p.key = KeyOf[c]}
<1>1. CASE existing = {} /\ I!Goes(c, "checked") /\ UNCHANGED answer
  <2>1. lost[c] = 0
    BY <1>1 DEF IntentInv, LosersStop, I!TypeOK
  <2> QED
    BY <1>1, <2>1, GoesUncounted, MovesOnly DEF I!CheckKey, IntentInv, Active
<1>2. CASE \E p \in existing : p.tenant = TenantOf[c] /\ I!Goes(c, "answered") /\ I!Gives(c, p)
  BY <1>2, Answered DEF I!CheckKey, Active
<1>3. CASE I!Throws(c, "conflict") /\ UNCHANGED answer
  BY <1>3, ThrowsCounts, MovesOnly DEF I!CheckKey, IntentInv, Active, I!Ended
<1> QED
  BY <1>1, <1>2, <1>3 DEF I!CheckKey

LEMMA IntentFindWallet ==
  ASSUME I!IntentAssumption, IntentInv, NEW c \in Callers, I!FindWallet(c) PROVE IntentInv'
<1>1. lost[c] = 0
  BY DEF I!FindWallet, IntentInv, LosersStop
<1>2. CASE OwnerOf[WalletOf[c]] = TenantOf[c] /\ I!Goes(c, "ready")
  BY <1>1, <1>2, GoesUncounted, MovesOnly DEF I!FindWallet, IntentInv, Active
<1>3. CASE I!Throws(c, "not_found")
  BY <1>3, ThrowsCounts, MovesOnly DEF I!FindWallet, IntentInv, Active, I!Ended
<1> QED
  BY <1>2, <1>3 DEF I!FindWallet

LEMMA IntentCreate ==
  ASSUME I!IntentAssumption, IntentInv, NEW c \in Callers, I!Create(c) PROVE IntentInv'
<1> DEFINE new == [key |-> KeyOf[c], tenant |-> TenantOf[c], wallet |-> WalletOf[c], by |-> c]
<1>0. lost[c] = 0 /\ OwnerOf[WalletOf[c]] = TenantOf[c] /\ caller[c] = "ready" /\ UNCHANGED answer
  BY DEF I!Create, IntentInv, LosersStop, CallsKnow
<1>1. CASE /\ \A p \in payments : p.key # KeyOf[c]
           /\ payments' = payments \cup {new}
           /\ I!Goes(c, "created") /\ UNCHANGED lost
  <2>1. /\ tries' \in [Callers -> 0 .. MaxTries]
        /\ caller' \in [Callers -> {"idle"} \cup Active \cup I!Ended]
        /\ caller'[c] = "created"
        /\ \A d \in Callers \ {c} : caller'[d] = caller[d]
        /\ TriesLeft'
    BY <1>0, <1>1, GoesUncounted DEF IntentInv, Active
  <2>2. new \in I!Payment
    BY DEF I!IntentAssumption, I!Payment
  <2>3. I!TypeOK'
    BY <1>0, <1>1, <2>1, <2>2 DEF IntentInv, I!TypeOK, Active, I!Ended
  <2>4. CallsKnow' /\ LosersStop'
    <3>1. \E p \in payments' : p.key = KeyOf[c] /\ p.tenant = TenantOf[c]
      <4>1. new \in payments' /\ new.key = KeyOf[c] /\ new.tenant = TenantOf[c]
        BY <1>1
      <4> QED
        BY <4>1
    <3> QED
      BY <1>1, <2>1, <3>1, OthersKeep DEF CallsKnow, LosersStop
  <2>5. PaymentsAreCallers' /\ I!OnePerKey' /\ I!AnsweredWithOwn' /\ I!LosesOnce'
    BY <1>0, <1>1 DEF IntentInv, PaymentsAreCallers, I!OnePerKey, I!AnsweredWithOwn, I!LosesOnce
  <2> QED
    BY <2>1, <2>3, <2>4, <2>5 DEF IntentInv
<1>2. CASE /\ \E p \in payments : p.key = KeyOf[c]
           /\ I!Throws(c, "duplicate")
           /\ lost' = [lost EXCEPT ![c] = @ + 1]
           /\ UNCHANGED payments
  <2>1. /\ tries' \in [Callers -> 0 .. MaxTries]
        /\ caller' \in [Callers -> {"idle"} \cup Active \cup I!Ended]
        /\ caller'[c] \in {"called"} \cup I!Ended
        /\ \A d \in Callers \ {c} : caller'[d] = caller[d]
        /\ TriesLeft'
    BY <1>0, <1>2, ThrowsCounts DEF IntentInv, Active, I!Ended
  <2>2. lost \in [Callers -> Nat]
    BY DEF IntentInv, I!TypeOK
  <2>3. /\ lost' \in [Callers -> Nat] /\ lost'[c] = 1
        /\ \A d \in Callers \ {c} : lost'[d] = lost[d]
    BY <1>0, <1>2, <2>2
  <2>4. I!TypeOK'
    BY <1>0, <1>2, <2>1, <2>3 DEF IntentInv, I!TypeOK, Active, I!Ended
  <2>5. CallsKnow' /\ LosersStop'
    BY <1>2, <2>1, <2>3, OthersKeep DEF CallsKnow, LosersStop, I!Ended
  <2>6. PaymentsAreCallers' /\ I!OnePerKey' /\ I!AnsweredWithOwn' /\ I!LosesOnce'
    BY <1>0, <1>2, <2>3 DEF IntentInv, PaymentsAreCallers, I!OnePerKey, I!AnsweredWithOwn, I!LosesOnce
  <2> QED
    BY <2>1, <2>4, <2>5, <2>6 DEF IntentInv
<1> QED
  BY <1>1, <1>2 DEF I!Create

LEMMA IntentReturn ==
  ASSUME I!IntentAssumption, IntentInv, NEW c \in Callers, I!Return(c) PROVE IntentInv'
<1>1. PICK p \in payments : p.key = KeyOf[c] /\ I!Gives(c, p)
  BY DEF I!Return
<1>2. p.tenant = TenantOf[c]
  BY <1>1 DEF I!Return, IntentInv, CallsKnow, I!OnePerKey
<1> QED
  BY <1>1, <1>2, Answered DEF I!Return, Active

LEMMA IntentFault ==
  ASSUME I!IntentAssumption, IntentInv, NEW c \in Callers, I!Fault(c) PROVE IntentInv'
  BY ThrowsCounts, MovesOnly DEF I!Fault, IntentInv, Active, I!Ended

\* Every step of any caller, whatever the others are doing, keeps the invariant.
LEMMA IntentStep == I!IntentAssumption /\ IntentInv /\ [I!Next]_(I!vars) => IntentInv'
<1> SUFFICES ASSUME I!IntentAssumption, IntentInv, [I!Next]_(I!vars) PROVE IntentInv'
  OBVIOUS
<1>1. CASE UNCHANGED I!vars
  BY <1>1 DEF I!vars, IntentInv, I!TypeOK, TriesLeft, PaymentsAreCallers, CallsKnow, LosersStop,
              I!OnePerKey, I!AnsweredWithOwn, I!LosesOnce
<1>2. CASE I!Next
  BY <1>2, IntentCall, IntentCheckKey, IntentFindWallet, IntentCreate, IntentReturn, IntentFault DEF I!Next, I!Step
<1> QED
  BY <1>1, <1>2

-----------------------------------------------------------------------------
\* The inductive invariant of createPaymentIntent, whatever is raced and retried.
THEOREM IntentInvariant == ASSUME I!IntentAssumption PROVE I!Spec => []IntentInv
<1>1. I!Init => IntentInv
  BY IntentInit
<1>2. IntentInv /\ [I!Next]_(I!vars) => IntentInv'
  BY IntentStep
<1> QED
  BY <1>1, <1>2, PTL DEF I!Spec

\* No caller is handed more attempts than a job has, and everything is well typed.
THEOREM IntentTypeCorrect == ASSUME I!IntentAssumption PROVE I!Spec => []I!TypeOK
<1>1. IntentInv => I!TypeOK
  BY DEF IntentInv
<1> QED
  BY <1>1, IntentInvariant, PTL

\* An idempotency key has one payment, for any callers, tenants and attempts.
THEOREM OnePaymentPerKey == ASSUME I!IntentAssumption PROVE I!Spec => []I!OnePerKey
<1>1. IntentInv => I!OnePerKey
  BY DEF IntentInv
<1> QED
  BY <1>1, IntentInvariant, PTL

\* Whoever is answered is answered with a payment of its own key and tenant, into a
\* wallet of that tenant.
THEOREM AnswersAreOwn == ASSUME I!IntentAssumption PROVE I!Spec => []I!AnsweredWithOwn
<1>1. IntentInv => I!AnsweredWithOwn
  BY DEF IntentInv
<1> QED
  BY <1>1, IntentInvariant, PTL

\* A caller loses the race for its key at most once, however often it is retried.
THEOREM RaceIsLostOnce == ASSUME I!IntentAssumption PROVE I!Spec => []I!LosesOnce
<1>1. IntentInv => I!LosesOnce
  BY DEF IntentInv
<1> QED
  BY <1>1, IntentInvariant, PTL

-----------------------------------------------------------------------------

\* The connections that somebody pays for: they and the timers share the bound.
Busy == {d \in Connections : conn[d] # "free"}
WithinBound == timers + Cardinality(Busy) <= MaxConnects

ListenerInv == L!TypeOK /\ WithinBound /\ L!NeverDeaf /\ L!QueuedOnce

\* Cardinality is the same operator in BlockchainListener.
LEMMA SameCardinality == \A S : L!Cardinality(S) = Cardinality(S)
  BY DEF L!Cardinality, Cardinality

LEMMA FiniteConnections == IsFiniteSet(Connections) /\ MaxConnects \in Nat \ {0}
  BY DepositsAssumption DEF L!ListenerAssumption, L!IsFiniteSet, IsFiniteSet

\* A connection that begins or ends changes their number by one.
LEMMA BusyGrows ==
  ASSUME L!TypeOK, NEW c \in Connections, conn[c] = "free",
         NEW state \in {"connecting", "live"}, conn' = [conn EXCEPT ![c] = state]
  PROVE  Cardinality(Busy') = Cardinality(Busy) + 1 /\ Cardinality(Busy) \in Nat
<1>1. IsFiniteSet(Busy)
  BY FiniteConnections, FS_Subset DEF Busy
<1>2. Busy' = Busy \cup {c} /\ c \notin Busy
  BY DEF Busy, L!TypeOK
<1> QED
  BY <1>1, <1>2, FS_AddElement, FS_CardinalityType

LEMMA BusyShrinks ==
  ASSUME L!TypeOK, NEW c \in Connections, conn[c] # "free", conn' = [conn EXCEPT ![c] = "free"]
  PROVE  Cardinality(Busy') = Cardinality(Busy) - 1 /\ Cardinality(Busy') \in Nat
         /\ Cardinality(Busy) \in Nat
<1>1. IsFiniteSet(Busy)
  BY FiniteConnections, FS_Subset DEF Busy
<1>2. Busy' = Busy \ {c} /\ c \in Busy
  BY DEF Busy, L!TypeOK
<1> QED
  BY <1>1, <1>2, FS_RemoveElement, FS_CardinalityType

LEMMA ListenerInit == L!Init => ListenerInv
<1> SUFFICES ASSUME L!Init PROVE ListenerInv
  OBVIOUS
<1>1. PICK c \in Connections : conn = [d \in Connections |-> IF d = c THEN "connecting" ELSE "free"]
  BY DEF L!Init
<1>2. Busy = {c}
  BY <1>1 DEF Busy
<1>3. Cardinality(Busy) = 1
  BY <1>2, FS_Singleton
<1>4. L!TypeOK
  BY <1>1, FiniteConnections DEF L!Init, L!TypeOK
<1>5. WithinBound
  BY <1>3, FiniteConnections DEF WithinBound, L!Init
<1>6. L!NeverDeaf /\ L!QueuedOnce
  BY <1>1 DEF L!NeverDeaf, L!QueuedOnce, L!Init
<1> QED
  BY <1>4, <1>5, <1>6 DEF ListenerInv

\* A reconnect drops whatever is in the maps, and adds a timer.
LEMMA Reconnecting ==
  ASSUME L!TypeOK, NEW sockets \in [Connections -> {"open", "broken", "closed"}],
         L!ScheduleReconnect(sockets)
  PROVE  /\ socket' \in [Connections -> {"open", "broken", "closed"}]
         /\ hears' \in [Connections -> BOOLEAN]
         /\ current' = NoConnection
         /\ timers' = timers + 1 /\ timers \in Nat
<1>1. socket' \in [Connections -> {"open", "broken", "closed"}]
  BY DEF L!ScheduleReconnect, L!DropCurrent
<1>2. hears' \in [Connections -> BOOLEAN]
  BY DEF L!ScheduleReconnect, L!DropCurrent
<1>3. current' = NoConnection /\ timers' = timers + 1 /\ timers \in Nat
  BY FiniteConnections DEF L!ScheduleReconnect, L!DropCurrent, L!TypeOK
<1> QED
  BY <1>1, <1>2, <1>3

\* The steps that go through scheduleReconnect keep the invariant: the timer it sets
\* is what makes up for the listener it drops.
LEMMA ReconnectStep ==
  ASSUME ListenerInv, NEW c \in Connections,
         L!ConnectFails(c) \/ L!SocketError(c) \/ L!SocketClose(c)
  PROVE  ListenerInv'
<1> USE DEF ListenerInv
<1>0. NoConnection \in Connections \cup {NoConnection} /\ MaxConnects \in Nat
  BY FiniteConnections
<1>1. CASE L!ConnectFails(c)
  <2>1. conn' = [conn EXCEPT ![c] = "free"] /\ conn[c] # "free" /\ L!ScheduleReconnect(socket)
        /\ UNCHANGED <<mined, arriving, jobs>>
    BY <1>1 DEF L!ConnectFails, L!chainVars
  <2>2. Cardinality(Busy') = Cardinality(Busy) - 1 /\ Cardinality(Busy') \in Nat
        /\ Cardinality(Busy) \in Nat
    BY <2>1, BusyShrinks
  <2>3. socket \in [Connections -> {"open", "broken", "closed"}]
    BY DEF L!TypeOK
  <2>4. /\ socket' \in [Connections -> {"open", "broken", "closed"}]
        /\ hears' \in [Connections -> BOOLEAN] /\ current' = NoConnection
        /\ timers' = timers + 1 /\ timers \in Nat
    BY <2>1, <2>3, Reconnecting
  <2>5. timers' + Cardinality(Busy') <= MaxConnects /\ timers' \in 1 .. MaxConnects
    BY <1>0, <2>2, <2>4 DEF WithinBound
  <2>6. conn' \in [Connections -> {"free", "connecting", "live"}]
    BY <2>1 DEF L!TypeOK
  <2>7. L!TypeOK' /\ L!QueuedOnce'
    BY <2>1, <2>4, <2>5, <2>6, <1>0 DEF L!TypeOK, L!QueuedOnce
  <2> QED
    BY <2>5, <2>7, <1>0 DEF WithinBound, L!NeverDeaf
<1>2. CASE L!SocketError(c)
  <2> DEFINE sockets == [socket EXCEPT ![c] = "broken"]
  <2>1. UNCHANGED <<conn, mined, arriving, jobs>> /\ L!ScheduleReconnect(sockets)
        /\ timers + Cardinality(Busy) < MaxConnects
    BY <1>2, SameCardinality DEF L!SocketError, L!chainVars, Busy
  <2>2. Cardinality(Busy) \in Nat /\ Busy' = Busy
    <3>1. IsFiniteSet(Busy)
      BY FiniteConnections, FS_Subset DEF Busy
    <3> QED
      BY <2>1, <3>1, FS_CardinalityType DEF Busy
  <2>3. sockets \in [Connections -> {"open", "broken", "closed"}]
    BY DEF L!TypeOK
  <2>4. /\ socket' \in [Connections -> {"open", "broken", "closed"}]
        /\ hears' \in [Connections -> BOOLEAN] /\ current' = NoConnection
        /\ timers' = timers + 1 /\ timers \in Nat
    BY <2>1, <2>3, Reconnecting
  <2>5. timers' + Cardinality(Busy') <= MaxConnects /\ timers' \in 1 .. MaxConnects
    BY <1>0, <2>1, <2>2, <2>4
  <2> QED
    BY <2>1, <2>4, <2>5 DEF L!TypeOK, WithinBound, L!NeverDeaf, L!QueuedOnce
<1>3. CASE L!SocketClose(c)
  <2> DEFINE sockets == [socket EXCEPT ![c] = "closed"]
  <2>1. conn' = [conn EXCEPT ![c] = "free"] /\ conn[c] # "free" /\ L!ScheduleReconnect(sockets)
        /\ arriving' = [l \in Logs |-> arriving[l] \ {c}] /\ UNCHANGED <<mined, jobs>>
    BY <1>3 DEF L!SocketClose
  <2>2. Cardinality(Busy') = Cardinality(Busy) - 1 /\ Cardinality(Busy') \in Nat
        /\ Cardinality(Busy) \in Nat
    BY <2>1, BusyShrinks
  <2>3. sockets \in [Connections -> {"open", "broken", "closed"}]
    BY DEF L!TypeOK
  <2>4. /\ socket' \in [Connections -> {"open", "broken", "closed"}]
        /\ hears' \in [Connections -> BOOLEAN] /\ current' = NoConnection
        /\ timers' = timers + 1 /\ timers \in Nat
    BY <2>1, <2>3, Reconnecting
  <2>5. timers' + Cardinality(Busy') <= MaxConnects /\ timers' \in 1 .. MaxConnects
    BY <1>0, <2>2, <2>4 DEF WithinBound
  <2>6. /\ arriving' \in [Logs -> SUBSET Connections]
        /\ conn' \in [Connections -> {"free", "connecting", "live"}]
    BY <2>1 DEF L!TypeOK
  <2>7. L!TypeOK' /\ L!QueuedOnce'
    BY <2>1, <2>4, <2>5, <2>6, <1>0 DEF L!TypeOK, L!QueuedOnce
  <2> QED
    BY <2>5, <2>7, <1>0 DEF WithinBound, L!NeverDeaf
<1> QED
  BY <1>1, <1>2, <1>3

\* A timer that fires becomes a connection that is being made, and that one a
\* listener of an open socket.
LEMMA ConnectStep ==
  ASSUME ListenerInv, NEW c \in Connections, L!TimerFires(c) \/ L!Connected(c)
  PROVE  ListenerInv'
<1> USE DEF ListenerInv
<1>1. CASE L!TimerFires(c)
  <2>1. Cardinality(Busy') = Cardinality(Busy) + 1 /\ Cardinality(Busy) \in Nat
    BY <1>1, BusyGrows DEF L!TimerFires
  <2>2. timers \in Nat /\ timers > 0 /\ timers' = timers - 1 /\ MaxConnects \in Nat
    BY <1>1, FiniteConnections DEF L!TimerFires, L!TypeOK
  <2>3. timers' + Cardinality(Busy') <= MaxConnects /\ timers' \in 0 .. MaxConnects
    BY <2>1, <2>2 DEF WithinBound
  <2>4. conn'[c] = "connecting"
    BY <1>1 DEF L!TimerFires, L!TypeOK
  <2> QED
    BY <1>1, <2>3, <2>4
    DEF L!TimerFires, L!chainVars, L!TypeOK, WithinBound, L!NeverDeaf, L!QueuedOnce
<1>2. CASE L!Connected(c)
  <2>1. Busy' = Busy
    BY <1>2 DEF L!Connected, Busy, L!TypeOK
  <2>2. hears'[c] /\ socket'[c] = "open"
    BY <1>2 DEF L!Connected, L!TypeOK
  <2> QED
    BY <1>2, <2>1, <2>2
    DEF L!Connected, L!chainVars, L!TypeOK, WithinBound, L!NeverDeaf, L!Listening, L!QueuedOnce
<1> QED
  BY <1>1, <1>2

\* A log that is mined or heard leaves the connections alone, and is queued once.
LEMMA LogStep ==
  ASSUME ListenerInv, NEW l \in Logs,
         L!Mine(l) \/ \E c \in Connections : L!HandleTransferEvent(c, l)
  PROVE  ListenerInv'
<1>1. UNCHANGED <<conn, socket, hears, current, timers>>
  BY DEF L!Mine, L!HandleTransferEvent
<1>2. Busy' = Busy
  BY <1>1 DEF Busy
<1>3. mined' \subseteq Logs /\ arriving' \in [Logs -> SUBSET Connections]
  BY DEF L!Mine, L!HandleTransferEvent, ListenerInv, L!TypeOK
<1>4. jobs' \in [Logs -> Nat] /\ L!QueuedOnce'
  BY DEF L!Mine, L!HandleTransferEvent, L!AddTransferJob, ListenerInv, L!TypeOK, L!QueuedOnce
<1> QED
  BY <1>1, <1>2, <1>3, <1>4 DEF ListenerInv, L!TypeOK, WithinBound, L!NeverDeaf, L!Listening

LEMMA ListenerStep == ListenerInv /\ [L!Next]_(L!vars) => ListenerInv'
<1> SUFFICES ASSUME ListenerInv, [L!Next]_(L!vars) PROVE ListenerInv'
  OBVIOUS
<1>1. CASE L!Next
  BY <1>1, ReconnectStep, ConnectStep, LogStep DEF L!Next
<1>2. CASE UNCHANGED L!vars
  BY <1>2 DEF L!vars, ListenerInv, L!TypeOK, WithinBound, Busy, L!NeverDeaf, L!Listening,
              L!QueuedOnce
<1> QED
  BY <1>1, <1>2

\* The inductive invariant of the listener: connections and timers stay within the
\* bound together, so that there is always room for the next timer.
THEOREM ListenerInvariant == L!Spec => []ListenerInv
<1> QED
  BY ListenerInit, ListenerStep, PTL DEF L!Spec

-----------------------------------------------------------------------------

\* A behaviour of Deposits is one of each part: the parts that are not at work stutter.
LEMMA PartsInit == DepositsInit => Init /\ I!Init /\ L!Init
  BY DEF DepositsInit

LEMMA PartsStep ==
  [DepositsNext]_depositVars => [Next]_vars /\ [I!Next]_(I!vars) /\ [L!Next]_(L!vars)
  BY DEF DepositsNext, LedgerPart, IntentPart, ListenerPart, depositVars, vars, intentVars,
         listenerVars, I!vars, L!vars

\* A behaviour of Deposits is one of each of its parts.
THEOREM DepositsParts == DepositsSpec => Spec /\ I!Spec /\ L!Spec
  BY PartsInit, PartsStep, PTL DEF DepositsSpec, Spec, I!Spec, L!Spec

\* The three parts keep their types.
THEOREM DepositsTypeCorrect == DepositsSpec => []DepositsTypeOK
<1>0. I!IntentAssumption
  BY DepositsAssumption
<1>1. TypeOK /\ I!TypeOK /\ ListenerInv => DepositsTypeOK
  BY DEF ListenerInv, DepositsTypeOK
<1> QED
  BY <1>0, <1>1, DepositsParts, LedgerTypeCorrect, IntentTypeCorrect, ListenerInvariant, PTL

\* The fees of a book never exceed the rate of what it has taken in.
THEOREM DepositFeesWithinRate == DepositsSpec => []FeesWithinRate
  BY DepositsParts, FeesStayWithinRate, PTL

\* The balances are what the entries come to, whoever else is at work.
THEOREM DepositBalancesMatch == DepositsSpec => []BalancesMatchEntries
  BY DepositsParts, BalancesAreOfEntries, PTL

\* createPaymentIntent makes one payment for a key, whoever else is at work.
THEOREM DepositsOnePerKey == DepositsSpec => []OnePerKey
<1>0. I!IntentAssumption
  BY DepositsAssumption
<1>1. I!OnePerKey => OnePerKey
  BY DEF OnePerKey
<1> QED
  BY <1>0, <1>1, DepositsParts, OnePaymentPerKey, PTL

\* It answers each caller with a payment of its own, and no caller loses twice.
THEOREM DepositsAnswerOwn == DepositsSpec => []AnsweredWithOwn
<1>0. I!IntentAssumption
  BY DepositsAssumption
<1>1. I!AnsweredWithOwn /\ I!LosesOnce => AnsweredWithOwn
  BY DEF AnsweredWithOwn
<1> QED
  BY <1>0, <1>1, DepositsParts, AnswersAreOwn, RaceIsLostOnce, PTL

\* The listener is never deaf for good, and queues a log once.
THEOREM DepositsHearOnce == DepositsSpec => []HearsOnce
<1>1. ListenerInv => HearsOnce
  BY DEF ListenerInv, HearsOnce
<1> QED
  BY <1>1, DepositsParts, ListenerInvariant, PTL
=============================================================================
