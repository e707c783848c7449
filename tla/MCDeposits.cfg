\* Three settlements over two books, with provisioning and faults; four callers
\* of payment intents; three connections that hear two logs.
SPECIFICATION MCDepositsSpec
CONSTANTS
  b1 = b1  b2 = b2
  Books = {b1, b2}
  Settlements = {1, 2, 3}
  BookOf <- Books2
  Amount <- Amounts3
  k1 = k1  k2 = k2  ta = ta  tb = tb  wa = wa  wb = wb
  c1 = c1  c2 = c2  c3 = c3  c4 = c4
  Keys = {k1, k2}  Tenants = {ta, tb}  Wallets = {wa, wb}  Callers = {c1, c2, c3, c4}
  OwnerOf <- Owners2
  KeyOf <- Keys4
  TenantOf <- Tenants4
  WalletOf <- Wallets4
  Jobs = {c1, c2, c3}  MaxTries = 3  NoPayment = NoPayment
  n1 = n1  n2 = n2  n3 = n3
  Connections = {n1, n2, n3}  NoConnection = NoConnection
  Logs = {"l1", "l2"}  MaxConnects = 3
INVARIANTS
  DepositsTypeOK FeesWithinRate BalancesMatchEntries
  OnePerKey AnsweredWithOwn HearsOnce
PROPERTIES DepositsEnd
CHECK_DEADLOCK FALSE
