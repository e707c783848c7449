\* A poll that finds too few confirmations is the last one.
SPECIFICATION FairSpec
CONSTANTS
  p1 = p1  p2 = p2  t1 = t1  t2 = t2  x1 = x1  x2 = x2  a1 = a1  ta = ta
  NoPayment = NoPayment
  NoTx = NoTx
  Payments = {p1}
  Transfers = {t1}
  Txs = {x1}
  Tenants = {ta}
  TenantOf <- AllOfTa
  WorkerSees = {ta}
  Addresses = {a1}
  AddressOf <- SharedAddress
  ToAddress <- PaidToShared
  TxOf <- OwnTx
  AmountDue <- Due
  AmountRaw <- SecondShort
  Refunders = {}
  MaxEventTries = 1
  MaxConfirmTries = 1
  Sweeps = FALSE
  Reorgs = {}
PROPERTIES PolledToTheEnd
CHECK_DEADLOCK FALSE
