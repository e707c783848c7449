\* Two payments of one wallet, a transfer for each, one of them short of p1.
SPECIFICATION Spec
CONSTANTS
  p1 = p1  p2 = p2  t1 = t1  t2 = t2  x1 = x1  x2 = x2  a1 = a1  ta = ta
  NoPayment = NoPayment
  NoTx = NoTx
  Payments = {p1, p2}
  Transfers = {t1, t2}
  Txs = {x1, x2}
  Tenants = {ta}
  TenantOf <- AllOfTa
  WorkerSees = {ta}
  Addresses = {a1}
  AddressOf <- SharedAddress
  ToAddress <- PaidToShared
  TxOf <- OwnTx
  AmountDue <- Due
  AmountRaw <- SecondShort
  Refunders = {}
  MaxEventTries = 2
  MaxConfirmTries = 1
  Sweeps = FALSE
  Reorgs = {x1}
INVARIANTS TypeOK CreditBacked TxHashUnique DetectionLogged
PROPERTIES TxHashChangesOnlyByDetection
CHECK_DEADLOCK FALSE
