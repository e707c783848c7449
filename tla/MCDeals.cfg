\* A deal won twice and another one, two attempts each;
\* two requests on one deal; an event and two workflows.
SPECIFICATION MCDealsSpec
CONSTANTS
  d1 = d1  d2 = d2  w1 = w1  w2 = w2  w3 = w3
  NoWin = NoWin
  Deals = {d1, d2}
  Wins = {w1, w2, w3}
  DealOf <- WonAgain
  MaxTries = 2
  r1 = r1  r2 = r2  open = open  won1 = won1  shut = shut
  Requests = {r1, r2}
  Stages = {open, won1, shut}  WonStages = {won1}  LostStages = {shut}
  Values = {5}  Overrides = {"ON_HOLD"}
  NoDeal = NoDeal  NoStage = NoStage  NoJob = NoJob
  key = key  tenant = tenant  wallet = wallet
  Wallets = {wallet}  AllWallets = {wallet}  Keys = {key}  Tenants = {tenant}
  OwnerOf <- Owner
  KeyOf <- DealsKey
  TenantOf <- DealsTenant
  WalletOf <- DealsWallet
  IntentAttempts = 2  NoPayment = NoPayment
  ev1 = ev1  wf1 = wf1  wf2 = wf2
  Events = {ev1}  Workflows = {wf1, wf2}
  ActionsOf <- Actions
  EventAttempts = 2  NoWorkflow = NoWorkflow
INVARIANTS DealsTypeOK ConfirmedIsOnChain ClosesInOrder WorkflowsRun
PROPERTIES CompletesOnChain DealsEnd
CHECK_DEADLOCK FALSE
