\* Five requests of one user's sessions; three subscriptions and a call, three
\* events; two provisionings and three withdrawals; five calls on a lead, and workflows;
\* three that write the default flag and one that deletes a pipeline; two reorderings
\* of three stages; three calls on the caches; a team of two; two buttons of a page.
SPECIFICATION MCDeskSpec
CONSTANTS
  l1 = l1  r1 = r1  r2 = r2  o1 = o1  x1 = x1
  s1 = s1  s2 = s2  y1 = y1  pro = pro  max = max  special = special  c1 = c1  None = None
  p1 = p1  p2 = p2  w1 = w1  w2 = w2  w3 = w3  key = key  other = other  Unread = Unread
  up1 = up1  mail = mail  mail2 = mail2  as1 = as1  as2 = as2  cv1 = cv1  cv2 = cv2  ann = ann  Nobody = Nobody
  n1 = n1  n2 = n2  set1 = set1  set2 = set2  set3 = set3  del1 = del1  ord1 = ord1  ord2 = ord2
  x = x  y = y  z = z  Unlocked = Unlocked
  q1 = q1  q2 = q2  q3 = q3  Absent = Absent  adm = adm  new = new
  b1 = b1  b2 = b2  Unloaded = Unloaded  NoLoad = NoLoad  Requested = Requested
  SessionRequests = {l1, r1, r2, o1, x1}  SessionKind <- KindOfSession
  AccessLife = 2  RefreshLife = 2  MaxSecond = 1  MaxPassword = 2
  StripeSubs = {s1, s2}  PayPalSubs = {y1}  Tagged = {s1}  Plans = {pro, max}  Pro = pro
  OtherPrice = special  PriceOf <- PriceOfSub  PlanCalls = {c1}  MaxEvents = 3  MaxIntents = 1
  Provisions = {p1, p2}  Withdrawals = {w1, w2, w3}  PayoutKeys = {key, other}
  PayoutKeyOf <- KeyOfPayout  Asked <- AskedFor  Deposits = {60}  MaxFunds = 60  USDC = 100
  Updates = {up1}  Assigns = {as1, as2}  Converts = {cv1, cv2}  ChangeOf <- ChangeOfUpdate
  AssigneeOf <- UserOfAssign  Users = {ann}  WithDeal = {cv1}
  Emails = {mail, mail2}  FirstEmail = mail  RuleStatuses = {"CONVERTED"}
  Pipes = {n1, n2}  Setters = {set1, set2, set3}  Plain = {set3}  PipeOf <- PipeOfSetter
  Deleters = {del1}  DeletedBy <- PipeOfDeleter
  Reorders = {ord1, ord2}  ListOf <- ListOfReorder  PipelineStages = {x, y, z}
  MaxPlace = 1
  Questions = {q1, q2, q3}  Mixes <- MixesOfThree  Life <- LifeOfKey
  Patience = 1  MaxAge = 6  MaxVersion = 2
  People = {adm, new}  LowerCase = {adm, new}  AtFirst <- RoleAtFirst
  Given = {"VIEWER", "SALES_REP"}  MaxWait = 1
  PageStories <- Chosen  Slots = {b1, b2}  MaxPressed = 2
INVARIANTS
  DeskTypeOK LoggedOutStaysOut PlanIsPaidFor PaidOnceAsAsked LeadsConvertWhole PipelinesInOrder
  InsightsAreRight TeamsKeepRank PagesKeepUp
PROPERTIES EndedStaysEnded
CHECK_DEADLOCK FALSE
