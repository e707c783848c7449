\* The refresh call carries no refresh token.
SPECIFICATION QueuesSpec
CONSTANTS
  t1 = t1  e1 = e1  m1 = m1
  Sent = {t1, e1, m1}  Texts = {t1}  Templated = {e1}  MaxMessages = 2
  h1 = h1  h2 = h2  j1 = j1  j2 = j2  A = A  B = B  NoTenant = NoTenant  Test = Test
  Posts = {j1, j2}  Hooks = {h1, h2}
  OwnerOf <- HookOwner
  TenantOf <- PostTenant
  n1 = n1  q1 = q1  q2 = q2  NoCounter = NoCounter
  Notices = {n1}  Requests = {q1, q2}
  u1 = u1  u2 = u2  d1 = d1  NoJob = NoJob  Nothing = Nothing  ColumnsMatch = TRUE
  Embeds = {u1, u2, d1}  Deletion = d1
  p1 = p1  p2 = p2  p3 = p3  NoToken = NoToken  SendsRefresh = FALSE
  Calls = {p1, p2, p3}  MaxTokens = 2
  SendAttempts = 2  PostAttempts = 2  NoticeAttempts = 2  EmbedAttempts = 2
INVARIANTS KeepsSession
CHECK_DEADLOCK FALSE
