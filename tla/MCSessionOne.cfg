SPECIFICATION FairSpec
CONSTANTS
  None = None
  s1 = s1
  s2 = s2
  s3 = s3
  t1 = t1
  t2 = t2
  t3 = t3
  c1 = c1
  c2 = c2
  c3 = c3
  u1 = u1
  u2 = u2
  r1 = r1
  r2 = r2
  m1 = m1
  m2 = m2
  Server = {s1}
  Thread = {t1}
  Conn = {c1, c2, c3}
  User = {u1, u2}
  Resource = {r1, r2}
  Extends <- Prefixed
  Msg = {m1}
  Client <- OneServer
  Roster <- Friendly
  Targets <- OneOfEach
  Faulty = {}
  Senders = {c1}
CHECK_DEADLOCK FALSE
INVARIANTS
  TypeOK
  ServedOrPurged
  FailureReported
  CascadeBounded
PROPERTIES
  NoWriteAfterRemoval
  HandlersReturn
  Delivered
