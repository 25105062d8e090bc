SPECIFICATION FairRelaySpec
CONSTANTS
  None = None
  s1 = s1
  s2 = s2
  s3 = s3
  t1 = t1
  t2 = t2
  t3 = t3
  c1 = c1
  c2 = c2
  c3 = c3
  u1 = u1
  u2 = u2
  r1 = r1
  r2 = r2
  m1 = m1
  m2 = m2
  Server = {s1, s2}
  Thread = {t1, t2}
  Conn = {c1, c2}
  User = {u1, u2}
  Resource = {r1}
  Extends <- Unprefixed
  Msg = {m1, m2}
  Client <- OneEach
  Roster <- Friendly
  Targets <- AnyJid
  Faulty = {}
  Senders = {c1, c2}
CHECK_DEADLOCK FALSE
PROPERTIES
  HandlersReturn
