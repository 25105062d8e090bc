SPECIFICATION RelaySpec
CONSTANTS
  None = None
  s1 = s1
  s2 = s2
  s3 = s3
  t1 = t1
  t2 = t2
  t3 = t3
  c1 = c1
  c2 = c2
  c3 = c3
  u1 = u1
  u2 = u2
  r1 = r1
  r2 = r2
  m1 = m1
  m2 = m2
  Server = {s1, s2, s3}
  Thread = {t1, t2, t3}
  Conn = {c1, c2, c3}
  User = {u1, u2}
  Resource = {r1, r2}
  Extends <- Prefixed
  Msg = {m1}
  Client <- ThreeServers
  Roster <- Friendly
  Targets <- FullJidOfU2
  Faulty = {s3}
  Senders = {c1}
CHECK_DEADLOCK FALSE
INVARIANTS
  FullJidOnce
