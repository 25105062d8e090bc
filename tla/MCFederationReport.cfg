SPECIFICATION FairReportSpec
CONSTANTS
  None = None
  s1 = s1
  s2 = s2
  j1 = j1
  Server = {s1, s2}
  Jid = {j1}
  Copies = 2
  Consoles = {s1}
  Unstable = {s1}
  MaxChanges = 1
  MaxRestarts = 1
  MaxFailures = 1
INVARIANTS
  TypeOK
  RoutesExported
PROPERTIES
  ServerJoins
