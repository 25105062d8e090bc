SPECIFICATION FairSpec
CONSTANTS
  None = None
  s1 = s1
  s2 = s2
  j1 = j1
  Server = {s1, s2}
  Jid = {j1}
  Copies = 2
  Consoles = {}
  Unstable = {s1}
  MaxChanges = 0
  MaxRestarts = 1
  MaxFailures = 0
PROPERTIES
  ServerJoins
  CrashedPruned
