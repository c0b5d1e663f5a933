SPECIFICATION Spec
CONSTANTS
  None = None
  a1 = a1  a2 = a2  r1 = r1  r2 = r2
  s1 = s1  s2 = s2  s3 = s3
  Agent = {a1, a2}
  Remote = {r1, r2}
  Session = {s1, s2, s3}
  AgentOf <- TwiceLoggedIn
  RemotesOf <- SharedAddresses
  MaxInFlight = 2
  MaxRestarts = 0
  MaxDups = 1
  CanCrash = FALSE
  MaxIds = 2
PROPERTY OnlyOwnLogout
CHECK_DEADLOCK FALSE
