SPECIFICATION Spec
CONSTANTS
  None = None
  a1 = a1  a2 = a2  r1 = r1  r2 = r2
  s1 = s1  s2 = s2  s3 = s3
  Agent = {a1, a2}
  Remote = {r1, r2}
  Session = {s1, s2}
  AgentOf <- OneEach
  RemotesOf <- SharedByNat
  MaxInFlight = 2
  MaxRestarts = 2
  MaxDups = 0
  CanCrash = TRUE
  MaxIds = 3
INVARIANTS IndexesSound LocalIdsDistinct SceneResolvable
PROPERTY EndsAtItsAddress
CHECK_DEADLOCK FALSE
