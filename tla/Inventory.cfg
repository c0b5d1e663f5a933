SPECIFICATION Spec
CONSTANTS
  s1 = s1
  s2 = s2
  a1 = a1
  a2 = a2
  Sessions = {s1, s2}
  Agents = {a1, a2}
  AgentOf <- OneEach
  Idx = {1, 2}
  Chunks = 2
  Folders = {f1}
  Transactions = {x1}
  Commands = {"wearables", "create", "update", "create_folder", "fetch_descendents", "update_wearables", "get_asset", "upload"}
  Cut = {"upload"}
  MaxRequests = 2
  MaxAssets = 1
  MaxRestarts = 1
SYMMETRY Interchangeable
INVARIANTS TreeSound BuffersCounted ToldItemsExist AnswersNotLost
PROPERTY ItemsKeepAssets
CHECK_DEADLOCK FALSE
