SPECIFICATION FairSpec
CONSTANTS
  w1 = w1
  w2 = w2
  d1 = d1
  d2 = d2
  h1 = h1
  h2 = h2
  NoHash = NoHash
  None = None
  Worker <- TwoWorkers
  Tx <- Tx2
  Doc = {d1}
  DocHash = {h1}
  Country = {"BY"}
  Foreign = {}
  Offered <- AllOps
  ParentArgs <- Tipped
  FaultyIO = FALSE
  Restarts = TRUE
  MaxTime = 1
  MaxGen = 1
PROPERTY JournalsConverge
