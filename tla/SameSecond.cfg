SPECIFICATION Spec
CONSTANTS
  w1 = w1
  w2 = w2
  d1 = d1
  d2 = d2
  h1 = h1
  h2 = h2
  NoHash = NoHash
  None = None
  Worker <- OneWorker
  Tx <- Tx3
  Doc = {d1}
  DocHash = {h1}
  Country = {"BY", "RU"}
  Foreign = {}
  Offered <- Appending
  ParentArgs <- Tipped
  FaultyIO = FALSE
  Restarts = FALSE
  MaxTime = 1
  MaxGen = 1
INVARIANT RevokeByFirstIssuer
