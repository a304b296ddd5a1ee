SPECIFICATION Spec
CONSTANTS
  w1 = w1
  w2 = w2
  d1 = d1
  d2 = d2
  h1 = h1
  h2 = h2
  NoHash = NoHash
  None = None
  Worker <- TwoWorkers
  Tx <- Tx3
  Doc = {d1}
  DocHash = {h1}
  Country = {"BY", "RU"}
  Foreign = {}
  Offered <- Appending
  ParentArgs <- Named
  FaultyIO = TRUE
  Restarts = TRUE
  MaxTime = 2
  MaxGen = 1
SYMMETRY AnyWorker
INVARIANT JournalVoted
INVARIANT RevokeByIssuer
INVARIANT LastRevokeWins
