SPECIFICATION Spec
CONSTANTS
  w1 = w1
  w2 = w2
  d1 = d1
  d2 = d2
  h1 = h1
  h2 = h2
  NoHash = NoHash
  None = None
  Worker <- OneWorker
  Tx <- Tx3
  Doc = {d1}
  DocHash = {h1, h2}
  Country = {"BY", "RU"}
  Foreign = {"XX"}
  Offered <- AllOps
  ParentArgs <- Tipped
  FaultyIO = FALSE
  Restarts = TRUE
  MaxTime = 2
  MaxGen = 1
INVARIANT TypeOK
INVARIANT QuietIsSound
INVARIANT AnsweredOnDisk
INVARIANT ForgeryNeverSaved
INVARIANT ResetIsFinal
PROPERTY FileNeverShrinks
