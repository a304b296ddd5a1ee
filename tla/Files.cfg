CONSTANTS
  Worker = {w1, w2}
  FaultyIO = TRUE
  Limit = 3
  Keep = 2
  MaxSteps = 2
  MaxLogged = 3
  Document = {d1, d2}
  p1 = p1
  h1 = h1
  h2 = h2
  Payload = {p1}
  Digest = {h1, h2}
  HashOf <- MCHashOf
  Absent = Absent
  Sent <- MCSent
  MaxTx = 3
  MaxBeside = 2
  MaxKeys = 4
  NoFile = NoFile
  Ident = {1, 2, 3, 4}
  ParentSets <- MCParentSets
  LeafId = {1, 2, 3, 4, 5, 6}
SPECIFICATION FilesSpec
INVARIANT LogsTypeOK
INVARIANT LogBounded
INVARIANT NewestKept
INVARIANT LogFileFollows
INVARIANT OwnSteps
INVARIANT RegistryTypeOK
INVARIANT RegistryIsView
INVARIANT PayloadsMatch
INVARIANT EntryNamesTx
INVARIANT KeysTypeOK
INVARIANT KeysAgree
INVARIANT KeyFileWhole
INVARIANT SoundFileLoads
INVARIANT AncestryKept
INVARIANT HashesFit
INVARIANT MigratedOnce
INVARIANT RootNamesSet
