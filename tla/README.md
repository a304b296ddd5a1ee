# BBSI: a verification model of the journal and its files

BBSI is a small server that keeps a journal of documents that countries issue
and revoke. The journal is a graph of signed transactions ("hashchain"): each
node names its parents, carries an ECDSA signature of its country and a hash
over its content and its parents' hashes. The journal lives in memory behind a
mutex and in `nodes.json`; every HTTP request runs in a goroutine of its own.

The modules here describe what the Go code under `src/` does and TLC and TLAPS
check what it promises. Line numbers below are those of the files under
`src/internal/` unless a longer path is given.

## Inventory

| Part | State | Operations | Talks to |
|---|---|---|---|
| Journal store `dag/store.go` | `nodes`, `gossip`, `keys`, `opLog`; mutexes `mu`, `opMu` | `AddIssue`, `AddRevoke`, `ValidateAll`, `VerifyLookup`, three simulated attacks, `ResetChainAndLogs` | keys (sign, verify), gossip (under `mu`), database |
| Journal file `dag/persistence.go`, `db/db.go` | `nodes.json`, `logs.json`; mutex `Database.mu` | `persistGraph`, `ReloadChainFromDisk`, load at start, `sanitizePersistedGraph` | store |
| Graph and vote `dag/node.go`, `consensus/gossip.go` | events and votes, guarded by `Store.mu` | `LogGossip`, `RunVirtualVote`, `ComputeNodeHash` | store |
| Keys `crypto/keys.go`, `crypto/persist.go` | one key pair per country, `authority_keys.json` | sign, verify, load or create, regenerate | store, reset handler |
| HTTP handlers `api/server.go` | attack log `attackBuf`, mutex | issue, revoke, verify, validate, reset, three attacks, read-only views | everything |
| Registry `db/documents.go` | `documents.json` | upsert, update of the last action | handlers, after the journal |
| Hashing `crypto/hash.go`, `canonical.go`, `jsoncanon.go` | none | canonical JSON, SHA-256, Merkle root | node hash, signatures |
| Start `src/cmd/bbsi/main.go` | none | load keys, load journal, serve | all |
| Web client `src/web/` | none of its own | sends the requests | handlers |

What makes it hard:

- **Concurrency.** A request is a chain of critical sections, and the locks are
  released between them: `AddRevoke` checks and then appends (store.go
  146-153); `appendTransaction` appends, then copies the graph, then writes the
  copy (store.go 175-184, persistence.go 186-204); validate and verify read the
  file and then replace the memory by it (persistence.go 223-231); the simulated
  attacks change the shared node, release the mutex, validate, and put the node
  back (store.go 731-746); a reset changes the key file, the keys and the
  journal one after another (server.go 437-451, store.go 59-78).
- **Failure.** A failed write is only logged and the client is told "ok"
  (store.go 180-182); a failed load leaves an empty journal (store.go 45-47);
  the process may stop between any two of the steps above.
- **Ordering.** Rules go by time stamps of one second and by map iteration
  order, not by the order of appends (store.go 156-173, 485-496, 698-706).

What makes each part correct: the graph is closed under parents and acyclic; the
gossip log and the votes belong to exactly these nodes; what was signed and
hashed does not change; only the issuer revokes; the file follows the memory;
what was answered survives; a simulated attack leaves no trace; a reset is
final; file and memory that drifted apart meet again. `PROJECT.json` lists the hazards at their lines, with the
properties that are about them.

## Modules

| Module | What it is |
|---|---|
| `Journal` | The journal as data: transactions, nodes, events, votes, and the pure functions the store applies under its mutex |
| `Store` | The state machine: memory, file, keys, clock, and the requests that run at once; its properties |
| `Ledger` | The abstract specification of the journal: versions of a sequence that only grows at its end |
| `MCStore` | Sets of requests and values for TLC |
| `Handlers` | What the following four have in common: workers, failing files |
| `Registry` | `documents.json` beside the journal: issue, revoke, demonstration, reset |
| `Logs` | The operation log and the attack log, their buffers and files |
| `Keys` | `authority_keys.json`, its temporary file, and the keys in use |
| `Legacy` | Loading files of the older format |
| `Merkle` | The Merkle root |
| `MCFiles` | These components on small instances, one of them per behaviour |
| `JournalProofs`, `StoreProofs` | What adding and overwriting a node preserve; the inductive invariant of `Store`, its theorems, and that `Store` implements `Ledger` |
| `StoreScopeProofs` | What `Store` keeps only within a scope: revokes, attacks, resets, the file |
| `LedgerProofs` | One history per transaction in the ledger |
| `LogsProofs`, `KeysProofs` | The logs; the key file |
| `RegistryProofs` | The entries of the registry and their transactions; the registry as a view of the journal |
| `HashingProofs` | The Merkle root; the load of older files |

The components beside the store do not read one another's state; what couples
them is the handler that calls them one after another. `Registry` therefore
carries an abstract journal (the sequence of its transactions) through the steps
of the handlers that touch both, and a reset appears in `Store`, `Registry`,
`Logs` and `Keys`, in each with the steps that change its state.

### Journal

`Graph` is `persistedGraph` (persistence.go 12-16): a map from ids to nodes, the
gossip events and the votes. The data is abstract where the rules look no
further:

- a transaction id is a positive number, and `0` the empty string; the order of
  numbers stands for the order of the strings, which breaks ties;
- a hash is the value that is hashed; a signature is the key generation and the
  body signed. The hash of a node covers its parents' hashes; those never change
  once a node exists (`JournalSealed`), so the set of parent ids stands for them;
- the hash of a document stands for the pair of document and metadata hash;
- `Doc` are the ids of documents that are not empty. The code lets an empty one
  be issued and revoked, but its lookup is refused (store.go 628-630) and the
  validation skips it when it looks for revoked documents (store.go 548): what
  `LastRevokeWins` says does not hold of it;
- lists of parents are sets.

`AddNode` is the critical section of `appendTransactionLocked` (store.go
206-237): default parents, signature, hash, node, gossip event, new vote. The
vote (`RunVirtualVote`) is the ranking by depth, time stamp and id of gossip.go
53-117; `Depth` is its recursive visit.

Where the code asks "the first one in a map", the model gives the set of possible
answers: `IssuersOf` (findIssuerForDoc), `EarliestIssues`, `LatestRevokes`.
Hence validation is described by what it *can* answer: `ValidateCanPass` and
`ValidateCanFail` are both true when issues of one second disagree.

### Store

| Variable | Code |
|---|---|
| `mem` | `Store.nodes` and `Store.gossip` |
| `disk` | the content of `nodes.json` |
| `keys`, `keyFile` | `Store.keys` and `authority_keys.json`, as the number of the regeneration they come from |
| `clock` | `time.Now().Unix()` |
| `job[w]` | the request goroutine `w` serves: its step `pc` and its local variables |
| `fate`, `verdict` | history: what the clients were told of an id, and what a validation found |

One action is what a goroutine does while it holds one lock:

| Actions | Code |
|---|---|
| `StartIssue`, `StartRevoke`, `StartDemo` | server.go 269-300, 352-371; store.go 804-821 (the demonstration draws its id and reads the clock before its check) |
| `CheckPasses`, `CheckRefuses` | `AddRevoke`, store.go 142-154 |
| `AppendAccepts`, `AppendRefuses` | `appendTransactionLocked`, store.go 186-240 |
| `TakeSnapshot`, `Write`, `WriteFails` | `persistGraph`, persistence.go 186-205; `WriteJSON`, db.go 56-68, which renames a complete file or fails |
| `StartReload`, `Replace`, `Report` | `ReloadChainFromDisk`, `replacePersistedGraph`, `ValidateAll` |
| `Forge`, `Substitute`, `Inspect`, `Restore` | store.go 711-756, 767-802 |
| `Regenerate`, `SwapKeys`, `Clear` | persist.go 65-73, store.go 59-66; then `TakeSnapshot`, `Write` |
| `Restart` | the process stops, NewStore loads the file and the keys |
| `Tick` | the clock |

`CheckPasses` and `CheckRefuses` can both be enabled: that is the map iteration
of findIssuerForDoc. A reset that stops between deleting the key file and
writing the new one is a reset that stops after writing it: in both cases the
next start has keys nobody signed with. Requests refused before they change
anything (wrong method, bad JSON, unknown node) are stuttering steps.

### Ledger

`Ledger` is what the store promises of history and nothing else: there is a
version in use, a durable one and those requests hold; a transaction that is in
no version may be added at the end of the current one; any version a request
holds may become the current or the durable one. `Store` implements it
(`ImplementsLedger`) with the gossip log of a copy of the journal as the version:
`current` is the memory, `durable` the file, `held` the copies of requests. The
simulated attacks change a node but not the log: they are stuttering steps.

### Registry

One action is again one critical section: `EnterTx` appends, `CopyChain` and
`SaveChain` are `persistGraph`, `ReadForIssue`/`ReadForRevoke` and `PutDocs` the
two halves of the update in documents.go, with the decisions between them. What
a client sends is a hash, a payload, both or neither, for the document and for
its metadata; `Applicable` and `Applied` are `applyDocumentAndMetaHashes`
(server.go 214-267). The reload of `nodes.json` and the country of the issuer are
left to `Store`.

`RegistryIsView` says when the registry is what one would derive from the
journal: as long as requests come one at a time, nothing fails and nothing is cut
short. It says no more because more is not true: two issues at once lose an
entry (both read the list before either writes it), an issue that cannot read
the list writes one with itself alone, and a demonstration of an illegal revoke
that names the true issuer is accepted without telling the registry (store.go
821, although 804 says that the chain does not change). `EntryNamesTx` and
`PayloadsMatch` hold through all of that.

### Logs

Both logs are one module: `Limit` and `Keep` are 2000/1500 and 500/400. The
operation log is added to (`report`) and emptied by a reset; the attack log is
emptied and then written step by step by a simulation. Some appends to the
operation log happen under `Store.mu`, which keeps them apart; the model lets all
of them interleave. `handleAttackLogs`, which could delete the attack log, has no
route.

### Keys

Two resets share the name of the temporary file. The model has inodes: opening
the temporary file empties the inode of that name, writing goes to the inode that
was opened, renaming moves whatever has the name. `os.Remove` is not checked, and
when saving fails afterwards the process goes on with keys that are in no file
(persist.go 67-71): `unharmed` excludes that from `KeysAgree` until a reset or a
start succeeds. `solo` excludes resets that overlap: one can cut the file the
other has just renamed.

### Legacy

A journal is here a function from the ids that are present. `Bypass` is
`resolveParentsSkippingVerify`, `Computable` and `Recomputed` are
`recomputeAllNodeHashes`; their reference is the ancestry relation of the graph in
the file. The load of a file in which verify nodes form a cycle does not return
(persistence.go 82-92); no program wrote such a file, since a node can only name
parents that exist, and `LegacyInit` leaves it out. Cycles of other nodes are
covered: such a file is refused. The gossip events of removed nodes stay in the
file and in memory; no rule of the store looks at them, so the module has none.

`Acyclic` and `Ancestry` are stated with sets of nodes. The module `Graphs` has
both notions, but as functions of two arguments, which none of the provers
takes; `GraphsAgree` in `MCFiles` has TLC compare them on all graphs of three
nodes.

### Merkle

A hash is the value hashed, so that "the same hash" is "the same tree up to the
order of each pair". `RootNamesSet` is about sets of leaves: as lists, `a, b, b`
and `a, b, b, b` have the same root. The `leaf_index` of the Merkle endpoint
counts ids, while the tree is sorted by hash; it is not the place of the leaf in
the tree. `SortedLeaves` puts a leaf in the place that the number of leaves up to
it gives, which is what sorting does to different leaves.

Operators introduced by a comment as mutants are not part of the specification:
they are plausible mistakes; put in place of the definition they name, each
makes the property that `PROJECT.json` names fail.

## Runs

The run `Files` is of `MCFiles`, all others are of `MCStore`. Bounds of the
latter: `Worker` (one or two requests at a time), `Tx` (two or three ids that
can be drawn; `RoomLeft` keeps a request from starting without one), one
document, one or two hashes and countries, `MaxTime` (1: all in one second; 2:
two different seconds), `MaxGen` (one reset). One document is enough because no
rule relates two documents except through parents, which the default tips
exercise with one. Two workers show every pair of interleaved requests; a third
would only repeat a role. Two ids make a parent and a child, three a document
that is issued by two and revoked. `AnyWorker` makes workers interchangeable
where all are offered the same requests and no liveness is checked.

Bounds of `Files`: two workers, with failing reads and writes and restarts
everywhere. Logs: limit 3, cut to 2, up to two messages per request and no new
request after three, so that buffers are cut while copies of them are under way.
Registry: two documents (one is lost when two are written at once), three
transactions in turn (`MaxTx`: issue, revoke, issue again), requests beside
others only before the second (`MaxBeside`). Keys: four generations, so two
resets that overlap and one that repairs. Legacy: every graph of four nodes, each
absent, kept or a verify node, including chains of verify nodes, missing parents
and cycles. Merkle: six leaves, so that odd layers occur at two heights.

| Run | Question | Answer |
|---|---|---|
| `Sequential` | One request at a time, every kind, with stops at any step: do file, memory and keys agree between requests, can the validation report an error, is what was answered on disk, is no attack saved, is a reset final, does only a reset shrink the file? | yes; the validation can report an error only for signatures older than a reset that was cut short and for a revoke of a document two countries issued in one second |
| `Races` | Issues, substitution attacks, reloads and resets, two at a time, with faults and restarts: is every copy closed under parents and in step with its gossip log, and do all copies agree on what was signed and hashed? | yes |
| `Revokes` | Issues and revokes, two at a time, with faults and restarts: is every revoke by a possible issuer although check and append are two steps, is a document whose last event is a revoke looked up as revoked, does each vote rank the nodes of its moment, parents first? | yes: issues are only added, with time stamps that are not smaller; within one second the revoke wins |
| `Attack` | Attacks beside validations, lookups and restarts: does the validation see the forged node, is nothing forged on disk, nothing left in memory? Are the copies of the journal versions of a ledger, with one history per transaction? | yes |
| `Converge` | Do memory and file become equal for good once requests no longer overlap, after any overlaps of any requests and any restarts? | yes, provided saves go on |
| `Files` | Logs: bounded, newest kept, file follows, own steps only? Registry: a view of the journal, digests of their payloads, entries of their transactions? Keys: memory and file agree, no half-written key file? Older files: sound ones load, ancestry kept, hashes fit, migrated once? Does a Merkle root name its set? | yes, within the limits below |
| `ForgedFile` | `ForgeryNeverSaved` with an issue beside the attack | violated: the other request saves the forged node |
| `StaleSave` | `FileNeverShrinks` with two issues | violated: the older copy is written last |
| `LostIssue` | `RevokeByIssuer` with reloads | violated: the issue is dropped before its revoke is appended |
| `SameSecond` | `RevokeByFirstIssuer` in one second | violated: map order decides |
| `KeysLost` | `SignaturesSurvive` with a stop during a reset | violated: new keys, old nodes |
| `Reissue` | `WarnedIsNotValid` for a document issued again | violated: the validation ignores the later issue |

`PROJECT.json` quotes, for each violated property, the line of the repository
that promises it. Most of these promises hold within limits, and the passing runs
say which: `FileNeverShrinks`, `ResetIsFinal` and `QuietIsSound` for one request
at a time, `ForgeryNeverSaved` also next to requests that only read,
`RevokeByIssuer` and `LastRevokeWins` as long as nothing is reloaded while a
revoke is under way. What limits each of them:

- `AnsweredOnDisk` is checked without failing writes: with them the code answers
  "ok" and loses the node by design.
- `ResetIsFinal` fails beside an issue whose copy of the journal is written after
  the empty one (persistence.go 204).
- `LastRevokeWins` needs the time stamp taken in the critical section that
  appends. The demonstration of an illegal revoke takes it earlier (store.go
  815), so a revoke it gets accepted may be dated before the issue; `Revokes`
  does not offer it.
- `RevokeByIssuer` fails beside a substitution attack, which lets the country it
  put into the shared node revoke the document (store.go 146).
- `AttackCaught` and `AttackUndone` are about one simulation at a time (`Attack`
  offers them to one worker): of two that overlap, one can undo the change of the
  other before it is inspected, or put back the other's forgery.
- `QuietIsSound` says that the validation cannot report an error (the negation of
  `ValidateCanFail`, not only that it may pass), with two exceptions. Signatures
  by older keys are what a reset that was cut short leaves (`KeysLost`). And even
  requests that come one at a time can make two countries issue a document in one
  second: whether a revoke by one of them is then reported as `illegal_revoke` is
  a matter of map order, in the check (store.go 160-166) and again in every
  validation (store.go 534-543, 590). In that case the property says that a
  validation without an error is possible as well. Three ids (two issues and the
  revoke) make `Sequential` reach it.
- `JournalsConverge` is about what `StaleSave` and `ForgedFile` leave behind, and
  both halves of its premise (`CalmAtLast`) are needed: TLC refutes it when
  requests may overlap for ever, and when no save comes after the last overlap.
  It says that memory and file become equal, not which of the two wins: what a
  stale save took out of the file is saved again, what a reload dropped from
  memory before that is lost. A reset that was overtaken is settled in the same way.
- `RegistryIsView`, `LogFileFollows`, `OwnSteps`, `KeysAgree` and `KeyFileWhole`
  are about requests that did not overlap; the history variables `inStep`,
  `inTurn`, `solo` and `unharmed` say exactly since when, and which later request
  puts things right.

**Fairness** (`FairSpec`): each worker keeps taking the next step of its request
(`WF_vars(Serve(w))`), so that calm is followed by requests that are complete and
not by one that hangs. Goroutines are scheduled fairly and Go's mutexes do not
starve a waiting goroutine. The locks themselves are not modelled (one action is
what happens under one lock), so nothing is claimed about waiting for them.
Nothing is assumed of new requests, of time, of restarts; that requests and saves
go on is a premise of the property, and not of the specification. `Converge` has
no failing writes: each of them would let memory and file drift apart again.

## Proofs

Every property that a passing run checks, other than `JournalsConverge`, is also a
theorem for all values of the constants, some of them within a scope.

### The store

`StoreProofs` proves, for any number of workers, ids, documents, countries and
keys, any lists of parents, with or without failing writes and restarts:

- `TypeCorrect`: `Spec => []TypeOK`;
- `JournalClosedAlways`: every copy is closed under parents;
- `JournalCausalAlways`: every copy is in step with its gossip log;
- `JournalVotedAlways`: every vote of a copy ranks exactly the nodes of its
  moment, without ties and parents first;
- `JournalSealedAlways`: all copies agree on parents, signature and hash of
  every id, and these belong together;
- `InvHolds`: the invariant `Inv` they follow from.

The properties are about all copies of the journal (memory, file, copies held by
requests), since each copy may become the file and the file the memory. They are
not inductive alone. Adding a node could change what its id stands for in an
older copy, so `Inv` says that an id not yet drawn is in no copy (`CopiesDrawn`)
and that requests which draw early draw different ids (`DraftsFresh`). A
roll-back writes a node kept since before a reload or a reset into whatever
journal is there, so `Inv` says that a backup has the seal which every copy has
for that id (`BackupsAgree`).

The argument has three layers. `JournalProofs` shows what `AddNode` and `PutNode`
preserve on one copy, and what the recursive `Depth` of a journal in the order of
its gossip log is: there are depths up to each event, and only one for each node
(`DepthsExist`, `DepthsUnique`). `WorkerStep` shows that a step of one worker
preserves `Inv` when the new memory `Fits` the copies there are, and `QuietStep`
specialises it to steps that only move copies around. Then there is one lemma per
action, and `InvStep` puts them together.

`LedgerProofs` proves `OneHistoryAlways` of the abstract ledger: versions that
hold a transaction agree on everything before it. The last section of
`StoreProofs` proves `StoreImplementsLedger`, the refinement: the initial states
correspond, and each action of the store is a step of the ledger or a stutter. It
uses `Inv`: that an added id is in no copy is `CopiesDrawn`, that a roll-back
leaves the log alone is the type of a backup. `OneHistoryHolds` is the ledger's
theorem carried back to the store. It cannot be had without the detour through
all versions: which copies requests hold is what makes it inductive.

### The store within a scope

Other properties hold only of some requests, and the violated runs show that they
fail of others. `StoreScopeProofs` states each limit as a condition on the
constants, which the run that checks the property meets too, and proves the
property for any number of workers, ids, documents and countries within it:

| Theorem | Scope | Invariant |
|---|---|---|
| `RevokeByIssuerAlways` | `RevokeScope`: issues, revokes, demonstrations, forgeries (no reload, no reset, no substitution); faults and restarts | `RevokeInv`: every revoke in a copy, and every revoke that was checked and not yet appended, is by an issuer that is there |
| `RevokedLookupAlways` | `NoDemo`: all requests but the demonstration; faults and restarts | `OrderedInv`: time stamps follow the gossip log of every copy |
| `LastRevokeWinsAlways` | `NoDemo` and `NoReload`: no reload, no reset | `IssuedInv`: what is revoked, or was checked, has been issued |
| `ForgeryNeverSavedAlways`, `AttackUndoneAlways`, `AttackCaughtAlways` | `OneWriter`: all workers but one only validate and look up; faults and restarts | `AttackInv`: only memory holds a forged node, and only while the attack on it is at its roll-back, having seen it |
| `ResetIsFinalAlways` | `OneAtATime`: one worker; faults and restarts | `ResetInv`: nothing cleared is in a copy, and what is being written is the memory |
| `AnsweredOnDiskAlways`, `QuietIsSoundAlways`, `FileNeverShrinksAlways` | `OneAtATime`, no failing writes; restarts | `SequentialInv`: the above with `QuietInv`, which says for every step of the request what file, memory and keys have in common, and with `Sound`: nodes unforged, revokes by an issuer of the first second. A document whose issuers are not tied has one such issuer (`UntiedIssuer`), so the validation cannot disagree with its revoke |

All of them use `Inv` and two facts without a scope: `Roles` (at which step which
request can be, with which locals) and `KindsKept` (document, action and time
stamp of a node are those that were hashed, whatever an attack does to it).
`StepMoves` says once where the copies, backups and drafts of the next state come
from, so that most steps need no case of their own.

### The components beside the store

`LogsProofs` proves for every limit and any number of workers, with failures and
restarts, the types (`LogsTypeCorrect`), that a log and every copy about to be
written is within its limit (`LogBoundedAlways`), that it keeps its newest
messages (`LogsKeepTheNewest`), that its file catches up with its buffer
(`LogFileCatchesUp`) and that a simulation without company finds its own steps
only (`SimulationsLogAlone`). The bound is inductive because it is one of the
copies about to be written too (a copy becomes the file, and at a start the
buffer); the invariant `LogsInv` adds that a request without company is about to
write the buffer as it is (`AboutToFollow`). What a cut keeps is a lemma about sequences (`NewMessageKept`): being the end
of a longer sequence is kept by appending to both, and is transitive.

`KeysProofs` proves `KeysTypeCorrect`, `KeyFileWholeAlways` and `KeysAgreeAlways`
for any number of resets and generations. `KeysInv` says how far the only reset
has come (the inode it writes has the temporary name, what it renames holds its
keys, then the key file does), and that the two names are never of one inode, so
that whatever overlapping resets do to the temporary file, a reset that runs alone
afterwards starts from a key file nobody writes to.

`RegistryProofs` proves `RegistryTypeCorrect`, `PayloadsMatchAlways` and
`EntryNamesTxAlways` for any number of requests, with failures and restarts. A
registry read long ago may be written at any time, and a journal copied long ago
may become the file and then the memory; so `RegistryInv` (`AllFit`) relates every
registry there is to every journal there is, and says the same of the entry a
request will write between its append and its last write. A new transaction
disturbs none of it because its id is greater than all (`Drawn`). `ClerkStep`
reduces every other step to the one registry it may add.

Its second part proves `RegistryIsViewAlways`. What can be derived from a journal
is a function of the sequence (`DerivedIn`), with a lemma on what one more
transaction adds (`DerivedAppend`, which rests on every set of positions having a
greatest element). `ViewInv` says how far the only request has come: after the
append the registry is no longer a view, but the registry the request will leave
is (`Updated`). It also follows a reset that runs alone after trouble
(`Emptying`), which is why the view is regained.

### Hashing and older files

`HashingProofs` is about what is computed over the whole graph, and so about the
recursive functions `Bypass`, `Computable`, `Recomputed` and `MerkleRoot`. The
induction theorems of the library have an operator as a parameter, which the
provers cannot instantiate; every induction here is over the least number for
which a fact would fail (`LeastNumber`, from the well-foundedness of `<`).

`RootNamesSetAlways`: different sets of transactions have different Merkle roots.
All hashes of a layer have its height (`IsLayer`), a layer tells which hashes the
layer below has (`NextLayerFacts`), so two trees with one root have the same
hashes in all layers (`SameRootSameLeaves`), and among as many layers as there
are leaves one is the root (`RootReached`).

For every older file with finitely many ids:

- `SoundFileLoadsAlways`: without cycles and missing parents it can be loaded.
  Bypassing verify nodes makes no cycle (`SoundLoads`: a cycle of kept nodes with
  the verify nodes that lead into it would be one of the file), and each pass of
  the recomputation gets to one more node (`AcyclicComputable`);
- `AncestryKeptAlways`: the kept nodes descend from one another as in the file.
  `Ancestry` is the smallest set closed under parents, and each inclusion gives a
  set of the other graph that is closed under parents (`SanitizedAncestry`);
- `HashesFitAlways`: the hashes are over the hashes of the parents, which exist
  and are unique because the passes give them (`ComputableHasHashes`);
- `MigratedOnceAlways`: what was loaded once loads again as it is.

That the recursive definitions have a value at all is part of this
(`ExpandsAll`, `PassesExist`, `LayersExist`): a function that is defined on ever
larger sets. `LegacyInv` needs no more than that file and memory are the old file
or what the load makes of it.

### Assumptions

Assumed of the constants: ids are positive and finitely many, the empty hash is
not the hash of an issue, countries with keys and unknown ones are disjoint,
`None` is neither a node nor a transaction (`JournalAssumption`,
`NoneAssumption`, `NoDraftAssumption`, `StoreAssumption`). Random ids are assumed
never to repeat (16 bytes of `crypto/rand`), also after a reset.

Assumed of the logs: `1 <= Keep <= Limit` (`LogsAssumption`). Assumed of the key
file: `NoFile` is no inode (`KeysAssumption`). Assumed of the registry: every
payload has a hash, and "nothing" is no payload, hash, content or entry
(`RegistryAssumption`, `RegistryAbsentAssumption`). Assumed of older files:
finitely many ids, parents among them (`LegacyAssumption`). Assumed of leaves:
finitely many, numbered from 1 (`MerkleAssumption`). Hashes are injective in all
modules, since a hash is the value that is hashed.

### Only model-checked

The liveness of `Converge` (`FairSpec`), which the provers do not reach, and the
agreement with `Graphs`. The violated properties are refuted by TLC.

## Not modelled

- Editing the files by hand. Files are otherwise only written by the program, or,
  for `Legacy`, by its older versions.
- Formats: canonical JSON, SHA-256, PEM, the Russian summaries. Encoding a map
  sorts its keys, so `canonicalizeJSON` cannot change what is hashed; numbers are
  decoded as floating point, so two payloads that differ in an integer beyond 53
  bits have the same hash. Payloads are opaque values here.
- The read-only endpoints and the web client: they change nothing. What an issue
  answers is the node in the shared map, which a simulation may be changing
  (server.go 312).
- A wall clock that steps back, a repeated random id.
- The reference lists written at the first start (`ensureDefaults`): nothing
  changes them afterwards.

## Plan

All safety properties of the passing runs are theorems. What remains open is to
widen scopes where the code allows it: `AttackUndone` next to requests that write
but do not attack, and `QuietIsSound` with failing writes, up to the next write
that succeeds.
