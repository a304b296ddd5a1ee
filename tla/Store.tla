------------------------------- MODULE Store -------------------------------
(***************************************************************************)
(* The journal store and the HTTP requests that run on it at once.         *)
(*                                                                         *)
(* A worker is the goroutine that serves a request.  One action is what a  *)
(* worker does while it holds one lock (Store.mu, or Database.mu for the   *)
(* files), so a request is a chain of actions and those of different       *)
(* workers interleave:                                                     *)
(*                                                                         *)
(*   issue           Append -> TakeSnapshot -> Write                       *)
(*   revoke, demo    Check -> Append -> TakeSnapshot -> Write              *)
(*   forge,                                                                *)
(*   substitute      (mutate) -> Inspect -> Restore -> TakeSnapshot        *)
(*                   -> Write                                              *)
(*   validate        (read file) -> Replace -> Report                      *)
(*   verify          (read file) -> Replace                                *)
(*   reset           (new key file) -> SwapKeys -> Clear -> TakeSnapshot   *)
(*                   -> Write                                              *)
(*                                                                         *)
(* A request that is refused before it changes anything is a stuttering    *)
(* step and has no action of its own.                                      *)
(*                                                                         *)
(* An operator introduced as a mutant is no part of the specification: it  *)
(* is what the definition it names would be with a plausible mistake, kept *)
(* to show that a property notices the mistake.                            *)
(***************************************************************************)
EXTENDS Journal

CONSTANTS
  Worker,      \* the goroutines that serve requests
  Offered,     \* Offered[w]: the requests worker w may be given
  ParentArgs,  \* the lists of parents a client may send
  FaultyIO,    \* TRUE: a write of nodes.json, or its load at start, may fail
  Restarts,    \* TRUE: the process may stop at any moment and start again
  MaxTime,     \* bound on the clock
  MaxGen       \* bound on the number of key regenerations

Op == {"issue", "revoke", "demo", "forge", "substitute", "validate", "verify",
       "reset"}

ASSUME StoreAssumption ==
  /\ Offered \in [Worker -> SUBSET Op]
  /\ ParentArgs \subseteq SUBSET Tx
  /\ FaultyIO \in BOOLEAN
  /\ Restarts \in BOOLEAN
  /\ MaxTime \in Nat \ {0}
  /\ MaxGen \in Nat

VARIABLES
  mem,      \* Store.nodes and Store.gossip, guarded by Store.mu
  disk,     \* the content of nodes.json
  keys,     \* Store.keys: the generation of the key pairs in use
  keyFile,  \* authority_keys.json: the generation of the key pairs saved
  clock,    \* time.Now().Unix()
  job,      \* job[w]: where worker w is in its request, and its locals
  fate,     \* history: what became of every transaction id
  verdict   \* history: what the last validation of a worker found

vars == <<mem, disk, keys, keyFile, clock, job, fate, verdict>>

PC == {"idle", "check", "append", "snapshot", "write", "inspect", "restore",
       "replace", "report", "swap", "clear"}

\* A transaction still without id and time stamp has 0 there, as in the code.
NoTx == 0

Draft == [id     : Tx \cup {NoTx},
          doc    : Doc,
          hash   : DocHash \cup {NoHash},
          issuer : Country \cup Foreign,
          action : Action,
          ts     : Nat]

\* No transaction to append is the absence of one.
ASSUME NoDraftAssumption == None \notin Draft

Job == [pc      : PC,
        op      : Op \cup {None},
        draft   : Draft \cup {None},     \* the transaction to append
        parents : SUBSET Tx,             \* the parents the client named
        tx      : Tx \cup {NoTx},        \* the node appended or attacked
        backup  : Node \cup {None},      \* the node before the attack
        copy    : Graph,                 \* what was read, or will be written
        gen     : Nat]                   \* the keys made by a reset

Locals(pc, op, draft, ps, t, backup, copy, gen) ==
  [pc |-> pc, op |-> op, draft |-> draft, parents |-> ps, tx |-> t,
   backup |-> backup, copy |-> copy, gen |-> gen]

\* The locals of a worker without a request, and of one that is about to
\* append a transaction, attack a node, use what it read, make new keys its
\* own, save the journal.
Idle == Locals("idle", None, None, {}, NoTx, None, EmptyGraph, 0)

Drafting(pc, op, draft, ps) ==
  Locals(pc, op, draft, ps, NoTx, None, EmptyGraph, 0)

Tampering(op, t, node) ==
  Locals("inspect", op, None, {}, t, node, EmptyGraph, 0)

Reading(pc, op, g) == Locals(pc, op, None, {}, NoTx, None, g, 0)

Rekeying(pc, k) == Locals(pc, "reset", None, {}, NoTx, None, EmptyGraph, k)

Persisting(op, t) == Locals("snapshot", op, None, {}, t, None, EmptyGraph, 0)

Fate == {"unused", "appended", "answered", "clearing", "cleared"}

Verdict == {"none", "clean", "errors", "caught", "missed"}

\* Every variable has its type: what is in the journal and in its copies are
\* nodes, events and votes, and every request is at one of its steps.
TypeOK ==
  /\ mem \in Graph
  /\ disk \in Graph
  /\ keys \in Nat
  /\ keyFile \in Nat
  /\ clock \in Nat \ {0}
  /\ job \in [Worker -> Job]
  /\ fate \in [Tx -> Fate]
  /\ verdict \in [Worker -> Verdict]

Init ==
  /\ mem = EmptyGraph
  /\ disk = EmptyGraph
  /\ keys = 0
  /\ keyFile = 0
  /\ clock = 1
  /\ job = [w \in Worker |-> Idle]
  /\ fate = [t \in Tx |-> "unused"]
  /\ verdict = [w \in Worker |-> "none"]

-----------------------------------------------------------------------------
(***************************************************************************)
(* Helpers.                                                                *)
(***************************************************************************)

\* Mutant of FreshIds: an id is only new to the journal in memory.
IdsNotInMemory == Tx \ Ids(mem.nodes)

\* Transaction ids nobody has drawn: randomTxID gives one of these.
FreshIds ==
  {t \in Tx : /\ fate[t] = "unused"
              /\ \A w \in Worker : job[w].draft = None \/ job[w].draft.id # t}

\* Bound: a request is accepted only while an id is left for it.
RoomLeft ==
  Cardinality({w \in Worker : job[w].draft # None /\ job[w].draft.id = NoTx})
    < Cardinality(FreshIds)

\* Worker w, which is idle, takes request o and starts with the locals j.
Start(w, o, j) ==
  /\ job[w].pc = "idle"
  /\ o \in Offered[w]
  /\ job' = [job EXCEPT ![w] = j]
  /\ verdict' = [verdict EXCEPT ![w] = "none"]

Goto(w, pc) == job' = [job EXCEPT ![w].pc = pc]

Finish(w) == job' = [job EXCEPT ![w] = Idle]

NewDraft(id, d, h, c, action, ts) ==
  [id |-> id, doc |-> d, hash |-> h, issuer |-> c, action |-> action,
   ts |-> ts]

-----------------------------------------------------------------------------
(***************************************************************************)
(* Issue, revoke and the demonstration of an illegal revoke.               *)
(***************************************************************************)

StartIssue(w) ==
  \E d \in Doc, h \in DocHash, c \in Country \cup Foreign, ps \in ParentArgs :
    /\ RoomLeft
    /\ Start(w, "issue",
             Drafting("append", "issue",
                      NewDraft(NoTx, d, h, c, "issue", 0), ps))
    /\ UNCHANGED <<mem, disk, keys, keyFile, clock, fate>>

StartRevoke(w) ==
  \E d \in Doc, c \in Country \cup Foreign, ps \in ParentArgs :
    /\ RoomLeft
    /\ Start(w, "revoke",
             Drafting("check", "revoke",
                      NewDraft(NoTx, d, NoHash, c, "revoke", 0), ps))
    /\ UNCHANGED <<mem, disk, keys, keyFile, clock, fate>>

\* The demonstration draws the id and reads the clock before the check.
StartDemo(w) ==
  \E d \in Doc, c \in Country \cup Foreign, ps \in ParentArgs, t \in FreshIds :
    /\ RoomLeft
    /\ Start(w, "demo",
             Drafting("check", "demo",
                      NewDraft(t, d, NoHash, c, "revoke", clock), ps))
    /\ UNCHANGED <<mem, disk, keys, keyFile, clock, fate>>

\* Mutant of CheckPasses: any issuer of any version of the document will do.
CheckPassesAnyIssue(w) ==
  /\ job[w].pc = "check"
  /\ \E t \in NodesOf(mem.nodes, job[w].draft.doc, "issue") :
       mem.nodes[t].tx.issuer = job[w].draft.issuer
  /\ Goto(w, "append")
  /\ UNCHANGED <<mem, disk, keys, keyFile, clock, fate, verdict>>

\* AddRevoke looks the issuer up under the read lock and releases it.
CheckPasses(w) ==
  /\ job[w].pc = "check"
  /\ job[w].draft.issuer \in IssuersOf(mem.nodes, job[w].draft.doc)
  /\ Goto(w, "append")
  /\ UNCHANGED <<mem, disk, keys, keyFile, clock, fate, verdict>>

CheckRefuses(w) ==
  /\ job[w].pc = "check"
  /\ IssuersOf(mem.nodes, job[w].draft.doc) # {job[w].draft.issuer}
  /\ Finish(w)
  /\ UNCHANGED <<mem, disk, keys, keyFile, clock, fate, verdict>>

\* What appendTransactionLocked refuses: an id or a parent that does not fit
\* the graph, and a country without a key.
Acceptable(w) ==
  /\ job[w].draft.id \notin Ids(mem.nodes)
  /\ KnownParents(mem.nodes, job[w].parents)
  /\ job[w].draft.issuer \in Country

\* Mutant of Complete: the id is not filled in.
CompleteWithoutId(draft, t) ==
  NewDraft(draft.id, draft.doc, draft.hash, draft.issuer, draft.action,
           IF draft.ts = 0 THEN clock ELSE draft.ts)

Complete(draft, t) ==
  NewDraft(t, draft.doc, draft.hash, draft.issuer, draft.action,
           IF draft.ts = 0 THEN clock ELSE draft.ts)

\* The node, its gossip event and the new vote are added in one critical
\* section, with the keys the store holds at that moment.
AppendNode(w) ==
  \E t \in IF job[w].draft.id = NoTx THEN FreshIds ELSE {job[w].draft.id} :
    /\ mem' = AddNode(mem, Complete(job[w].draft, t), job[w].parents, keys)
    /\ fate' = [fate EXCEPT ![t] = "appended"]
    /\ job' = [job EXCEPT ![w] = Persisting(job[w].op, t)]

AppendAccepts(w) ==
  /\ job[w].pc = "append"
  /\ Acceptable(w)
  /\ AppendNode(w)
  /\ UNCHANGED <<disk, keys, keyFile, clock, verdict>>

AppendRefuses(w) ==
  /\ job[w].pc = "append"
  /\ ~ Acceptable(w)
  /\ Finish(w)
  /\ UNCHANGED <<mem, disk, keys, keyFile, clock, fate, verdict>>

-----------------------------------------------------------------------------
(***************************************************************************)
(* persistGraph: the copy is made under Store.mu, the file is written      *)
(* later, under Database.mu.  The write replaces the whole file or fails.  *)
(***************************************************************************)

TakeSnapshot(w) ==
  /\ job[w].pc = "snapshot"
  /\ job' = [job EXCEPT ![w].pc = "write", ![w].copy = mem]
  /\ UNCHANGED <<mem, disk, keys, keyFile, clock, fate, verdict>>

\* The client of an issue or a revoke is told that its node is accepted
\* whether the write succeeded or not; a reset succeeds only with the write.
Answered(w, saved) ==
  [t \in Tx |->
     IF job[w].op = "reset"
       THEN IF saved /\ fate[t] = "clearing" THEN "cleared" ELSE fate[t]
       ELSE IF job[w].op \in {"issue", "revoke", "demo"}
                 /\ t = job[w].tx /\ fate[t] = "appended"
              THEN "answered" ELSE fate[t]]

\* Mutant of Write: the temporary file never replaces nodes.json.
WriteOnlyTemporary(w) ==
  /\ job[w].pc = "write"
  /\ fate' = Answered(w, TRUE)
  /\ Finish(w)
  /\ UNCHANGED <<mem, disk, keys, keyFile, clock, verdict>>

Write(w) ==
  /\ job[w].pc = "write"
  /\ disk' = job[w].copy
  /\ fate' = Answered(w, TRUE)
  /\ Finish(w)
  /\ UNCHANGED <<mem, keys, keyFile, clock, verdict>>

WriteFails(w) ==
  /\ FaultyIO
  /\ job[w].pc = "write"
  /\ fate' = Answered(w, FALSE)
  /\ Finish(w)
  /\ UNCHANGED <<mem, disk, keys, keyFile, clock, verdict>>

-----------------------------------------------------------------------------
(***************************************************************************)
(* Validate and verify read nodes.json back into memory before they look.  *)
(***************************************************************************)

StartReload(w) ==
  \E o \in {"validate", "verify"} :
    /\ Start(w, o, Reading("replace", o, disk))
    /\ UNCHANGED <<mem, disk, keys, keyFile, clock, fate>>

\* Mutant of Replace: what was read is added to the gossip log.
ReplaceByAdding(w) ==
  /\ job[w].pc = "replace"
  /\ mem' = [job[w].copy EXCEPT !.events = mem.events \o @]
  /\ Finish(w)
  /\ UNCHANGED <<disk, keys, keyFile, clock, fate, verdict>>

\* The lookup of verify only reads: the request is over with the replacement.
Replace(w) ==
  /\ job[w].pc = "replace"
  /\ mem' = job[w].copy
  /\ job' = [job EXCEPT ![w] = IF job[w].op = "verify"
                                 THEN Idle
                                 ELSE Reading("report", "validate", EmptyGraph)]
  /\ UNCHANGED <<disk, keys, keyFile, clock, fate, verdict>>

\* What ValidateAll may answer on the graph in memory.
Validated(w, clean, errors) ==
  \/ /\ ValidateCanPass(mem.nodes, keys)
     /\ verdict' = [verdict EXCEPT ![w] = clean]
  \/ /\ ValidateCanFail(mem.nodes, keys)
     /\ verdict' = [verdict EXCEPT ![w] = errors]

Report(w) ==
  /\ job[w].pc = "report"
  /\ Validated(w, "clean", "errors")
  /\ Finish(w)
  /\ UNCHANGED <<mem, disk, keys, keyFile, clock, fate>>

-----------------------------------------------------------------------------
(***************************************************************************)
(* The attack simulations: a node is changed in memory, the lock released, *)
(* the graph validated, the node put back, the graph saved.                *)
(***************************************************************************)

Attack(w, o, t, node) ==
  /\ Start(w, o, Tampering(o, t, mem.nodes[t]))
  /\ mem' = PutNode(mem, t, node)
  /\ UNCHANGED <<disk, keys, keyFile, clock, fate>>

Forge(w) ==
  \E t \in Ids(mem.nodes), h \in DocHash :
    /\ mem.nodes[t].tx.action = "issue"
    /\ Attack(w, "forge", t, [mem.nodes[t] EXCEPT !.tx.hash = h])

Substitute(w) ==
  \E t \in Ids(mem.nodes), c \in Country \cup Foreign :
    Attack(w, "substitute", t, [mem.nodes[t] EXCEPT !.tx.issuer = c])

\* Mutant of Inspect: nothing is put back before the save.
InspectAndSave(w) ==
  /\ job[w].pc = "inspect"
  /\ Validated(w, "missed", "caught")
  /\ Goto(w, "snapshot")
  /\ UNCHANGED <<mem, disk, keys, keyFile, clock, fate>>

\* Mutant of Inspect: the saved journal is validated.
InspectFile(w) ==
  /\ job[w].pc = "inspect"
  /\ \/ /\ ValidateCanPass(disk.nodes, keys)
        /\ verdict' = [verdict EXCEPT ![w] = "missed"]
     \/ /\ ValidateCanFail(disk.nodes, keys)
        /\ verdict' = [verdict EXCEPT ![w] = "caught"]
  /\ Goto(w, "restore")
  /\ UNCHANGED <<mem, disk, keys, keyFile, clock, fate>>

Inspect(w) ==
  /\ job[w].pc = "inspect"
  /\ Validated(w, "missed", "caught")
  /\ Goto(w, "restore")
  /\ UNCHANGED <<mem, disk, keys, keyFile, clock, fate>>

\* Mutants of RolledBack: nothing is put back; the node is dropped; the node
\* is put back whether its id is still there or not.
NotRolledBack(w) == mem

RolledBackByDeletion(w) == PutNode(mem, job[w].tx, None)

RolledBackAlways(w) == PutNode(mem, job[w].tx, job[w].backup)

\* The node is put back if its id is still there.
RolledBack(w) ==
  IF job[w].tx \in Ids(mem.nodes)
    THEN PutNode(mem, job[w].tx, job[w].backup)
    ELSE mem

Restore(w) ==
  /\ job[w].pc = "restore"
  /\ mem' = RolledBack(w)
  /\ job' = [job EXCEPT ![w] = Persisting(job[w].op, NoTx)]
  /\ UNCHANGED <<disk, keys, keyFile, clock, fate, verdict>>

-----------------------------------------------------------------------------
(***************************************************************************)
(* Reset: a new key file, then the keys in memory (assigned without the    *)
(* lock), then the empty journal, then the file.                           *)
(***************************************************************************)

Regenerate(w) ==
  /\ keyFile < MaxGen
  /\ keyFile' = keyFile + 1
  /\ Start(w, "reset", Rekeying("swap", keyFile + 1))
  /\ UNCHANGED <<mem, disk, keys, clock, fate>>

\* Mutant of SwapKeys: the store goes on with the old keys.
KeepKeys(w) ==
  /\ job[w].pc = "swap"
  /\ Goto(w, "clear")
  /\ UNCHANGED <<mem, disk, keys, keyFile, clock, fate, verdict>>

SwapKeys(w) ==
  /\ job[w].pc = "swap"
  /\ keys' = job[w].gen
  /\ Goto(w, "clear")
  /\ UNCHANGED <<mem, disk, keyFile, clock, fate, verdict>>

\* Mutants of Clear: the gossip state survives; the journal does.
ClearNodesOnly(w) ==
  /\ job[w].pc = "clear"
  /\ mem' = [EmptyGraph EXCEPT !.events = mem.events, !.votes = mem.votes]
  /\ fate' = [t \in Tx |-> IF t \in Ids(mem.nodes) THEN "clearing"
                                                     ELSE fate[t]]
  /\ job' = [job EXCEPT ![w] = Persisting("reset", NoTx)]
  /\ UNCHANGED <<disk, keys, keyFile, clock, verdict>>

ClearNothing(w) ==
  /\ job[w].pc = "clear"
  /\ fate' = [t \in Tx |-> IF t \in Ids(mem.nodes) THEN "clearing"
                                                     ELSE fate[t]]
  /\ job' = [job EXCEPT ![w] = Persisting("reset", NoTx)]
  /\ UNCHANGED <<mem, disk, keys, keyFile, clock, verdict>>

Clear(w) ==
  /\ job[w].pc = "clear"
  /\ mem' = EmptyGraph
  /\ fate' = [t \in Tx |-> IF t \in Ids(mem.nodes) THEN "clearing"
                                                     ELSE fate[t]]
  /\ job' = [job EXCEPT ![w] = Persisting("reset", NoTx)]
  /\ UNCHANGED <<disk, keys, keyFile, clock, verdict>>

-----------------------------------------------------------------------------
(***************************************************************************)
(* The environment: time, and the process stopping and starting again.     *)
(***************************************************************************)

Tick ==
  /\ clock < MaxTime
  /\ clock' = clock + 1
  /\ UNCHANGED <<mem, disk, keys, keyFile, job, fate, verdict>>

\* NewStore only logs an error of the load and goes on with an empty journal.
Restart ==
  /\ Restarts
  /\ mem' \in {disk} \cup (IF FaultyIO THEN {EmptyGraph} ELSE {})
  /\ keys' = keyFile
  /\ job' = [w \in Worker |-> Idle]
  /\ verdict' = [w \in Worker |-> "none"]
  /\ UNCHANGED <<disk, keyFile, clock, fate>>

-----------------------------------------------------------------------------

\* The next step of the request worker w is serving.
Serve(w) ==
  \/ CheckPasses(w)   \/ CheckRefuses(w)
  \/ AppendAccepts(w) \/ AppendRefuses(w)
  \/ TakeSnapshot(w)  \/ Write(w)         \/ WriteFails(w)
  \/ Replace(w)       \/ Report(w)
  \/ Inspect(w)       \/ Restore(w)
  \/ SwapKeys(w)      \/ Clear(w)

\* A new request.
Accept(w) ==
  \/ StartIssue(w)  \/ StartRevoke(w) \/ StartDemo(w)
  \/ StartReload(w) \/ Forge(w)       \/ Substitute(w)
  \/ Regenerate(w)

Next ==
  \/ \E w \in Worker : Serve(w) \/ Accept(w)
  \/ Tick
  \/ Restart

Spec == Init /\ [][Next]_vars

\* Every goroutine that serves a request keeps running.
FairSpec == Spec /\ \A w \in Worker : WF_vars(Serve(w))

-----------------------------------------------------------------------------

\* The journals there are: in memory, in the file, and the copies under way.
Copies == {mem, disk} \cup {job[w].copy : w \in Worker}

AllIdle == \A w \in Worker : job[w].pc = "idle"

\* In every copy of the journal, whatever requests overlap, fail or are cut
\* short by a crash, the parents of every node are there (node.go 34-38,
\* store.go 201-205).
JournalClosed == \A g \in Copies : ParentsPresent(g)

\* In every copy of the journal nodes and gossip events belong together: the
\* log enumerates the nodes, each once, in an order where causes come first
\* (store.go 225-228, persistence.go 154-166).
JournalCausal == \A g \in Copies : EventsCausal(g)

\* In every copy of the journal each virtual vote ranked exactly the nodes
\* known when it was taken, without ties, every node above its parents
\* (gossip.go 53-117).
JournalVoted ==
  \A g \in Copies : VotesFollowEvents(g) /\ VotesRespectParents(g)

\* An id names one node: two copies of the journal, however old, never disagree
\* on the parents, the signature and the hash of a node both hold, and these
\* belong together; attacks, roll-backs, reloads and resets leave them alone
\* (store.go 189-225, 735-745, persistence.go 154-163).
JournalSealed ==
  \A g \in Copies : Sealed(g) /\ \A h \in Copies : SealsAgree(g, h)

\* In every copy of the journal a revoke is by a country that ValidateAll may
\* take for the issuer of the document (store.go 141-154, 530-544).
RevokeByIssuer ==
  \A g \in Copies : \A t \in Revokes(g.nodes) :
    g.nodes[t].tx.issuer \in IssuersOf(g.nodes, g.nodes[t].tx.doc)

\* When the last thing that happened to a document is a revoke, the lookup
\* answers "revoked" and the validation warns of it, although both go by time
\* stamps of a second and not by the order of events; this relies on the stamp
\* being taken in the critical section that appends, which the demonstration
\* does not do (store.go 189-199, 534-567, 677-706).
LastRevokeWins ==
  \A g \in Copies : \A i \in DOMAIN g.events :
    LET d == g.nodes[g.events[i].tx].tx.doc IN
    ( /\ g.nodes[g.events[i].tx].tx.action = "revoke"
      /\ \A j \in DOMAIN g.events :
           j > i => g.nodes[g.events[j].tx].tx.doc # d )
    => /\ \A h \in DocHash : VerifyLookup(g.nodes, d, h) = "revoked"
       /\ DocumentRevoked(g.nodes, d)

\* A transaction whose client was told that it is accepted is in nodes.json,
\* until a reset is answered (store.go 175-184, server.go 297-312).
AnsweredOnDisk ==
  \A t \in Tx : fate[t] = "answered" => t \in Ids(disk.nodes)

\* nodes.json never holds a node the attack simulations changed
\* (store.go 708-753).
ForgeryNeverSaved == \A t \in Ids(disk.nodes) : ~ Forged(disk, t)

\* What a reset cleared never comes back into the file (store.go 59-79,
\* server.go 442-455).
ResetIsFinal ==
  \A t \in Tx : fate[t] = "cleared" => t \notin Ids(disk.nodes)

\* The countries that issued document d in its first second are not one: the
\* map iteration decides who its issuer is.
IssuerTied(nodes, d) == \E a, b \in IssuersOf(nodes, d) : a # b

\* Between requests the file is the journal in memory and the key file holds
\* the keys in memory, whatever was cut short before.  Validating the journal
\* then cannot report an error, but for two reasons: a reset that was cut short
\* left signatures by older keys, or a revoke is of a document with tied issuers,
\* where an answer without an error is possible, too (store.go 37-53, 498-577,
\* server.go 437-451).
QuietIsSound ==
  AllIdle =>
    /\ mem = disk
    /\ keys = keyFile
    /\ \/ \E t \in Ids(mem.nodes) : mem.nodes[t].sig.key # keys
       \/ ~ ValidateCanFail(mem.nodes, keys)
       \/ /\ ValidateCanPass(mem.nodes, keys)
          /\ \E t \in Revokes(mem.nodes) :
               IssuerTied(mem.nodes, mem.nodes[t].tx.doc)

\* The validation inside an attack simulation reports every node whose
\* transaction the simulation changed (store.go 740, 787).
AttackCaught ==
  \A w \in Worker :
    ( /\ job[w].pc = "restore"
      /\ job[w].tx \in Ids(mem.nodes)
      /\ mem.nodes[job[w].tx].tx # job[w].backup.tx )
    => verdict[w] = "caught"

\* No node in memory is changed for good by a simulation: once no attack is
\* under way the journal in memory holds what was hashed and signed
\* (store.go 742-746, 789-793).
AttackUndone ==
  (\A w \in Worker : job[w].pc \notin {"inspect", "restore"})
    => \A t \in Ids(mem.nodes) : ~ Forged(mem, t)

\* A revoke is by the country that issued the document first, in the order the
\* journal was written (store.go 141, 156-173).
RevokeByFirstIssuer ==
  \A t \in Revokes(mem.nodes) :
    LET first == CHOOSE i \in DOMAIN mem.events :
          /\ mem.events[i].tx \in NodesOf(mem.nodes, mem.nodes[t].tx.doc, "issue")
          /\ \A j \in 1 .. i - 1 : mem.events[j].tx \notin
               NodesOf(mem.nodes, mem.nodes[t].tx.doc, "issue")
    IN  mem.nodes[t].tx.issuer = mem.nodes[mem.events[first].tx].tx.issuer

\* A document the validation warns of as revoked is never answered to be valid
\* (store.go 309, 545-567, 625-675).
WarnedIsNotValid ==
  \A d \in Doc, h \in DocHash :
    DocumentRevoked(mem.nodes, d) => VerifyLookup(mem.nodes, d, h) # "valid"

\* The signatures in nodes.json are by the keys of authority_keys.json: they
\* are still valid after a restart (persist.go 30-32).
SignaturesSurvive ==
  AllIdle => \A t \in Ids(disk.nodes) : disk.nodes[t].sig.key = keyFile

\* Only a reset takes a node out of nodes.json: a save never puts an older
\* journal over a newer one (store.go 175-184, persistence.go 186-205).
FileNeverShrinks ==
  [][(\A w \in Worker : job[w].op # "reset")
       => Ids(disk.nodes) \subseteq Ids(disk'.nodes)]_vars

\* The transactions of a copy of the journal in the order they were added.
History(g) == [i \in DOMAIN g.events |-> g.events[i].tx]

L == INSTANCE Ledger WITH
       current <- History(mem),
       durable <- History(disk),
       held    <- {History(job[w].copy) : w \in Worker}

\* The store is a ledger: every step of every request adds one transaction at
\* the end of the journal in memory, or lets one version of it take the place of
\* another (store.go 186-240, persistence.go 146-205).
ImplementsLedger == L!Spec

\* Copies of the journal that hold the same transaction agree on the whole
\* history before it, however old they are (store.go 225-240, persistence.go
\* 146-205).
OneHistory == L!OneHistory

\* Requests come one at a time from some moment on, and some of them save.
CalmAtLast ==
  /\ <>[](\A v, w \in Worker : v = w \/ job[v].pc = "idle" \/ job[w].pc = "idle")
  /\ []<>(\E w \in Worker : job[w].pc = "snapshot")

\* However far memory and file drifted apart while requests overlapped (saves
\* that overtake one another, a reload of an older file, a node attacked under
\* the hands of others), once requests come one at a time and saves go on the two
\* become equal and stay so whenever no request is under way (store.go 175-184,
\* persistence.go 146-205).
JournalsConverge == CalmAtLast => <>[](AllIdle => mem = disk)

=============================================================================
