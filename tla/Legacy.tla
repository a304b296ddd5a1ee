------------------------------- MODULE Legacy -------------------------------
(***************************************************************************)
(* Journals of an older format: nodes.json may hold verify nodes, which    *)
(* the journal no longer has.  Every load drops them, gives their parents  *)
(* to their children, and computes the hashes anew, parents first.  A file *)
(* without verify nodes is taken as it is.                                 *)
(*                                                                         *)
(* The hash of a node is its id with the hashes of its parents; the rest   *)
(* of its transaction is not touched.  A hash that is in the old file is   *)
(* the id alone: it is none of those the load computes.                    *)
(***************************************************************************)
EXTENDS Handlers

CONSTANTS
  Ident,       \* ids of nodes
  ParentSets   \* ParentSets[i]: the sets of parents node i may have in the file

ASSUME LegacyAssumption ==
  /\ IsFiniteSet(Ident)
  /\ ParentSets \in [Ident -> SUBSET SUBSET Ident]

VARIABLES
  oldFile,     \* history: nodes.json as it was found
  nodesFile,   \* nodes.json
  journal,     \* Store.nodes
  running      \* whether the process runs

legacyVars == <<oldFile, nodesFile, journal, running>>

\* A journal is a function from the ids that are present, as byID.
Present(g) == DOMAIN g

VerifyIds(g) == {i \in Present(g) : g[i].verify}

Kept(g) == Present(g) \ VerifyIds(g)

NoNodes == <<>>

HashInFile(i) == <<i>>

-----------------------------------------------------------------------------
(***************************************************************************)
(* sanitizePersistedGraph.                                                 *)
(***************************************************************************)

\* Mutant of Bypass: only one verify node is stepped over.
BypassOne(g, p) ==
  IF p \in VerifyIds(g) THEN g[p].parents \ VerifyIds(g) ELSE {p}

\* resolveParentsSkippingVerify of one parent: the id itself, or for a verify
\* node what its parents lead to.
Bypass(g, p) ==
  LET expand[q \in Ident] ==
        IF q \in VerifyIds(g) THEN UNION {expand[r] : r \in g[q].parents}
                              ELSE {q}
  IN  expand[p]

ParentsWithoutVerify(g, i) == UNION {Bypass(g, p) : p \in g[i].parents}

Bypassed(g, ids) ==
  [i \in ids |-> [g[i] EXCEPT !.parents = ParentsWithoutVerify(g, i)]]

\* Mutant of Bridged: a verify node with children stays.
BridgedButParents(g) ==
  Bypassed(g, Kept(g) \cup
              {i \in Present(g) : \E j \in Present(g) : i \in g[j].parents})

Bridged(g) == Bypassed(g, Kept(g))

\* Mutant of Computable: one pass over the nodes, however deep the graph is.
ComputableAtOnce(g) ==
  {i \in Present(g) : \A p \in g[i].parents :
                        p \in Present(g) /\ g[p].parents = {}}

\* The nodes recomputeAllNodeHashes gets to: pass after pass those whose parents
\* are done.
Computable(g) ==
  LET done[k \in 0 .. Cardinality(Ident)] ==
        IF k = 0 THEN {}
                 ELSE {i \in Present(g) : g[i].parents \subseteq done[k - 1]}
  IN  done[Cardinality(Ident)]

\* Mutant of Recomputed: the hashes of the parents are those of the file.
RecomputedFromFile(g) ==
  [i \in Present(g) |->
     [g[i] EXCEPT !.hash = <<i, {g[p].hash : p \in g[i].parents}>>]]

Recomputed(g) ==
  LET hash[i \in Present(g)] == <<i, {hash[p] : p \in g[i].parents}>>
  IN  [i \in Present(g) |-> [g[i] EXCEPT !.hash = hash[i]]]

\* A load fails when a node is left whose parents are missing or form a cycle.
Loads(g) ==
  VerifyIds(g) # {} => Computable(Bridged(g)) = Present(Bridged(g))

Sanitized(g) == IF VerifyIds(g) = {} THEN g ELSE Recomputed(Bridged(g))

-----------------------------------------------------------------------------
(***************************************************************************)
(* The state machine: loads, saves, and the process.                       *)
(***************************************************************************)

\* No nodes among these are a cycle: of any of them, one has no parent among
\* them.
Acyclic(g, ids) ==
  \A some \in SUBSET ids :
    some # {} => \E i \in some : g[i].parents \cap some = {}

\* The load does not return when verify nodes form a cycle.  No file of the
\* older format has one: a node could only name parents that were there.
Returns(g) == Acyclic(g, VerifyIds(g))

OldGraph(verify, parents) ==
  [i \in DOMAIN parents |->
     [parents |-> parents[i], verify |-> i \in verify, hash |-> HashInFile(i)]]

OldFilesOf(ids) ==
  {OldGraph(verify, parents) :
     verify  \in SUBSET ids,
     parents \in {ps \in [ids -> SUBSET Ident] :
                    \A i \in ids : ps[i] \in ParentSets[i]}}

OldFiles == UNION {OldFilesOf(ids) : ids \in SUBSET Ident}

LegacyInit ==
  /\ oldFile \in {g \in OldFiles : Returns(g)}
  /\ nodesFile = oldFile
  /\ journal = NoNodes
  /\ running = FALSE

\* NewStore logs the error of a load and goes on with an empty journal.
StartJournal ==
  /\ ~ running
  /\ running' = TRUE
  /\ journal' = IF Loads(nodesFile) THEN Sanitized(nodesFile) ELSE NoNodes
  /\ UNCHANGED <<oldFile, nodesFile>>

\* A validation whose reload fails leaves the journal in memory as it is.
ReloadJournal ==
  /\ running
  /\ Loads(nodesFile)
  /\ journal' = Sanitized(nodesFile)
  /\ UNCHANGED <<oldFile, nodesFile, running>>

\* A simulation saves the journal as it is in memory.
SaveJournal ==
  /\ running
  /\ nodesFile' = journal
  /\ UNCHANGED <<oldFile, journal, running>>

StopJournal ==
  /\ running
  /\ running' = FALSE
  /\ journal' = NoNodes
  /\ UNCHANGED <<oldFile, nodesFile>>

LegacyNext == StartJournal \/ ReloadJournal \/ SaveJournal \/ StopJournal

LegacySpec == LegacyInit /\ [][LegacyNext]_legacyVars

-----------------------------------------------------------------------------

\* The nodes that node i descends from: those in every set that holds its
\* parents and the parents of its members.
Ancestry(g, i) ==
  {j \in Present(g) :
     \A some \in SUBSET Present(g) :
       (\A k \in some \cup {i} : g[k].parents \cap Present(g) \subseteq some)
         => j \in some}

AllParentsPresent(g) == \A i \in Present(g) : g[i].parents \subseteq Present(g)

\* A file whose graph has no cycle and misses no parent can be loaded
\* (persistence.go 105-144).
SoundFileLoads ==
  Acyclic(oldFile, Present(oldFile)) /\ AllParentsPresent(oldFile) => Loads(oldFile)

\* The nodes that are kept descend from one another in the journal as they did
\* in the file, through however many verify nodes (persistence.go 51-59,
\* 78-103).
AncestryKept ==
  running /\ Loads(oldFile) =>
    /\ Present(journal) = Kept(oldFile)
    /\ \A i \in Present(journal) :
         Ancestry(journal, i) = Ancestry(oldFile, i) \ VerifyIds(oldFile)

\* Every hash is over the hashes its parents have in the same journal, so that
\* the validation finds no broken one (persistence.go 64-66, 117-135, store.go
\* 520-527).
HashesFit ==
  running /\ Loads(oldFile) /\ VerifyIds(oldFile) # {} =>
    \A i \in Present(journal) :
      journal[i].hash = <<i, {journal[p].hash : p \in journal[i].parents}>>

\* A journal that was loaded and saved is loaded as it is from then on
\* (persistence.go 48-50, 223-232).
MigratedOnce == running => Loads(journal) /\ Sanitized(journal) = journal

=============================================================================
