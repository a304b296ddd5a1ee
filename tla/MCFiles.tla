------------------------------ MODULE MCFiles ------------------------------
(***************************************************************************)
(* The components beside the journal store, on small instances.  They do   *)
(* not read one another's state, so that one of them runs in a behaviour   *)
(* and the others rest.                                                    *)
(***************************************************************************)
EXTENDS Logs, Registry, Keys, Legacy, Merkle

LOCAL INSTANCE Graphs

CONSTANTS p1, h1, h2

VARIABLE part    \* the component that runs

filesVars ==
  <<part, logsVars, registryVars, keysVars, legacyVars, leafIds>>

\* One payload with the first hash; the second hash is of a payload that is
\* never sent.
MCHashOf == [p \in Payload |-> h1]

Just(d, p) == [digest |-> d, payload |-> p]

\* Issues by payload, by hash, by a payload and a hash that disagree, and with
\* metadata of either kind.
MCSent ==
  { [document |-> Just(Absent, p1), metadata |-> Just(Absent, Absent)],
    [document |-> Just(h2, Absent), metadata |-> Just(Absent, p1)],
    [document |-> Just(h2, p1),     metadata |-> Just(Absent, Absent)],
    [document |-> Just(h1, p1),     metadata |-> Just(h2, p1)] }

\* A node of the old file names any nodes of a smaller id; the first may name
\* the last, which makes cycles.
MCParentSets ==
  [i \in Ident |-> IF i = 1 THEN {{}, {4}} ELSE SUBSET (1 .. i - 1)]

\* What Legacy says of cycles and of ancestry is what Graphs says, here for all
\* graphs of three nodes.
ASSUME GraphsAgree ==
  \A parents \in [1 .. 3 -> SUBSET (1 .. 3)] :
    LET g == OldGraph({}, parents)
        G == [node |-> 1 .. 3,
              edge |-> {e \in (1 .. 3) \X (1 .. 3) : e[1] \in parents[e[2]]}]
    IN  /\ Acyclic(g, 1 .. 3) <=> IsDag(G)
        /\ \A i \in 1 .. 3 : Ancestry(g, i) = Ancestors(G, i)

OldFileResting ==
  /\ oldFile = NoNodes
  /\ nodesFile = NoNodes
  /\ journal = NoNodes
  /\ running = FALSE

FilesInit ==
  /\ part \in {"logs", "registry", "keys", "legacy", "merkle"}
  /\ LogsInit
  /\ RegistryInit
  /\ KeysInit
  /\ IF part = "legacy" THEN LegacyInit ELSE OldFileResting
  /\ MerkleInit

FilesNext ==
  \/ /\ part = "logs" /\ LogsNext
     /\ UNCHANGED <<part, registryVars, keysVars, legacyVars, leafIds>>
  \/ /\ part = "registry" /\ RegistryNext
     /\ UNCHANGED <<part, logsVars, keysVars, legacyVars, leafIds>>
  \/ /\ part = "keys" /\ KeysNext
     /\ UNCHANGED <<part, logsVars, registryVars, legacyVars, leafIds>>
  \/ /\ part = "legacy" /\ LegacyNext
     /\ UNCHANGED <<part, logsVars, registryVars, keysVars, leafIds>>
  \/ /\ part = "merkle" /\ MerkleNext
     /\ UNCHANGED <<part, logsVars, registryVars, keysVars, legacyVars>>

FilesSpec == FilesInit /\ [][FilesNext]_filesVars

=============================================================================
