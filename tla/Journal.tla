------------------------------ MODULE Journal ------------------------------
(***************************************************************************)
(* The journal as data: transactions, nodes, the three lists that are      *)
(* saved together (nodes, gossip events, virtual votes) and the pure       *)
(* functions the store applies to them while it holds its mutex.           *)
(*                                                                         *)
(* What is abstract: a transaction id is a positive number (0 stands for   *)
(* the empty string, the order of numbers for the order of the strings); a *)
(* hash is the value that is hashed; a signature is the key and the value  *)
(* signed.  The hash of a node covers the hashes of its parents: these     *)
(* never change once a node exists, so the set of parent ids stands for    *)
(* them.  The hash of a document stands for the pair of document and       *)
(* metadata hash, which are compared together.  Fields no rule reads       *)
(* (type, authority, receiver) are left out, and a list of parent ids is   *)
(* the set of its members.  A document id is not empty: an empty one can   *)
(* be issued and revoked, but the lookup refuses it and the validation     *)
(* never warns of it, so that nothing is said of it here.                  *)
(***************************************************************************)
EXTENDS Integers, Sequences, FiniteSets

LOCAL INSTANCE FiniteSetsExt

CONSTANTS
  Tx,          \* transaction ids the random generator can draw
  Doc,         \* document ids, none of them the empty string
  DocHash,     \* document hashes of issued documents
  NoHash,      \* the empty document hash of a revoke
  Country,     \* countries with a key pair
  Foreign,     \* country codes nobody has a key for
  None         \* the absence of a node, of a transaction, of a value

ASSUME JournalAssumption ==
  /\ Tx \subseteq Nat \ {0}
  /\ IsFiniteSet(Tx)
  /\ NoHash \notin DocHash
  /\ Country \cap Foreign = {}

-----------------------------------------------------------------------------
(***************************************************************************)
(* Types.                                                                  *)
(***************************************************************************)

Action == {"issue", "revoke"}

Body == [id     : Tx,
         doc    : Doc,
         hash   : DocHash \cup {NoHash},
         issuer : Country \cup Foreign,
         action : Action,
         ts     : Nat]

Node == [tx      : Body,
         parents : SUBSET Tx,
         sig     : [key : Nat, body : Body],
         hash    : [body : Body, parents : SUBSET Tx]]

\* No node is the absence of one.
ASSUME NoneAssumption == None \notin Node

GossipEvent == [seq : Nat, tx : Tx, parents : SUBSET Tx]

\* A map from ids to nodes; the ids that are in it.
NodeMap == [Tx -> Node \cup {None}]

Ids(nodes) == {t \in Tx : nodes[t] # None}

\* One virtual vote: the place of every node in the agreed order, from 1; an
\* id that was not voted on has 0.
Ranking == [Tx -> Nat]

Ranked(vote) == {t \in Tx : vote[t] # 0}

Graph == [nodes : NodeMap, events : Seq(GossipEvent), votes : Seq(Ranking)]

EmptyGraph ==
  [nodes |-> [t \in Tx |-> None], events |-> <<>>, votes |-> <<>>]

-----------------------------------------------------------------------------
(***************************************************************************)
(* Signatures and hashes.                                                  *)
(***************************************************************************)

SignTransaction(body, k) == [key |-> k, body |-> body]

VerifyTransaction(node, k) ==
  /\ node.tx.issuer \in Country
  /\ node.sig = [key |-> k, body |-> node.tx]

ComputeNodeHash(body, parents) == [body |-> body, parents |-> parents]

-----------------------------------------------------------------------------
(***************************************************************************)
(* The graph of nodes.                                                     *)
(***************************************************************************)

Tips(nodes) ==
  {t \in Ids(nodes) : \A u \in Ids(nodes) : t \notin nodes[u].parents}

KnownParents(nodes, ps) == ps \subseteq Ids(nodes)

\* Length of the longest path to a node without parents; an unknown id has 0.
Depth(nodes) ==
  LET d[t \in Tx] ==
        IF t \notin Ids(nodes) \/ nodes[t].parents = {}
          THEN 0
          ELSE 1 + Max({d[p] : p \in nodes[t].parents})
  IN  d

\* Mutant of VotesBefore: time stamp and id alone.
VotesBeforeByTime(nodes, depth, u, t) ==
  \/ nodes[u].tx.ts < nodes[t].tx.ts
  \/ nodes[u].tx.ts = nodes[t].tx.ts /\ u < t

\* The order of the virtual vote: depth, then time stamp, then id.
VotesBefore(nodes, depth, u, t) ==
  \/ depth[u] < depth[t]
  \/ /\ depth[u] = depth[t]
     /\ \/ nodes[u].tx.ts < nodes[t].tx.ts
        \/ nodes[u].tx.ts = nodes[t].tx.ts /\ u < t

RunVirtualVote(nodes) ==
  LET depth == Depth(nodes)
  IN  [t \in Tx |->
         IF t \in Ids(nodes)
           THEN 1 + Cardinality({u \in Ids(nodes) :
                                   VotesBefore(nodes, depth, u, t)})
           ELSE 0]

LogGossip(events, t, parents) ==
  Append(events, [seq |-> Len(events) + 1, tx |-> t, parents |-> parents])

\* An empty list of parents means all current tips.
ParentsFor(nodes, ps) == IF ps = {} THEN Tips(nodes) ELSE ps

NewNode(body, parents, k) ==
  [tx      |-> body,
   parents |-> parents,
   sig     |-> SignTransaction(body, k),
   hash    |-> ComputeNodeHash(body, parents)]

AddNode(g, body, ps, k) ==
  LET parents == ParentsFor(g.nodes, ps)
      nodes   == [g.nodes EXCEPT ![body.id] = NewNode(body, parents, k)]
  IN  [nodes  |-> nodes,
       events |-> LogGossip(g.events, body.id, parents),
       votes  |-> Append(g.votes, RunVirtualVote(nodes))]

\* Overwrites one node in place: the attack simulations and their roll-back.
PutNode(g, t, node) ==
  [nodes  |-> [g.nodes EXCEPT ![t] = node],
   events |-> g.events,
   votes  |-> g.votes]

-----------------------------------------------------------------------------
(***************************************************************************)
(* Questions asked of the graph.                                           *)
(***************************************************************************)

NodesOf(nodes, d, action) ==
  {t \in Ids(nodes) : nodes[t].tx.doc = d /\ nodes[t].tx.action = action}

EarliestIssues(nodes, d) ==
  LET issues == NodesOf(nodes, d, "issue")
  IN  {t \in issues : \A u \in issues : nodes[t].tx.ts <= nodes[u].tx.ts}

\* The answers findIssuerForDoc can give: among issues of the same second the
\* one the map iteration meets first wins.  Empty when there is no issue.
IssuersOf(nodes, d) == {nodes[t].tx.issuer : t \in EarliestIssues(nodes, d)}

LatestRevokes(nodes, d) ==
  LET revokes == NodesOf(nodes, d, "revoke")
  IN  {t \in revokes : \A u \in revokes : nodes[u].tx.ts <= nodes[t].tx.ts}

\* Mutant of LaterChainNode: in the same second the issue wins.
LaterChainNodeIssue(a, b) ==
  \/ a.tx.ts > b.tx.ts
  \/ /\ a.tx.ts = b.tx.ts
     /\ \/ a.tx.action = "issue" /\ b.tx.action = "revoke"
        \/ a.tx.action = b.tx.action /\ a.tx.id > b.tx.id

LaterChainNode(a, b) ==
  \/ a.tx.ts > b.tx.ts
  \/ /\ a.tx.ts = b.tx.ts
     /\ \/ a.tx.action = "revoke" /\ b.tx.action = "issue"
        \/ a.tx.action = b.tx.action /\ a.tx.id > b.tx.id

ChainTxs(nodes, d) == NodesOf(nodes, d, "issue") \cup NodesOf(nodes, d, "revoke")

LatestChainTx(nodes, d) ==
  CHOOSE t \in ChainTxs(nodes, d) :
    \A u \in ChainTxs(nodes, d) \ {t} : LaterChainNode(nodes[t], nodes[u])

VerifyLookup(nodes, d, h) ==
  IF ChainTxs(nodes, d) = {}
    THEN "not_found"
    ELSE LET latest == nodes[LatestChainTx(nodes, d)].tx
         IN  CASE latest.action = "revoke"                    -> "revoked"
               [] latest.action = "issue" /\ latest.hash = h  -> "valid"
               [] latest.action = "issue" /\ latest.hash # h  -> "hash_mismatch"

\* The checks of ValidateAll on a node by itself and with its parents.
NodeIntact(nodes, t, k) ==
  /\ VerifyTransaction(nodes[t], k)
  /\ KnownParents(nodes, nodes[t].parents)
  /\ nodes[t].hash = ComputeNodeHash(nodes[t].tx, nodes[t].parents)

Revokes(nodes) == {t \in Ids(nodes) : nodes[t].tx.action = "revoke"}

\* ValidateAll may answer without an error, and may answer with one; both are
\* possible when issues of the same second disagree on the issuer.
ValidateCanPass(nodes, k) ==
  /\ \A t \in Ids(nodes) : NodeIntact(nodes, t, k)
  /\ \A t \in Revokes(nodes) :
       nodes[t].tx.issuer \in IssuersOf(nodes, nodes[t].tx.doc)

ValidateCanFail(nodes, k) ==
  \/ \E t \in Ids(nodes) : ~ NodeIntact(nodes, t, k)
  \/ \E t \in Revokes(nodes) :
       IssuersOf(nodes, nodes[t].tx.doc) # {nodes[t].tx.issuer}

\* The warning document_revoked of ValidateAll.
DocumentRevoked(nodes, d) ==
  \E i \in EarliestIssues(nodes, d), r \in LatestRevokes(nodes, d) :
     nodes[r].tx.ts >= nodes[i].tx.ts

-----------------------------------------------------------------------------
(***************************************************************************)
(* Properties of one copy of the journal.                                  *)
(***************************************************************************)

\* Every parent of a node is a node: missing_parent is never reported.
ParentsPresent(g) ==
  \A t \in Ids(g.nodes) : KnownParents(g.nodes, g.nodes[t].parents)

\* The gossip log tells the history of exactly these nodes: event i has
\* number i, no node has two events, every node has one, and its parents'
\* events come before it.
EventsCausal(g) ==
  /\ \A i \in DOMAIN g.events :
       /\ g.events[i].seq = i
       /\ g.events[i].tx \in Ids(g.nodes)
       /\ g.events[i].parents = g.nodes[g.events[i].tx].parents
       /\ \A p \in g.events[i].parents : \E j \in 1 .. i - 1 : g.events[j].tx = p
  /\ \A i, j \in DOMAIN g.events : g.events[i].tx = g.events[j].tx => i = j
  /\ \A t \in Ids(g.nodes) : \E i \in DOMAIN g.events : g.events[i].tx = t

\* Vote i was taken on exactly the nodes of the first i events.
VotesFollowEvents(g) ==
  /\ DOMAIN g.votes = DOMAIN g.events
  /\ \A i \in DOMAIN g.votes :
       Ranked(g.votes[i]) = {g.events[j].tx : j \in 1 .. i}

\* The order of a vote is total and puts every node after its parents.
VotesRespectParents(g) ==
  \A i \in DOMAIN g.votes :
    /\ \A t, u \in Ranked(g.votes[i]) :
         g.votes[i][t] = g.votes[i][u] => t = u
    /\ \A t \in Ranked(g.votes[i]) : \A p \in g.nodes[t].parents :
         g.votes[i][p] < g.votes[i][t]

\* What nobody may change of a node once it exists.
Seal(node) == <<node.parents, node.sig, node.hash>>

\* The seal of a node is over one transaction with its id and its parents.
Sealed(g) ==
  \A t \in Ids(g.nodes) :
    LET node == g.nodes[t] IN
    /\ node.tx.id = t
    /\ node.sig.body.id = t
    /\ node.hash = ComputeNodeHash(node.sig.body, node.parents)

SealsAgree(g, h) ==
  \A t \in Ids(g.nodes) \cap Ids(h.nodes) : Seal(g.nodes[t]) = Seal(h.nodes[t])

Forged(g, t) == g.nodes[t].tx # g.nodes[t].hash.body

=============================================================================
