--------------------------- MODULE JournalProofs ---------------------------
(***************************************************************************)
(* What the operations on one copy of the journal preserve.                *)
(*                                                                         *)
(* The vote orders nodes by their depth, which is defined by recursion on  *)
(* parents.  Because the events list causes first, the depths of the nodes *)
(* of the first events can be extended event by event: a least event       *)
(* without a depth cannot be (the well-ordering of the naturals takes the  *)
(* place of an induction theorem).                                         *)
(***************************************************************************)
EXTENDS Journal, FiniteSetTheorems, TLAPS

LOCAL INSTANCE FiniteSetsExt

\* A copy that is in order.
WellFormed(g) ==
  /\ ParentsPresent(g)
  /\ EventsCausal(g)
  /\ VotesFollowEvents(g)
  /\ VotesRespectParents(g)
  /\ Sealed(g)

\* A journal without nodes has its type.
LEMMA EmptyGraphType == EmptyGraph \in Graph
  BY DEF EmptyGraph, Graph, NodeMap

\* A journal without nodes has no ids.
LEMMA EmptyGraphIds == Ids(EmptyGraph.nodes) = {}
  BY DEF EmptyGraph, Ids

\* A journal without nodes is in order.
LEMMA EmptyGraphWellFormed == WellFormed(EmptyGraph)
  BY EmptyGraphIds DEF EmptyGraph, WellFormed, ParentsPresent, EventsCausal,
     VotesFollowEvents, VotesRespectParents, Sealed

\* The virtual vote gives a place to exactly the nodes there are.
LEMMA VoteRanksNodes ==
  ASSUME NEW nodes \in NodeMap
  PROVE  /\ RunVirtualVote(nodes) \in Ranking
         /\ Ranked(RunVirtualVote(nodes)) = Ids(nodes)
<1> DEFINE before(t) == {u \in Ids(nodes) :
                           VotesBefore(nodes, Depth(nodes), u, t)}
<1>1. ASSUME NEW t \in Tx
      PROVE  Cardinality(before(t)) \in Nat
  <2>1. before(t) \subseteq Tx
    BY DEF Ids
  <2>2. IsFiniteSet(before(t))
    BY <2>1, FS_Subset, JournalAssumption
  <2> QED
    BY <2>2, FS_CardinalityType
<1>2. RunVirtualVote(nodes) =
        [t \in Tx |-> IF t \in Ids(nodes) THEN 1 + Cardinality(before(t)) ELSE 0]
  BY DEF RunVirtualVote
<1> HIDE DEF before
<1> QED
  BY <1>1, <1>2 DEF Ranking, Ranked, Ids

-----------------------------------------------------------------------------
(***************************************************************************)
(* Depths and the order of the vote.                                       *)
(***************************************************************************)

\* A set of naturals has a least element.
LEMMA LeastExists ==
  ASSUME NEW S, S \subseteq Nat, S # {}
  PROVE  \E x \in S : \A y \in S : x <= y
<1> DEFINE R == OpToRel(<, Nat)
<1>1. IsWellFoundedOn(R, Nat)
  BY NatLessThanWellFounded
<1> HIDE DEF R
<1>2. PICK x \in S : \A y \in S : ~ (<<y, x>> \in R)
  BY <1>1, WFMin
<1>3. \A y \in S : ~ (y < x)
  BY <1>2 DEF R, OpToRel
<1> QED
  BY <1>3

\* One of finitely many nodes has the greatest depth.
LEMMA DeepestExists ==
  ASSUME NEW d \in [Tx -> Nat], NEW ps, ps \subseteq Tx, ps # {}
  PROVE  \E p \in ps : \A q \in ps : d[q] <= d[p]
<1> DEFINE Deepest(T) == \E p \in T : \A q \in T : d[q] <= d[p]
           Lacking(n, T) == /\ T \subseteq Tx /\ IsFiniteSet(T) /\ T # {}
                            /\ Cardinality(T) = n /\ ~ Deepest(T)
           N == {n \in Nat : \E T : Lacking(n, T)}
<1>1. N = {}
  <2> SUFFICES ASSUME N # {} PROVE FALSE
    OBVIOUS
  <2>1. PICK n \in N : \A m \in N : n <= m
    <3>1. N \subseteq Nat
      OBVIOUS
    <3> HIDE DEF N
    <3> QED
      BY <3>1, LeastExists
  <2>2. n \in Nat
    OBVIOUS
  <2>3. PICK T : Lacking(n, T)
    OBVIOUS
  <2>4. PICK x \in T : TRUE
    BY <2>3
  <2> DEFINE U == T \ {x}
  <2>5. IsFiniteSet(U) /\ Cardinality(U) = n - 1 /\ U \subseteq Tx
    BY <2>3, <2>4, FS_RemoveElement
  <2>6. Cardinality(U) \in Nat
    BY <2>5, FS_CardinalityType
  <2>7. Deepest(U) \/ U = {}
    <3>1. n - 1 \notin N
      BY <2>1, <2>2
    <3>2. n - 1 \in Nat
      BY <2>5, <2>6
    <3> HIDE DEF Deepest, U
    <3>3. ~ Lacking(n - 1, U)
      BY <3>1, <3>2
    <3> QED
      BY <3>3, <2>5
  <2>8. \A y \in T : y = x \/ y \in U
    OBVIOUS
  <2>9. \A y \in T : d[y] \in Nat
    BY <2>3
  <2>10. Deepest(T)
    <3>1. CASE U = {}
      BY <3>1, <2>4, <2>8, <2>9
    <3>2. CASE Deepest(U)
      <4>1. PICK m \in U : \A y \in U : d[y] <= d[m]
        BY <3>2
      <4>2. m \in T /\ d[m] \in Nat /\ d[x] \in Nat
        BY <4>1, <2>4, <2>9
      <4>3. CASE d[m] <= d[x]
        <5>1. \A y \in T : d[y] <= d[x]
          BY <4>1, <4>2, <4>3, <2>8, <2>9
        <5> QED
          BY <5>1, <2>4
      <4>4. CASE ~ (d[m] <= d[x])
        <5>1. \A y \in T : d[y] <= d[m]
          BY <4>1, <4>2, <4>4, <2>8, <2>9
        <5> QED
          BY <5>1, <4>2
      <4> QED
        BY <4>3, <4>4
    <3> QED
      BY <3>1, <3>2, <2>7
  <2> QED
    BY <2>3, <2>10
<1>2. IsFiniteSet(ps)
  BY FS_Subset, JournalAssumption
<1>3. Cardinality(ps) \in Nat
  BY <1>2, FS_CardinalityType
<1> HIDE DEF Deepest
<1>4. Deepest(ps)
  BY <1>1, <1>2, <1>3
<1> QED
  BY <1>4 DEF Deepest

\* What the depth of node t is, given those of its parents.
DepthStep(nodes, d, t) ==
  IF t \notin Ids(nodes) \/ nodes[t].parents = {}
    THEN 0
    ELSE 1 + Max({d[p] : p \in nodes[t].parents})

\* The depths of some nodes have a maximum.
LEMMA MaxDepth ==
  ASSUME NEW d \in [Tx -> Nat], NEW ps, ps \subseteq Tx, ps # {}
  PROVE  /\ Max({d[p] : p \in ps}) \in Nat
         /\ \A p \in ps : d[p] <= Max({d[q] : q \in ps})
<1> DEFINE S == {d[p] : p \in ps}
<1>1. PICK p \in ps : \A q \in ps : d[q] <= d[p]
  BY DeepestExists
<1>2. \E m \in S : \A y \in S : m >= y
  <2>1. \A q \in ps : d[q] \in Nat
    OBVIOUS
  <2>2. \A y \in S : d[p] >= y
    BY <1>1, <2>1
  <2> QED
    BY <2>2
<1>3. Max(S) \in S /\ \A y \in S : Max(S) >= y
  BY <1>2 DEF Max
<1>4. S \subseteq Nat
  OBVIOUS
<1>5. \A q \in ps : d[q] \in S
  OBVIOUS
<1> HIDE DEF S
<1>6. Max(S) \in Nat /\ \A q \in ps : d[q] <= Max(S)
  BY <1>3, <1>4, <1>5
<1> QED
  BY <1>6 DEF S

\* The depth of a node is a number, and only depends on those of its parents.
LEMMA DepthStepFacts ==
  ASSUME NEW nodes \in NodeMap, NEW t \in Tx
  PROVE  /\ \A d \in [Tx -> Nat] : DepthStep(nodes, d, t) \in Nat
         /\ \A d, e : (t \in Ids(nodes) =>
                         \A p \in nodes[t].parents : d[p] = e[p])
              => DepthStep(nodes, d, t) = DepthStep(nodes, e, t)
<1>1. t \in Ids(nodes) => nodes[t].parents \subseteq Tx
  BY DEF Ids, NodeMap, Node
<1>2. ASSUME NEW d \in [Tx -> Nat]
      PROVE  DepthStep(nodes, d, t) \in Nat
  <2>1. CASE t \notin Ids(nodes) \/ nodes[t].parents = {}
    BY <2>1 DEF DepthStep
  <2>2. CASE t \in Ids(nodes) /\ nodes[t].parents # {}
    <3>1. Max({d[p] : p \in nodes[t].parents}) \in Nat
      BY <2>2, <1>1, MaxDepth
    <3>2. DepthStep(nodes, d, t) = 1 + Max({d[p] : p \in nodes[t].parents})
      BY <2>2 DEF DepthStep
    <3> QED
      BY <3>1, <3>2
  <2> QED
    BY <2>1, <2>2
<1>3. ASSUME NEW d, NEW e,
             t \in Ids(nodes) => \A p \in nodes[t].parents : d[p] = e[p]
      PROVE  DepthStep(nodes, d, t) = DepthStep(nodes, e, t)
  <2>1. CASE t \in Ids(nodes)
    <3>1. {d[p] : p \in nodes[t].parents} = {e[p] : p \in nodes[t].parents}
      BY <1>3, <2>1
    <3> QED
      BY <3>1 DEF DepthStep
  <2>2. CASE t \notin Ids(nodes)
    BY <2>2 DEF DepthStep
  <2> QED
    BY <2>1, <2>2
<1> QED
  BY <1>2, <1>3

\* The depths d are right for the unknown ids and for the nodes of the first k
\* events.
DepthsRight(g, d, k) ==
  \A t \in Tx : (t \in Ids(g.nodes) => \E j \in 1 .. k : g.events[j].tx = t)
                  => d[t] = DepthStep(g.nodes, d, t)

\* Causes come first, so every node has a depth.
LEMMA DepthsExist ==
  ASSUME NEW g \in Graph, EventsCausal(g)
  PROVE  \E d \in [Tx -> Nat] : DepthsRight(g, d, Len(g.events))
<1> DEFINE len == Len(g.events)
           Bad == {k \in 0 .. len :
                     ~ \E d \in [Tx -> Nat] : DepthsRight(g, d, k)}
<1>1. len \in Nat /\ DOMAIN g.events = 1 .. len /\ g.nodes \in NodeMap
  BY DEF Graph
<1> HIDE DEF len
<1>2. Bad = {}
  <2> SUFFICES ASSUME Bad # {} PROVE FALSE
    OBVIOUS
  <2>1. PICK k \in Bad : \A m \in Bad : k <= m
    <3>1. Bad \subseteq Nat
      BY <1>1
    <3> HIDE DEF Bad
    <3> QED
      BY <3>1, LeastExists
  <2>2. k \in 0 .. len /\ k \in Nat
    BY <1>1
  <2>3. k # 0
    <3>1. DepthsRight(g, [t \in Tx |-> 0], 0)
      BY DEF DepthsRight, DepthStep
    <3>2. [t \in Tx |-> 0] \in [Tx -> Nat]
      OBVIOUS
    <3> QED
      BY <3>1, <3>2
  <2>4. k - 1 \in 0 .. len /\ k - 1 \notin Bad /\ k \in 1 .. len
    BY <2>1, <2>2, <2>3, <1>1
  <2>5. PICK d \in [Tx -> Nat] : DepthsRight(g, d, k - 1)
    BY <2>4
  <2> DEFINE s == g.events[k].tx
             e == [d EXCEPT ![s] = DepthStep(g.nodes, d, s)]
  <2>6. /\ s \in Ids(g.nodes) /\ s \in Tx
        /\ \A p \in g.nodes[s].parents :
             \E j \in 1 .. k - 1 : g.events[j].tx = p
    <3>1. k \in DOMAIN g.events
      BY <2>4, <1>1
    <3>2. /\ g.events[k].tx \in Ids(g.nodes)
          /\ g.events[k].parents = g.nodes[g.events[k].tx].parents
          /\ \A p \in g.events[k].parents :
               \E j \in 1 .. k - 1 : g.events[j].tx = p
      BY <3>1 DEF EventsCausal
    <3> QED
      BY <3>2 DEF Ids
  <2>7. /\ e \in [Tx -> Nat]
        /\ e[s] = DepthStep(g.nodes, d, s)
        /\ \A t \in Tx \ {s} : e[t] = d[t]
    BY <2>6, <1>1, DepthStepFacts
  <2>8. \A j \in 1 .. k - 1 : g.events[j].tx # s
    <3>1. \A j \in 1 .. k - 1 : j \in 1 .. len /\ j # k
      BY <2>2, <2>4, <1>1
    <3> QED
      BY <3>1, <2>4, <1>1 DEF EventsCausal
  <2> HIDE DEF e, s
  <2>9. ASSUME NEW t \in Ids(g.nodes), NEW j \in 1 .. k, g.events[j].tx = t,
               NEW p \in g.nodes[t].parents
        PROVE  e[p] = d[p]
    <3>1. j \in DOMAIN g.events /\ \A i \in 1 .. j - 1 : i \in 1 .. k - 1
      BY <2>2, <2>4, <1>1
    <3>2. g.events[j].parents = g.nodes[t].parents
      BY <2>9, <3>1 DEF EventsCausal
    <3>3. PICK i \in 1 .. j - 1 : g.events[i].tx = p
      BY <3>1, <3>2, <2>9 DEF EventsCausal
    <3>4. p \in Tx
      BY <1>1 DEF Ids, NodeMap, Node
    <3> QED
      BY <3>1, <3>3, <3>4, <2>7, <2>8
  <2>10. ASSUME NEW t \in Tx,
                t \in Ids(g.nodes) => \E j \in 1 .. k : g.events[j].tx = t
         PROVE  e[t] = DepthStep(g.nodes, e, t)
    <3>1. DepthStep(g.nodes, d, t) = DepthStep(g.nodes, e, t)
      BY <2>9, <2>10, <1>1, DepthStepFacts
    <3>2. CASE t = s
      BY <3>1, <3>2, <2>7
    <3>3. CASE t # s
      <4>1. t \in Ids(g.nodes) => \E j \in 1 .. k - 1 : g.events[j].tx = t
        <5>1. \A j \in 1 .. k : j \in 1 .. k - 1 \/ j = k
          BY <2>2
        <5> QED
          BY <5>1, <2>10, <3>3 DEF s
      <4>2. d[t] = DepthStep(g.nodes, d, t)
        BY <4>1, <2>5 DEF DepthsRight
      <4> QED
        BY <4>2, <3>1, <3>3, <2>7
    <3> QED
      BY <3>2, <3>3
  <2>11. DepthsRight(g, e, k)
    BY <2>10 DEF DepthsRight
  <2> QED
    BY <2>7, <2>11
<1>3. len \in 0 .. len
  BY <1>1
<1> QED
  BY <1>2, <1>3 DEF len

\* No other depths are right.
LEMMA DepthsUnique ==
  ASSUME NEW g \in Graph, EventsCausal(g), NEW d, NEW e,
         DepthsRight(g, d, Len(g.events)), DepthsRight(g, e, Len(g.events))
  PROVE  \A t \in Tx : d[t] = e[t]
<1> DEFINE len == Len(g.events)
           Bad == {k \in 1 .. len : d[g.events[k].tx] # e[g.events[k].tx]}
<1>1. len \in Nat /\ DOMAIN g.events = 1 .. len /\ g.nodes \in NodeMap
  BY DEF Graph
<1> HIDE DEF len
<1>2. ASSUME NEW t \in Tx
      PROVE  /\ d[t] = DepthStep(g.nodes, d, t)
             /\ e[t] = DepthStep(g.nodes, e, t)
  BY <1>1 DEF DepthsRight, EventsCausal, len
<1>3. Bad = {}
  <2> SUFFICES ASSUME Bad # {} PROVE FALSE
    OBVIOUS
  <2>1. PICK k \in Bad : \A m \in Bad : k <= m
    <3>1. Bad \subseteq Nat
      BY <1>1
    <3> HIDE DEF Bad
    <3> QED
      BY <3>1, LeastExists
  <2>2. k \in 1 .. len /\ k \in DOMAIN g.events
    BY <1>1
  <2> DEFINE t == g.events[k].tx
  <2>3. /\ t \in Ids(g.nodes)
        /\ \A p \in g.nodes[t].parents :
             \E j \in 1 .. k - 1 : g.events[j].tx = p
    BY <2>2 DEF EventsCausal
  <2>4. \A j \in 1 .. k - 1 : j \in 1 .. len /\ j \notin Bad
    <3>1. \A j \in 1 .. k - 1 : j \in 1 .. len /\ ~ (k <= j)
      BY <2>2, <1>1
    <3> QED
      BY <3>1, <2>1
  <2>5. \A j \in 1 .. k - 1 : d[g.events[j].tx] = e[g.events[j].tx]
    BY <2>4
  <2>6. \A p \in g.nodes[t].parents : d[p] = e[p]
    BY <2>3, <2>5
  <2>7. t \in Tx
    BY <2>3 DEF Ids
  <2>8. d[t] # e[t]
    OBVIOUS
  <2> HIDE DEF t, Bad
  <2>9. DepthStep(g.nodes, d, t) = DepthStep(g.nodes, e, t)
    BY <2>6, <2>7, <1>1, DepthStepFacts
  <2> QED
    BY <2>7, <2>8, <2>9, <1>2
<1>4. ASSUME NEW t \in Ids(g.nodes)
      PROVE  d[t] = e[t]
  <2>1. PICK k \in 1 .. len : g.events[k].tx = t
    BY <1>1 DEF EventsCausal
  <2> QED
    BY <2>1, <1>3
<1>5. ASSUME NEW t \in Tx, t \notin Ids(g.nodes)
      PROVE  d[t] = e[t]
  BY <1>2, <1>5 DEF DepthStep
<1> QED
  BY <1>4, <1>5

\* The depth of a node is a number greater than those of its parents.
LEMMA DepthFacts ==
  ASSUME NEW g \in Graph, EventsCausal(g)
  PROVE  /\ Depth(g.nodes) \in [Tx -> Nat]
         /\ \A t \in Ids(g.nodes) : \A p \in g.nodes[t].parents :
              Depth(g.nodes)[p] < Depth(g.nodes)[t]
<1> DEFINE depth == Depth(g.nodes)
           Eq(d) == d = [t \in Tx |-> DepthStep(g.nodes, d, t)]
<1>1. g.nodes \in NodeMap
  BY DEF Graph
<1>2. depth = CHOOSE d : Eq(d)
  BY DEF Depth, DepthStep
<1>3. ASSUME NEW d, Eq(d)
      PROVE  DepthsRight(g, d, Len(g.events))
  BY <1>3 DEF DepthsRight
<1>4. PICK e \in [Tx -> Nat] : DepthsRight(g, e, Len(g.events))
  BY DepthsExist
<1>5. Eq(e)
  <2>1. \A t \in Tx : e[t] = DepthStep(g.nodes, e, t)
    <3>1. \A t \in Ids(g.nodes) : \E j \in 1 .. Len(g.events) :
            g.events[j].tx = t
      BY DEF EventsCausal, Graph
    <3> QED
      BY <3>1, <1>4 DEF DepthsRight
  <2> QED
    BY <2>1
<1> HIDE DEF Eq, depth
<1>6. Eq(depth)
  BY <1>2, <1>5
<1>7. depth = e
  <2>1. \A t \in Tx : depth[t] = e[t]
    BY <1>3, <1>4, <1>6, DepthsUnique
  <2>2. DOMAIN depth = Tx /\ depth = [t \in Tx |-> depth[t]]
    BY <1>6 DEF Eq
  <2> QED
    BY <2>1, <2>2
<1>8. \A t \in Tx : depth[t] = DepthStep(g.nodes, depth, t)
  BY <1>6 DEF Eq
<1>9. ASSUME NEW t \in Ids(g.nodes), NEW p \in g.nodes[t].parents
      PROVE  depth[p] < depth[t]
  <2> DEFINE ps == g.nodes[t].parents
  <2>1. ps \subseteq Tx /\ ps # {} /\ t \in Tx /\ p \in ps
    BY <1>1 DEF Ids, NodeMap, Node
  <2>2. depth[t] = 1 + Max({depth[q] : q \in ps})
    BY <2>1, <1>8 DEF DepthStep
  <2> HIDE DEF ps
  <2>3. /\ Max({depth[q] : q \in ps}) \in Nat
        /\ depth[p] <= Max({depth[q] : q \in ps})
    BY <2>1, <1>7, MaxDepth
  <2>4. depth[p] \in Nat
    BY <2>1, <1>7
  <2> QED
    BY <2>2, <2>3, <2>4
<1> QED
  BY <1>7, <1>9 DEF depth

\* The order of the vote is one: nothing is before itself, it has no cycles,
\* and of two nodes one is before the other.
LEMMA VotesBeforeOrder ==
  ASSUME NEW nodes \in NodeMap, NEW depth \in [Tx -> Nat],
         NEW t \in Ids(nodes), NEW u \in Ids(nodes), NEW v \in Ids(nodes)
  PROVE  /\ ~ VotesBefore(nodes, depth, t, t)
         /\ VotesBefore(nodes, depth, t, u) /\ VotesBefore(nodes, depth, u, v)
              => VotesBefore(nodes, depth, t, v)
         /\ \/ t = u
            \/ VotesBefore(nodes, depth, t, u)
            \/ VotesBefore(nodes, depth, u, t)
<1>1. ASSUME NEW x \in Ids(nodes)
      PROVE  depth[x] \in Nat /\ nodes[x].tx.ts \in Nat /\ x \in Nat
  BY JournalAssumption DEF Ids, NodeMap, Node, Body
<1> QED
  BY <1>1 DEF VotesBefore

\* A vote gives no place twice, and a node a later one than its parents.
LEMMA VoteOrders ==
  ASSUME NEW g \in Graph, EventsCausal(g), ParentsPresent(g)
  PROVE  LET vote == RunVirtualVote(g.nodes)
         IN  /\ \A t, u \in Ids(g.nodes) : vote[t] = vote[u] => t = u
             /\ \A t \in Ids(g.nodes) : \A p \in g.nodes[t].parents :
                  vote[p] < vote[t]
<1> DEFINE depth == Depth(g.nodes)
           vote == RunVirtualVote(g.nodes)
           ids == Ids(g.nodes)
           before(t) == {u \in ids : VotesBefore(g.nodes, depth, u, t)}
<1>1. g.nodes \in NodeMap /\ depth \in [Tx -> Nat] /\ ids \subseteq Tx
  BY DepthFacts DEF Graph, Ids
<1>2. \A t \in ids : vote[t] = 1 + Cardinality(before(t))
  BY <1>1 DEF RunVirtualVote
<1>3. \A t, u, v \in ids :
        /\ ~ VotesBefore(g.nodes, depth, t, t)
        /\ VotesBefore(g.nodes, depth, t, u) /\ VotesBefore(g.nodes, depth, u, v)
             => VotesBefore(g.nodes, depth, t, v)
        /\ \/ t = u
           \/ VotesBefore(g.nodes, depth, t, u)
           \/ VotesBefore(g.nodes, depth, u, t)
  BY <1>1, VotesBeforeOrder
<1>4. \A t \in ids : \A p \in g.nodes[t].parents :
        p \in ids /\ VotesBefore(g.nodes, depth, p, t)
  BY DepthFacts DEF ParentsPresent, KnownParents, VotesBefore
<1> HIDE DEF depth, vote, ids
<1>5. ASSUME NEW t \in ids, NEW u \in ids, VotesBefore(g.nodes, depth, u, t)
      PROVE  vote[u] < vote[t]
  <2>1. IsFiniteSet(before(t)) /\ IsFiniteSet(before(u))
    <3>1. before(t) \subseteq Tx /\ before(u) \subseteq Tx
      BY <1>1
    <3> QED
      BY <3>1, FS_Subset, JournalAssumption
  <2>2. u \notin before(u)
    BY <1>3
  <2>3. before(u) \cup {u} \subseteq before(t)
    BY <1>3, <1>5
  <2> HIDE DEF before
  <2>4. Cardinality(before(u) \cup {u}) = Cardinality(before(u)) + 1
    BY <2>1, <2>2, FS_AddElement
  <2>5. Cardinality(before(u) \cup {u}) <= Cardinality(before(t))
    BY <2>1, <2>3, FS_Subset
  <2>6. Cardinality(before(u)) \in Nat /\ Cardinality(before(t)) \in Nat
    BY <2>1, FS_CardinalityType
  <2>7. Cardinality(before(u)) < Cardinality(before(t))
    BY <2>4, <2>5, <2>6
  <2> QED
    BY <2>6, <2>7, <1>2
<1>6. \A t \in ids : vote[t] \in Nat
  <2>1. vote \in Ranking
    BY <1>1, VoteRanksNodes DEF vote
  <2> QED
    BY <2>1, <1>1 DEF Ranking
<1>7. \A t, u \in ids : vote[t] = vote[u] => t = u
  BY <1>3, <1>5, <1>6
<1>8. \A t \in ids : \A p \in g.nodes[t].parents : vote[p] < vote[t]
  BY <1>4, <1>5
<1> QED
  BY <1>7, <1>8 DEF vote, ids

-----------------------------------------------------------------------------
(***************************************************************************)
(* Adding a node and putting one in place.                                 *)
(***************************************************************************)

\* The parents a node gets are nodes.
LEMMA ParentsForKnown ==
  ASSUME NEW nodes, NEW ps, KnownParents(nodes, ps)
  PROVE  ParentsFor(nodes, ps) \subseteq Ids(nodes)
  BY DEF ParentsFor, KnownParents, Tips

\* A new node with known parents leaves the journal in order and the nodes
\* that were there alone.
LEMMA AddNodeWellFormed ==
  ASSUME NEW g \in Graph, WellFormed(g),
         NEW body \in Body, body.id \notin Ids(g.nodes),
         NEW ps, KnownParents(g.nodes, ps), NEW k \in Nat
  PROVE  /\ AddNode(g, body, ps, k) \in Graph
         /\ WellFormed(AddNode(g, body, ps, k))
         /\ Ids(AddNode(g, body, ps, k).nodes) = Ids(g.nodes) \cup {body.id}
         /\ \A t \in Ids(g.nodes) :
              AddNode(g, body, ps, k).nodes[t] = g.nodes[t]
<1> DEFINE n == AddNode(g, body, ps, k)
           parents == ParentsFor(g.nodes, ps)
           node == NewNode(body, parents, k)
           len == Len(g.events)
           event == [seq |-> len + 1, tx |-> body.id, parents |-> parents]
<1>1. /\ n \in Graph
      /\ n.nodes = [g.nodes EXCEPT ![body.id] = NewNode(body, parents, k)]
      /\ Ids(n.nodes) = Ids(g.nodes) \cup {body.id}
      /\ n.events = LogGossip(g.events, body.id, parents)
      /\ n.votes = Append(g.votes, RunVirtualVote(n.nodes))
  <2>1. parents \subseteq Tx
    BY ParentsForKnown DEF Ids
  <2>2. node \in Node
    BY <2>1 DEF NewNode, Node, SignTransaction, ComputeNodeHash
  <2>3. body.id \in Tx
    BY DEF Body
  <2>4. n.nodes = [g.nodes EXCEPT ![body.id] = node]
    BY DEF AddNode
  <2>5. n.nodes \in NodeMap
    BY <2>2, <2>4 DEF NodeMap, Graph
  <2>6. Ids(n.nodes) = Ids(g.nodes) \cup {body.id}
    BY <2>2, <2>3, <2>4, NoneAssumption DEF Ids, Graph, NodeMap
  <2>7. /\ n.events = LogGossip(g.events, body.id, parents)
        /\ n.votes = Append(g.votes, RunVirtualVote(n.nodes))
    BY DEF AddNode
  <2>8. n.events \in Seq(GossipEvent)
    <3>1. Len(g.events) + 1 \in Nat
      BY DEF Graph
    <3> QED
      BY <2>1, <2>3, <2>7, <3>1 DEF Graph, GossipEvent, LogGossip
  <2>9. n.votes \in Seq(Ranking)
    BY <2>5, <2>7, VoteRanksNodes DEF Graph
  <2>10. n = [nodes |-> n.nodes, events |-> n.events, votes |-> n.votes]
    BY DEF AddNode
  <2> HIDE DEF n, parents, node
  <2>11. n \in Graph
    BY <2>5, <2>8, <2>9, <2>10 DEF Graph
  <2> QED
    BY <2>4, <2>6, <2>7, <2>11 DEF node
<1> HIDE DEF n
<1>2. parents \subseteq Ids(g.nodes)
  BY ParentsForKnown
<1>3. body.id \in Tx
  BY DEF Body
<1>4. /\ n.nodes[body.id] = NewNode(body, parents, k)
      /\ \A t \in Ids(g.nodes) : n.nodes[t] = g.nodes[t]
  BY <1>1, <1>3 DEF Graph, NodeMap, Ids
<1>5. /\ len \in Nat
      /\ DOMAIN g.events = 1 .. len
      /\ g.events \in Seq(GossipEvent)
  BY DEF Graph
<1>6. /\ event.seq = len + 1
      /\ event.tx = body.id
      /\ event.parents = parents
  OBVIOUS
<1> HIDE DEF len, event
<1>7. /\ DOMAIN n.events = 1 .. len + 1
      /\ n.events[len + 1] = event
      /\ \A i \in 1 .. len : n.events[i] = g.events[i]
  BY <1>1, <1>5 DEF len, event, LogGossip
<1> HIDE DEF parents
<1>8. ParentsPresent(n)
  BY <1>1, <1>2, <1>4 DEF WellFormed, ParentsPresent, KnownParents, NewNode
<1>9. EventsCausal(n)
  <2>1. ASSUME NEW i \in 1 .. len
        PROVE  /\ n.events[i].seq = i
               /\ n.events[i].tx \in Ids(g.nodes)
               /\ n.events[i].parents = n.nodes[n.events[i].tx].parents
               /\ \A p \in n.events[i].parents :
                    \E j \in 1 .. i - 1 : n.events[j].tx = p
    <3>1. /\ g.events[i].seq = i
          /\ g.events[i].tx \in Ids(g.nodes)
          /\ g.events[i].parents = g.nodes[g.events[i].tx].parents
          /\ \A p \in g.events[i].parents :
               \E j \in 1 .. i - 1 : g.events[j].tx = p
      BY <1>5 DEF WellFormed, EventsCausal
    <3>2. n.events[i] = g.events[i]
      BY <1>7
    <3>3. \A j \in 1 .. i - 1 : n.events[j] = g.events[j]
      BY <1>5, <1>7
    <3> QED
      BY <3>1, <3>2, <3>3, <1>4
  <2>2. \A p \in parents : \E j \in 1 .. len : n.events[j].tx = p
    <3>1. \A p \in Ids(g.nodes) : \E j \in 1 .. len : g.events[j].tx = p
      BY <1>5 DEF WellFormed, EventsCausal
    <3> QED
      BY <3>1, <1>2, <1>7
  <2>3. n.nodes[body.id].parents = parents
    BY <1>4 DEF NewNode
  <2>4. /\ n.events[len + 1].seq = len + 1
        /\ n.events[len + 1].tx \in Ids(n.nodes)
        /\ n.events[len + 1].parents = n.nodes[n.events[len + 1].tx].parents
        /\ \A p \in n.events[len + 1].parents :
             \E j \in 1 .. (len + 1) - 1 : n.events[j].tx = p
    <3>1. (len + 1) - 1 = len
      BY <1>5
    <3> QED
      BY <2>2, <2>3, <3>1, <1>1, <1>6, <1>7
  <2>5. \A i \in 1 .. len + 1 : i \in 1 .. len \/ i = len + 1
    BY <1>5
  <2>6. \A i, j \in 1 .. len : n.events[i].tx = n.events[j].tx => i = j
    <3>1. \A i, j \in 1 .. len : g.events[i].tx = g.events[j].tx => i = j
      BY <1>5 DEF WellFormed, EventsCausal
    <3> QED
      BY <3>1, <1>7
  <2>7. \A i \in 1 .. len : n.events[i].tx # body.id
    BY <2>1
  <2>8. \A i, j \in 1 .. len + 1 : n.events[i].tx = n.events[j].tx => i = j
    BY <2>5, <2>6, <2>7, <1>6, <1>7
  <2>9. \A t \in Ids(n.nodes) : \E i \in 1 .. len + 1 : n.events[i].tx = t
    <3>1. \A t \in Ids(g.nodes) : \E i \in 1 .. len : n.events[i].tx = t
      BY <1>5, <1>7 DEF WellFormed, EventsCausal
    <3>2. 1 .. len \subseteq 1 .. len + 1 /\ len + 1 \in 1 .. len + 1
      BY <1>5
    <3> QED
      BY <3>1, <3>2, <1>1, <1>6, <1>7
  <2> QED
    <3>1. \A i \in 1 .. len + 1 :
            /\ n.events[i].seq = i
            /\ n.events[i].tx \in Ids(n.nodes)
            /\ n.events[i].parents = n.nodes[n.events[i].tx].parents
            /\ \A p \in n.events[i].parents :
                 \E j \in 1 .. i - 1 : n.events[j].tx = p
      BY <2>1, <2>4, <2>5, <1>1
    <3> QED
      BY <3>1, <2>8, <2>9, <1>7 DEF EventsCausal
<1>10. VotesFollowEvents(n)
  <2>1. /\ g.votes \in Seq(Ranking)
        /\ DOMAIN g.votes = 1 .. len
        /\ Len(g.votes) = len
    <3>1. g.votes \in Seq(Ranking)
      BY DEF Graph
    <3>2. DOMAIN g.votes = 1 .. len
      BY <1>5 DEF WellFormed, VotesFollowEvents
    <3>3. Len(g.votes) \in Nat /\ DOMAIN g.votes = 1 .. Len(g.votes)
      BY <3>1
    <3> QED
      BY <3>1, <3>2, <3>3, <1>5
  <2>2. /\ DOMAIN n.votes = 1 .. len + 1
        /\ n.votes[len + 1] = RunVirtualVote(n.nodes)
        /\ \A i \in 1 .. len : n.votes[i] = g.votes[i]
    BY <2>1, <1>1, <1>5
  <2>3. Ranked(n.votes[len + 1]) = Ids(n.nodes)
    BY <2>2, <1>1, VoteRanksNodes DEF Graph
  <2>4. Ids(g.nodes) = {n.events[j].tx : j \in 1 .. len}
    <3>1. Ids(g.nodes) = {g.events[j].tx : j \in 1 .. len}
      BY <1>5 DEF WellFormed, EventsCausal
    <3> QED
      BY <3>1, <1>7
  <2>5. {n.events[j].tx : j \in 1 .. len + 1}
          = {n.events[j].tx : j \in 1 .. len} \cup {n.events[len + 1].tx}
    BY <1>5
  <2>6. Ids(n.nodes) = {n.events[j].tx : j \in 1 .. len + 1}
    BY <2>4, <2>5, <1>1, <1>6, <1>7
  <2>7. ASSUME NEW i \in 1 .. len
        PROVE  Ranked(n.votes[i]) = {n.events[j].tx : j \in 1 .. i}
    <3>1. Ranked(g.votes[i]) = {g.events[j].tx : j \in 1 .. i}
      BY <2>1 DEF WellFormed, VotesFollowEvents
    <3>2. \A j \in 1 .. i : n.events[j] = g.events[j]
      BY <1>5, <1>7
    <3> QED
      BY <3>1, <3>2, <2>2
  <2>8. \A i \in 1 .. len + 1 : i \in 1 .. len \/ i = len + 1
    BY <1>5
  <2> QED
    BY <2>2, <2>3, <2>6, <2>7, <2>8, <1>7 DEF VotesFollowEvents
<1>11. Sealed(n)
  <2>1. ASSUME NEW t \in Ids(g.nodes)
        PROVE  /\ n.nodes[t].tx.id = t
               /\ n.nodes[t].sig.body.id = t
               /\ n.nodes[t].hash = ComputeNodeHash(n.nodes[t].sig.body,
                                                    n.nodes[t].parents)
    BY <1>4 DEF WellFormed, Sealed
  <2>2. /\ n.nodes[body.id].tx = body
        /\ n.nodes[body.id].sig.body = body
        /\ n.nodes[body.id].hash = ComputeNodeHash(body, parents)
        /\ n.nodes[body.id].parents = parents
    BY <1>4 DEF NewNode, SignTransaction
  <2> QED
    BY <1>1, <2>1, <2>2 DEF Sealed
<1>12. VotesRespectParents(n)
  <2>1. /\ DOMAIN g.votes = 1 .. len
        /\ g.votes \in Seq(Ranking)
    BY <1>5 DEF Graph, WellFormed, VotesFollowEvents
  <2>2. Len(g.votes) = len
    <3>1. Len(g.votes) \in Nat /\ DOMAIN g.votes = 1 .. Len(g.votes)
      BY <2>1
    <3> QED
      BY <2>1, <3>1, <1>5
  <2>3. /\ DOMAIN n.votes = 1 .. len + 1
        /\ n.votes[len + 1] = RunVirtualVote(n.nodes)
        /\ \A i \in 1 .. len : n.votes[i] = g.votes[i]
    BY <2>1, <2>2, <1>1, <1>5
  <2>4. Ranked(n.votes[len + 1]) = Ids(n.nodes)
    BY <2>3, <1>1, VoteRanksNodes DEF Graph
  <2>5. /\ \A t, u \in Ids(n.nodes) :
             n.votes[len + 1][t] = n.votes[len + 1][u] => t = u
        /\ \A t \in Ids(n.nodes) : \A p \in n.nodes[t].parents :
             n.votes[len + 1][p] < n.votes[len + 1][t]
    BY <2>3, <1>1, <1>8, <1>9, VoteOrders
  <2>6. ASSUME NEW i \in 1 .. len
        PROVE  /\ \A t, u \in Ranked(n.votes[i]) :
                    n.votes[i][t] = n.votes[i][u] => t = u
               /\ \A t \in Ranked(n.votes[i]) : \A p \in n.nodes[t].parents :
                    n.votes[i][p] < n.votes[i][t]
    <3>1. n.votes[i] = g.votes[i]
      BY <2>3
    <3>2. Ranked(g.votes[i]) \subseteq Ids(g.nodes)
      <4>1. Ranked(g.votes[i]) = {g.events[j].tx : j \in 1 .. i}
        BY <2>1 DEF WellFormed, VotesFollowEvents
      <4>2. \A j \in 1 .. i : g.events[j].tx \in Ids(g.nodes)
        BY <1>5 DEF WellFormed, EventsCausal
      <4> QED
        BY <4>1, <4>2
    <3>3. /\ \A t, u \in Ranked(g.votes[i]) :
               g.votes[i][t] = g.votes[i][u] => t = u
          /\ \A t \in Ranked(g.votes[i]) : \A p \in g.nodes[t].parents :
               g.votes[i][p] < g.votes[i][t]
      BY <2>1 DEF WellFormed, VotesRespectParents
    <3> QED
      BY <3>1, <3>2, <3>3, <1>4
  <2>7. \A i \in 1 .. len + 1 : i \in 1 .. len \/ i = len + 1
    BY <1>5
  <2> QED
    BY <2>3, <2>4, <2>5, <2>6, <2>7 DEF VotesRespectParents
<1> QED
  BY <1>1, <1>4, <1>8, <1>9, <1>10, <1>11, <1>12 DEF WellFormed, n

\* Putting a node with the seal of the old one in its place keeps the type and
\* the order of the journal.
LEMMA PutNodeWellFormed ==
  ASSUME NEW g \in Graph, WellFormed(g), NEW t \in Ids(g.nodes),
         NEW node \in Node, node.tx.id = t, Seal(node) = Seal(g.nodes[t]),
         NEW n, n = PutNode(g, t, node)
  PROVE  /\ n \in Graph
         /\ WellFormed(n)
         /\ Ids(n.nodes) = Ids(g.nodes)
         /\ \A u \in Ids(n.nodes) : Seal(n.nodes[u]) = Seal(g.nodes[u])
<1>1. t \in Tx
  BY DEF Ids
<1>2. n = [nodes |-> [g.nodes EXCEPT ![t] = node], events |-> g.events,
           votes |-> g.votes]
  BY DEF PutNode
<1>3. n.nodes \in NodeMap /\ n \in Graph
  <2>1. g.nodes \in NodeMap /\ g.events \in Seq(GossipEvent)
          /\ g.votes \in Seq(Ranking)
    BY DEF Graph
  <2>2. n.nodes = [g.nodes EXCEPT ![t] = node]
    BY <1>2
  <2>3. n.nodes \in NodeMap
    BY <2>1, <2>2 DEF NodeMap
  <2> QED
    BY <1>2, <2>1, <2>3 DEF Graph
<1>4. Ids(n.nodes) = Ids(g.nodes)
  BY <1>1, <1>2, NoneAssumption DEF Ids, Graph, NodeMap
<1>5. /\ n.nodes[t] = node
      /\ \A u \in Ids(g.nodes) \ {t} : n.nodes[u] = g.nodes[u]
  BY <1>1, <1>2 DEF Ids, Graph, NodeMap
<1>6. \A u \in Ids(g.nodes) : /\ Seal(n.nodes[u]) = Seal(g.nodes[u])
                              /\ n.nodes[u].parents = g.nodes[u].parents
                              /\ n.nodes[u].sig = g.nodes[u].sig
                              /\ n.nodes[u].hash = g.nodes[u].hash
  BY <1>5 DEF Seal
<1>7. n.events = g.events /\ n.votes = g.votes
  BY <1>2
<1>8. ParentsPresent(n)
  BY <1>4, <1>6 DEF WellFormed, ParentsPresent, KnownParents
<1>9. EventsCausal(n)
  BY <1>4, <1>6, <1>7 DEF WellFormed, EventsCausal
<1>10. VotesFollowEvents(n)
  BY <1>7 DEF WellFormed, VotesFollowEvents
<1>11. Sealed(n)
  BY <1>4, <1>5, <1>6 DEF WellFormed, Sealed
<1>12. VotesRespectParents(n)
  <2>1. \A i \in DOMAIN g.votes : Ranked(g.votes[i]) \subseteq Ids(g.nodes)
    <3>1. DOMAIN g.votes = DOMAIN g.events /\ g.events \in Seq(GossipEvent)
      BY DEF Graph, WellFormed, VotesFollowEvents
    <3>2. ASSUME NEW i \in DOMAIN g.votes
          PROVE  Ranked(g.votes[i]) \subseteq Ids(g.nodes)
      <4>1. Ranked(g.votes[i]) = {g.events[j].tx : j \in 1 .. i}
        BY DEF WellFormed, VotesFollowEvents
      <4>2. \A j \in 1 .. i : j \in DOMAIN g.events
        BY <3>1
      <4>3. \A j \in DOMAIN g.events : g.events[j].tx \in Ids(g.nodes)
        BY DEF WellFormed, EventsCausal
      <4> QED
        BY <4>1, <4>2, <4>3
    <3> QED
      BY <3>2
  <2> QED
    BY <2>1, <1>6, <1>7 DEF WellFormed, VotesRespectParents
<1> QED
  BY <1>3, <1>4, <1>6, <1>8, <1>9, <1>10, <1>11, <1>12 DEF WellFormed

=============================================================================
