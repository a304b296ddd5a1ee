---------------------------- MODULE HashingProofs ----------------------------
(***************************************************************************)
(* What is computed over the graph of the journal and over its leaves:     *)
(* the Merkle root, and the load of an older file.                         *)
(*                                                                         *)
(* The Merkle root names the set of its leaves.  All hashes of a layer     *)
(* have the height of the layer, so that the root tells after how many     *)
(* layers it was reached; and a layer says which hashes the layer below it *)
(* has, although not in which order or how often each.  So two trees with  *)
(* the same root have the same hashes in every layer, down to the leaves.  *)
(*                                                                         *)
(* An older file whose graph is sound can be loaded, and the load keeps    *)
(* who descends from whom.  What a verify node leads to is right for its   *)
(* parents first, one id at a time; the passes of the recomputation reach  *)
(* a node more each, as long as one is left.                               *)
(*                                                                         *)
(* What is recursive is had from the least number for which it would fail. *)
(***************************************************************************)
EXTENDS Legacy, Merkle, TLAPS, FiniteSetTheorems, WellFoundedInduction

\* Some numbers have a least one.
LEMMA LeastNumber ==
  ASSUME NEW S \in SUBSET Nat, S # {}
  PROVE  \E n \in S : \A m \in S : n <= m
<1> DEFINE R == OpToRel(<, Nat)
<1>1. IsWellFoundedOn(R, Nat)
  BY NatLessThanWellFounded
<1> HIDE DEF R
<1>2. PICK n \in S : \A m \in S : ~ (<<m, n>> \in R)
  BY <1>1, WFMin
<1>3. \A m \in S : ~ (m < n)
  BY <1>2 DEF R, OpToRel
<1> QED
  BY <1>3

-----------------------------------------------------------------------------
(***************************************************************************)
(* The sorted leaves.                                                      *)
(***************************************************************************)

\* The place of a leaf among the leaves.
Place(ids, n) == Cardinality({m \in ids : m <= n})

\* Leaves have different places, and every place is that of a leaf.
LEMMA PlacesDiffer ==
  ASSUME NEW ids \in SUBSET Nat, IsFiniteSet(ids)
  PROVE  /\ Cardinality(ids) \in Nat
         /\ \A n \in ids : Place(ids, n) \in 1 .. Cardinality(ids)
         /\ \A n, m \in ids : Place(ids, n) = Place(ids, m) => n = m
         /\ \A i \in 1 .. Cardinality(ids) : \E n \in ids : Place(ids, n) = i
<1> DEFINE UpTo(n) == {m \in ids : m <= n}
           card == Cardinality(ids)
           place == [n \in ids |-> Place(ids, n)]
<1>1. card \in Nat
  BY FS_CardinalityType
<1>2. \A n \in ids : /\ IsFiniteSet(UpTo(n))
                     /\ Place(ids, n) \in Nat
                     /\ Place(ids, n) <= card
  BY FS_Subset, FS_CardinalityType DEF Place
<1>3. \A n \in ids : Place(ids, n) # 0
  <2> SUFFICES ASSUME NEW n \in ids PROVE Place(ids, n) # 0
    OBVIOUS
  <2>1. n \in UpTo(n)
    OBVIOUS
  <2> QED
    BY <2>1, <1>2, FS_EmptySet DEF Place
<1>4. ASSUME NEW n \in ids, NEW m \in ids, n < m
      PROVE  Place(ids, n) # Place(ids, m)
  <2>1. UpTo(n) \subseteq UpTo(m)
    <3> SUFFICES ASSUME NEW i \in ids, i <= n
                 PROVE  i <= m
      OBVIOUS
    <3>1. i \in Nat /\ n \in Nat /\ m \in Nat
      OBVIOUS
    <3> QED
      BY <3>1, <1>4
  <2>4. m \in UpTo(m) /\ m \notin UpTo(n)
    <3>1. n \in Nat /\ m \in Nat
      OBVIOUS
    <3> QED
      BY <3>1, <1>4
  <2>2. IsFiniteSet(UpTo(m))
    BY <1>2
  <2> HIDE DEF UpTo
  <2>3. Cardinality(UpTo(n)) # Cardinality(UpTo(m))
    BY <2>1, <2>4, <2>2, FS_Subset
  <2> QED
    BY <2>3 DEF Place, UpTo
<1>5. \A n, m \in ids : Place(ids, n) = Place(ids, m) => n = m
  BY <1>4
<1>6. \A n \in ids : Place(ids, n) \in 1 .. card
  <2> SUFFICES ASSUME NEW n \in ids PROVE Place(ids, n) \in 1 .. card
    OBVIOUS
  <2>1. Place(ids, n) \in Nat /\ Place(ids, n) <= card /\ Place(ids, n) # 0
    BY <1>2, <1>3
  <2> QED
    BY <2>1, <1>1
<1>7. place \in Injection(ids, 1 .. card)
  BY <1>5, <1>6 DEF Injection, IsInjective
<1>8. IsFiniteSet(1 .. card) /\ Cardinality(1 .. card) = card
  BY <1>1, FS_Interval
<1>9. place \in Surjection(ids, 1 .. card)
  <2> HIDE DEF place
  <2> QED
    BY <1>7, <1>8, FS_Injection
<1>10. \A i \in 1 .. card : \E n \in ids : Place(ids, n) = i
  BY <1>9 DEF Surjection
<1> QED
  BY <1>1, <1>5, <1>6, <1>10

Hashes(layer) == {layer[i] : i \in 1 .. Len(layer)}

\* A layer of hashes of height h.
IsLayer(layer, h) ==
  /\ Len(layer) \in Nat \ {0}
  /\ DOMAIN layer = 1 .. Len(layer)
  /\ \A x \in Hashes(layer) : x[1] = h

\* The sorted leaves are the leaves.
LEMMA SortedLeavesFacts ==
  ASSUME NEW ids \in SUBSET Nat, IsFiniteSet(ids), ids # {}
  PROVE  /\ IsLayer(SortedLeaves(ids), 0)
         /\ Hashes(SortedLeaves(ids)) = {LeafHash(n) : n \in ids}
<1> DEFINE leaves == SortedLeaves(ids)
           card == Cardinality(ids)
           At(i) == CHOOSE n \in ids : Place(ids, n) = i
<1>1. card \in Nat \ {0}
  BY PlacesDiffer, FS_EmptySet
<1>2. leaves = [i \in 1 .. card |-> LeafHash(At(i))]
  BY DEF SortedLeaves, Place
<1>3. \A i \in 1 .. card : At(i) \in ids /\ Place(ids, At(i)) = i
  BY PlacesDiffer
<1>4. \A n \in ids : Place(ids, n) \in 1 .. card /\ At(Place(ids, n)) = n
  BY <1>3, PlacesDiffer
<1> HIDE DEF At, card
<1>5. Len(leaves) = card /\ DOMAIN leaves = 1 .. card
  BY <1>1, <1>2
<1>6. \A i \in 1 .. card : leaves[i] = LeafHash(At(i))
  BY <1>2
<1> HIDE DEF leaves
<1>7. Hashes(leaves) = {LeafHash(n) : n \in ids}
  <2>1. Hashes(leaves) \subseteq {LeafHash(n) : n \in ids}
    BY <1>3, <1>5, <1>6 DEF Hashes
  <2>2. ASSUME NEW n \in ids PROVE LeafHash(n) \in Hashes(leaves)
    <3>1. Place(ids, n) \in 1 .. card /\ leaves[Place(ids, n)] = LeafHash(n)
      BY <1>4, <1>6
    <3> QED
      BY <3>1, <1>5 DEF Hashes
  <2> QED
    BY <2>1, <2>2
<1>8. IsLayer(leaves, 0)
  BY <1>1, <1>5, <1>7 DEF IsLayer, LeafHash
<1> QED
  BY <1>7, <1>8 DEF leaves

-----------------------------------------------------------------------------
(***************************************************************************)
(* The layers.                                                             *)
(***************************************************************************)

\* What the next layer tells of a layer: its hashes, but not their order.
LEMMA NextLayerFacts ==
  ASSUME NEW h \in Nat, NEW layer, IsLayer(layer, h)
  PROVE  /\ IsLayer(NextLayer(layer), h + 1)
         /\ Len(layer) > 1 => Len(NextLayer(layer)) < Len(layer)
         /\ Hashes(layer) = UNION {x[2] : x \in Hashes(NextLayer(layer))}
<1> DEFINE next == NextLayer(layer)
           len == Len(layer)
           half == (len + 1) \div 2
           Second(i) == IF 2 * i <= len THEN 2 * i ELSE 2 * i - 1
<1>1. len \in Nat \ {0} /\ half \in Nat \ {0} /\ (len > 1 => half < len)
  BY DEF IsLayer
<1>2. next = [i \in 1 .. half |->
                SHA256Pair(layer[2 * i - 1], layer[Second(i)])]
  BY DEF NextLayer
<1>3. \A i \in 1 .. half : 2 * i - 1 \in 1 .. len /\ Second(i) \in 1 .. len
  BY <1>1
<1>4. \A j \in 1 .. len : \E i \in 1 .. half : j = 2 * i - 1 \/ j = Second(i)
  <2> SUFFICES ASSUME NEW j \in 1 .. len
               PROVE  \E i \in 1 .. half : j = 2 * i - 1 \/ j = Second(i)
    OBVIOUS
  <2>1. (j + 1) \div 2 \in 1 .. half
    BY <1>1
  <2>2. j = 2 * ((j + 1) \div 2) - 1 \/ j = 2 * ((j + 1) \div 2)
    BY <1>1
  <2> QED
    BY <2>1, <2>2
<1> HIDE DEF half, Second
<1>5. Len(next) = half /\ DOMAIN next = 1 .. half
  BY <1>1, <1>2
<1>6. \A i \in 1 .. half :
        next[i] = SHA256Pair(layer[2 * i - 1], layer[Second(i)])
  BY <1>2
<1> HIDE DEF next, len
<1>7. \A i \in 1 .. half :
        /\ next[i][1] = h + 1
        /\ next[i][2] = {layer[2 * i - 1], layer[Second(i)]}
  <2> SUFFICES ASSUME NEW i \in 1 .. half
               PROVE  /\ next[i][1] = h + 1
                      /\ next[i][2] = {layer[2 * i - 1], layer[Second(i)]}
    OBVIOUS
  <2>1. layer[2 * i - 1] \in Hashes(layer)
    BY <1>3 DEF Hashes, len
  <2>2. layer[2 * i - 1][1] = h
    BY <2>1 DEF IsLayer
  <2> QED
    BY <2>2, <1>6 DEF SHA256Pair
<1>8. IsLayer(next, h + 1)
  BY <1>1, <1>5, <1>7 DEF IsLayer, Hashes
<1>9. ASSUME NEW x \in Hashes(layer)
      PROVE  x \in UNION {y[2] : y \in Hashes(next)}
  <2>1. PICK j \in 1 .. len : x = layer[j]
    BY DEF Hashes, len
  <2>2. PICK i \in 1 .. half : j = 2 * i - 1 \/ j = Second(i)
    BY <1>4
  <2>3. x \in next[i][2] /\ next[i] \in Hashes(next)
    BY <2>1, <2>2, <1>5, <1>7 DEF Hashes
  <2> QED
    BY <2>3
<1>10. ASSUME NEW x \in UNION {y[2] : y \in Hashes(next)}
       PROVE  x \in Hashes(layer)
  <2>1. PICK i \in 1 .. half : x \in next[i][2]
    BY <1>5 DEF Hashes
  <2>2. x = layer[2 * i - 1] \/ x = layer[Second(i)]
    BY <2>1, <1>7
  <2>3. \A j \in 1 .. len : layer[j] \in Hashes(layer)
    BY DEF Hashes, len
  <2> QED
    BY <2>2, <2>3, <1>3
<1> QED
  BY <1>1, <1>5, <1>8, <1>9, <1>10 DEF next, len

\* The layer above a layer, and a root above itself.
Above(layer) == IF Len(layer) = 1 THEN layer ELSE NextLayer(layer)

\* f[0] to f[n] are the layers over the leaves.
AreLayers(f, leaves, n) ==
  f = [k \in 0 .. n |-> IF k = 0 THEN leaves ELSE Above(f[k - 1])]

\* There are so many layers as one asks for.
LEMMA LayersExist ==
  ASSUME NEW leaves, NEW n \in Nat
  PROVE  \E f : AreLayers(f, leaves, n)
<1> DEFINE Bad == {k \in Nat : ~ \E f : AreLayers(f, leaves, k)}
<1> SUFFICES ASSUME Bad # {} PROVE FALSE
  OBVIOUS
<1>1. PICK k \in Bad : \A m \in Bad : k <= m
  <2> HIDE DEF Bad
  <2>1. Bad \in SUBSET Nat
    BY DEF Bad
  <2> QED
    BY <2>1, LeastNumber
<1>2. CASE k = 0
  <2> DEFINE f == [j \in 0 .. 0 |-> leaves]
  <2>1. AreLayers(f, leaves, 0)
    BY DEF AreLayers
  <2> QED
    BY <1>2, <2>1
<1>3. CASE k # 0
  <2>1. k - 1 \in Nat /\ k - 1 \notin Bad
    BY <1>1, <1>3
  <2>2. PICK f : AreLayers(f, leaves, k - 1)
    BY <2>1
  <2> DEFINE g == [j \in 0 .. k |-> IF j = 0 THEN leaves ELSE Above(f[j - 1])]
  <2>3. \A j \in 0 .. k - 1 : g[j] = f[j]
    <3>1. \A j \in 0 .. k - 1 : j \in 0 .. k
      BY <2>1
    <3>2. \A j \in 0 .. k - 1 :
            f[j] = IF j = 0 THEN leaves ELSE Above(f[j - 1])
      <4> HIDE DEF g, Bad
      <4> QED
        BY <2>2 DEF AreLayers
    <3> QED
      BY <3>1, <3>2
  <2>4. \A j \in 0 .. k : j # 0 => g[j - 1] = f[j - 1]
    <3> HIDE DEF g
    <3>1. \A j \in 0 .. k : j # 0 => j - 1 \in 0 .. k - 1
      BY <2>1
    <3> QED
      BY <2>3, <3>1
  <2>5. AreLayers(g, leaves, k)
    BY <2>4 DEF AreLayers
  <2> QED
    BY <2>5
<1> QED
  BY <1>2, <1>3

\* As long as no layer is a root, each is higher and shorter than the one below.
LEMMA LayersRise ==
  ASSUME NEW leaves, IsLayer(leaves, 0), NEW n \in Nat,
         NEW f, AreLayers(f, leaves, n),
         NEW t \in 0 .. n, \A k \in 0 .. t : k # t => Len(f[k]) # 1
  PROVE  \A k \in 0 .. t : IsLayer(f[k], k) /\ Len(f[k]) + k <= Len(leaves)
<1> DEFINE Right(k) == IsLayer(f[k], k) /\ Len(f[k]) + k <= Len(leaves)
           Bad == {k \in 0 .. t : ~ Right(k)}
<1> SUFFICES ASSUME Bad # {} PROVE FALSE
  OBVIOUS
<1>1. PICK k \in Bad : \A m \in Bad : k <= m
  <2>1. Bad \in SUBSET Nat
    OBVIOUS
  <2> HIDE DEF Bad
  <2> QED
    BY <2>1, LeastNumber
<1>2. k \in 0 .. t /\ ~ Right(k)
  OBVIOUS
<1>3. k # 0
  <2>1. f[0] = leaves
    BY DEF AreLayers
  <2>2. Right(0)
    BY <2>1 DEF IsLayer
  <2> QED
    BY <1>2, <2>2
<1>4. k - 1 \in 0 .. t /\ k - 1 \in Nat /\ Right(k - 1)
  <2>1. k - 1 \in 0 .. t /\ k - 1 \notin Bad
    BY <1>1, <1>3
  <2> QED
    BY <2>1
<1>5. f[k] = NextLayer(f[k - 1])
  <2>1. f[k] = Above(f[k - 1])
    BY <1>2, <1>3 DEF AreLayers
  <2>2. Len(f[k - 1]) # 1
    BY <1>2, <1>4
  <2> QED
    BY <2>1, <2>2 DEF Above
<1>6. /\ IsLayer(f[k], k - 1 + 1)
      /\ Len(f[k - 1]) > 1 => Len(f[k]) < Len(f[k - 1])
  BY <1>4, <1>5, NextLayerFacts
<1>7. Len(f[k - 1]) \in Nat /\ Len(f[k - 1]) > 1 /\ Len(f[k]) \in Nat
      /\ Len(leaves) \in Nat
  <2>1. Len(f[k - 1]) # 1
    BY <1>2, <1>4
  <2>2. IsLayer(f[k - 1], k - 1)
    BY <1>4
  <2>3. Len(f[k - 1]) \in Nat \ {0}
    BY <2>2 DEF IsLayer
  <2>4. Len(f[k]) \in Nat
    BY <1>6 DEF IsLayer
  <2>5. Len(leaves) \in Nat
    BY DEF IsLayer
  <2> HIDE DEF Bad, Right
  <2>6. \A l \in Nat \ {0} : l # 1 => l > 1
    OBVIOUS
  <2> QED
    BY <2>1, <2>3, <2>4, <2>5, <2>6
<1>8. k - 1 + 1 = k
  BY <1>2
<1>9. Len(f[k]) + k <= Len(leaves)
  <2>1. Len(f[k]) < Len(f[k - 1]) /\ Len(f[k - 1]) + (k - 1) <= Len(leaves)
    BY <1>4, <1>6, <1>7
  <2>2. k \in Nat
    BY <1>2
  <2> HIDE DEF Bad, Right
  <2> QED
    BY <2>1, <2>2, <1>7
<1> QED
  BY <1>2, <1>6, <1>8, <1>9

\* Layer t is the first of one hash: the root.
RootAt(f, t) ==
  /\ Len(f[t]) = 1
  /\ \A k \in 0 .. t : k # t => Len(f[k]) # 1

\* Among so many layers as there are leaves there is a root, and it is the last.
LEMMA RootReached ==
  ASSUME NEW leaves, IsLayer(leaves, 0), NEW n, n = Len(leaves),
         NEW f, AreLayers(f, leaves, n)
  PROVE  \E t \in 0 .. n : RootAt(f, t) /\ f[n] = f[t]
<1> DEFINE Single == {k \in 0 .. n : Len(f[k]) = 1}
<1>1. n \in Nat \ {0}
  BY DEF IsLayer
<1>2. Single # {}
  <2> SUFFICES ASSUME Single = {} PROVE FALSE
    OBVIOUS
  <2>1. \A k \in 0 .. n : Len(f[k]) # 1
    OBVIOUS
  <2>2. n \in 0 .. n
    BY <1>1
  <2> HIDE DEF Single
  <2>3. IsLayer(f[n], n) /\ Len(f[n]) + n <= n
    BY <2>1, <2>2, <1>1, LayersRise
  <2> QED
    BY <2>3, <1>1 DEF IsLayer
<1>3. PICK t \in Single : \A k \in Single : t <= k
  <2>1. Single \in SUBSET Nat
    BY <1>1
  <2> HIDE DEF Single
  <2> QED
    BY <2>1, <1>2, LeastNumber
<1>4. t \in 0 .. n /\ RootAt(f, t)
  BY <1>1, <1>3 DEF RootAt
<1>5. \A k \in t .. n : f[k] = f[t]
  <2> DEFINE Bad == {k \in t .. n : f[k] # f[t]}
  <2> SUFFICES ASSUME Bad # {} PROVE FALSE
    OBVIOUS
  <2>1. PICK k \in Bad : \A m \in Bad : k <= m
    <3>1. Bad \in SUBSET Nat
      BY <1>1, <1>4
    <3> HIDE DEF Bad
    <3> QED
      BY <3>1, LeastNumber
  <2>2. k \in t .. n /\ f[k] # f[t] /\ k \in 1 .. n
    BY <1>1, <1>4
  <2>3. k - 1 \in t .. n /\ k - 1 \notin Bad
    BY <1>1, <1>4, <2>1, <2>2
  <2>4. f[k - 1] = f[t]
    BY <2>3
  <2>5. f[k] = Above(f[k - 1])
    BY <1>1, <2>2 DEF AreLayers
  <2> QED
    BY <2>2, <2>4, <2>5, <1>4 DEF Above, RootAt
<1> QED
  BY <1>1, <1>4, <1>5

\* Trees with the same root have the same leaves.
LEMMA SameRootSameLeaves ==
  ASSUME NEW a, IsLayer(a, 0), NEW b, IsLayer(b, 0),
         NEW f, AreLayers(f, a, Len(a)), NEW g, AreLayers(g, b, Len(b)),
         f[Len(a)][1] = g[Len(b)][1]
  PROVE  Hashes(a) = Hashes(b)
<1>1. PICK t \in 0 .. Len(a) : RootAt(f, t) /\ f[Len(a)] = f[t]
  BY RootReached
<1>2. PICK u \in 0 .. Len(b) : RootAt(g, u) /\ g[Len(b)] = g[u]
  BY RootReached
<1>3. Len(a) \in Nat /\ Len(b) \in Nat
  BY DEF IsLayer
<1>4. \A k \in 0 .. t : IsLayer(f[k], k)
  BY <1>1, <1>3, LayersRise DEF RootAt
<1>5. \A k \in 0 .. u : IsLayer(g[k], k)
  BY <1>2, <1>3, LayersRise DEF RootAt
<1>6. /\ IsLayer(f[t], t) /\ Hashes(f[t]) = {f[t][1]}
      /\ IsLayer(g[u], u) /\ Hashes(g[u]) = {g[u][1]}
  BY <1>1, <1>2, <1>3, <1>4, <1>5 DEF RootAt, Hashes
<1>7. Hashes(f[t]) = Hashes(g[u])
  BY <1>1, <1>2, <1>6
<1>8. t = u
  BY <1>6, <1>7 DEF IsLayer
<1>9. \A k \in 0 .. t : k # t =>
        /\ f[k + 1] = NextLayer(f[k])
        /\ g[k + 1] = NextLayer(g[k])
  <2> SUFFICES ASSUME NEW k \in 0 .. t, k # t
               PROVE  /\ f[k + 1] = NextLayer(f[k])
                      /\ g[k + 1] = NextLayer(g[k])
    OBVIOUS
  <2>1. /\ k + 1 \in 0 .. Len(a) /\ k + 1 \in 0 .. Len(b)
        /\ k + 1 # 0 /\ k + 1 - 1 = k
    BY <1>1, <1>2, <1>3, <1>8
  <2>2. f[k + 1] = Above(f[k]) /\ g[k + 1] = Above(g[k])
    BY <2>1 DEF AreLayers
  <2> QED
    BY <2>2, <1>1, <1>2, <1>8 DEF Above, RootAt
<1>10. \A k \in 0 .. t : Hashes(f[k]) = Hashes(g[k])
  <2> DEFINE Bad == {i \in 0 .. t : Hashes(f[t - i]) # Hashes(g[t - i])}
  <2>1. t \in Nat
    BY <1>1, <1>3
  <2>2. Bad = {}
    <3> SUFFICES ASSUME Bad # {} PROVE FALSE
      OBVIOUS
    <3>1. PICK i \in Bad : \A m \in Bad : i <= m
      <4>1. Bad \in SUBSET Nat
        BY <2>1
      <4> HIDE DEF Bad
      <4> QED
        BY <4>1, LeastNumber
    <3>2. i \in 0 .. t /\ Hashes(f[t - i]) # Hashes(g[t - i])
      OBVIOUS
    <3>3. i # 0
      BY <3>2, <2>1, <1>7, <1>8
    <3>4. i - 1 \in 0 .. t /\ i - 1 \notin Bad
      BY <3>1, <3>2, <3>3, <2>1
    <3>5. Hashes(f[t - (i - 1)]) = Hashes(g[t - (i - 1)])
      BY <3>4
    <3>6. /\ t - i \in 0 .. t /\ t - i # t /\ t - i \in Nat
          /\ t - (i - 1) = (t - i) + 1
      BY <3>2, <3>3, <2>1
    <3>7. /\ f[t - i + 1] = NextLayer(f[t - i])
          /\ g[t - i + 1] = NextLayer(g[t - i])
      BY <3>6, <1>9
    <3>8. IsLayer(f[t - i], t - i) /\ IsLayer(g[t - i], t - i)
      BY <3>6, <1>4, <1>5, <1>8
    <3>9. /\ Hashes(f[t - i])
               = UNION {x[2] : x \in Hashes(NextLayer(f[t - i]))}
          /\ Hashes(g[t - i])
               = UNION {x[2] : x \in Hashes(NextLayer(g[t - i]))}
      BY <3>6, <3>8, NextLayerFacts
    <3> HIDE DEF Bad
    <3> QED
      BY <3>2, <3>5, <3>6, <3>7, <3>9
  <2>3. \A k \in 0 .. t : t - k \in 0 .. t /\ t - (t - k) = k
    BY <2>1
  <2> QED
    BY <2>2, <2>3
<1>11. f[0] = a /\ g[0] = b
  BY <1>3 DEF AreLayers
<1>12. 0 \in 0 .. t
  BY <1>1, <1>3
<1> QED
  BY <1>10, <1>11, <1>12

-----------------------------------------------------------------------------
(***************************************************************************)
(* The root.                                                               *)
(***************************************************************************)

\* The root is the one hash of the last layer.
LEMMA RootIsLast ==
  ASSUME NEW ids \in SUBSET Nat, IsFiniteSet(ids), ids # {}
  PROVE  \E f : /\ AreLayers(f, SortedLeaves(ids), Len(SortedLeaves(ids)))
                /\ MerkleRoot(ids) = f[Len(SortedLeaves(ids))][1]
<1> DEFINE leaves == SortedLeaves(ids)
           layer == CHOOSE f : AreLayers(f, leaves, Len(leaves))
<1>1. IsLayer(leaves, 0)
  BY SortedLeavesFacts
<1>2. Len(leaves) \in Nat \ {0}
  BY <1>1 DEF IsLayer
<1>3. leaves # <<>>
  BY <1>2
<1>4. AreLayers(layer, leaves, Len(leaves))
  <2> HIDE DEF leaves
  <2>1. \E f : AreLayers(f, leaves, Len(leaves))
    BY <1>2, LayersExist
  <2> QED
    BY <2>1
<1>5. MerkleRoot(ids) = layer[Len(leaves)][1]
  BY <1>3 DEF MerkleRoot, AreLayers, Above
<1> QED
  BY <1>4, <1>5

\* Sets with the same root are the same.
LEMMA RootNames ==
  ASSUME NEW S \in SUBSET LeafId, NEW T \in SUBSET LeafId, S # {},
         MerkleRoot(S) = MerkleRoot(T)
  PROVE  S = T
<1>1. /\ S \in SUBSET Nat /\ IsFiniteSet(S) /\ 0 \notin S
      /\ T \in SUBSET Nat /\ IsFiniteSet(T) /\ 0 \notin T
  BY MerkleAssumption, FS_Subset
<1>2. PICK f : /\ AreLayers(f, SortedLeaves(S), Len(SortedLeaves(S)))
               /\ MerkleRoot(S) = f[Len(SortedLeaves(S))][1]
  BY <1>1, RootIsLast
<1>3. /\ IsLayer(SortedLeaves(S), 0)
      /\ Hashes(SortedLeaves(S)) = {LeafHash(n) : n \in S}
  BY <1>1, SortedLeavesFacts
<1>4. CASE T = {}
  <2>1. MerkleRoot(T) = LeafHash(0)
    <3>1. Cardinality(T) = 0
      BY <1>4, FS_EmptySet
    <3>2. SortedLeaves(T) = <<>>
      BY <3>1 DEF SortedLeaves
    <3> QED
      BY <3>2 DEF MerkleRoot
  <2> DEFINE leaves == SortedLeaves(S)
  <2>2. PICK t \in 0 .. Len(leaves) : RootAt(f, t) /\ f[Len(leaves)] = f[t]
    <3> HIDE DEF leaves
    <3> QED
      BY <1>2, <1>3, RootReached DEF leaves
  <2>3. Len(leaves) \in Nat
    BY <1>3 DEF IsLayer
  <2>4. IsLayer(f[t], t)
    <3> HIDE DEF leaves
    <3>1. \A k \in 0 .. t : IsLayer(f[k], k)
      BY <1>2, <1>3, <2>2, <2>3, LayersRise DEF RootAt, leaves
    <3> QED
      BY <3>1, <2>2, <2>3
  <2>5. f[t][1] \in Hashes(f[t])
    BY <2>2 DEF RootAt, Hashes
  <2>6. f[t][1] = LeafHash(0)
    BY <1>2, <2>1, <2>2
  <2>7. t = 0
    BY <2>4, <2>5, <2>6 DEF IsLayer, LeafHash
  <2>8. f[t] = leaves
    BY <1>2, <2>3, <2>7 DEF AreLayers
  <2>9. PICK n \in S : LeafHash(0) = LeafHash(n)
    BY <1>3, <2>5, <2>6, <2>8
  <2> QED
    BY <2>9, <1>1 DEF LeafHash
<1>5. CASE T # {}
  <2>1. PICK g : /\ AreLayers(g, SortedLeaves(T), Len(SortedLeaves(T)))
                 /\ MerkleRoot(T) = g[Len(SortedLeaves(T))][1]
    BY <1>1, <1>5, RootIsLast
  <2>2. /\ IsLayer(SortedLeaves(T), 0)
        /\ Hashes(SortedLeaves(T)) = {LeafHash(n) : n \in T}
    BY <1>1, <1>5, SortedLeavesFacts
  <2>3. {LeafHash(n) : n \in S} = {LeafHash(n) : n \in T}
    BY <1>2, <1>3, <2>1, <2>2, SameRootSameLeaves
  <2>4. \A n \in S : \E m \in T : LeafHash(n) = LeafHash(m)
    BY <2>3
  <2>5. \A m \in T : \E n \in S : LeafHash(n) = LeafHash(m)
    BY <2>3
  <2> QED
    BY <2>4, <2>5 DEF LeafHash
<1> QED
  BY <1>4, <1>5

\* In every journal the root over its transactions is the root of no other set
\* of them, not of an empty one either, however odd the layers are (hash.go
\* 23-41, server.go 470-516).
THEOREM RootNamesSetAlways == MerkleSpec => []RootNamesSet
<1> DEFINE Known == leafIds \subseteq LeafId
<1>1. MerkleInit => Known
  BY DEF MerkleInit
<1>2. Known /\ [MerkleNext]_leafIds => Known'
  BY DEF MerkleNext, AddLeaf, ClearLeaves
<1>3. Known => RootNamesSet
  BY RootNames DEF RootNamesSet
<1> QED
  BY <1>1, <1>2, <1>3, PTL DEF MerkleSpec

-----------------------------------------------------------------------------
(***************************************************************************)
(* Loading an older file: what the recursive functions compute.            *)
(***************************************************************************)

\* A journal as it can be in a file: its nodes name ids.
WellShaped(g) ==
  /\ DOMAIN g \subseteq Ident
  /\ \A i \in DOMAIN g :
       /\ g[i] = [parents |-> g[i].parents, verify |-> g[i].verify,
                  hash |-> g[i].hash]
       /\ g[i].parents \subseteq Ident

\* What an id leads to, given what its parents lead to.
Expand(g, f, q) ==
  IF q \in VerifyIds(g) THEN UNION {f[r] : r \in g[q].parents} ELSE {q}

\* f is right for some ids, among which are the parents of their verify nodes.
Expands(g, f, some) ==
  /\ \A q \in some : f[q] = Expand(g, f, q)
  /\ \A q \in some \cap VerifyIds(g) : g[q].parents \subseteq some

\* If f is not right for all ids, it can be right for one more.
LEMMA ExpandsMore ==
  ASSUME NEW g, WellShaped(g), Returns(g),
         NEW some \in SUBSET Ident, some # Ident, NEW f, Expands(g, f, some)
  PROVE  \E q \in Ident \ some : \E e : Expands(g, e, some \cup {q})
<1> DEFINE rest == Ident \ some
<1>1. PICK q \in rest : q \in VerifyIds(g) => g[q].parents \subseteq some
  <2>1. CASE rest \subseteq VerifyIds(g)
    <3>1. rest \in SUBSET VerifyIds(g) /\ rest # {}
      BY <2>1
    <3>2. PICK q \in rest : g[q].parents \cap rest = {}
      <4> HIDE DEF rest
      <4> QED
        BY <3>1 DEF Returns, Acyclic
    <3>3. g[q].parents \subseteq Ident
      BY <2>1, <3>2 DEF WellShaped, VerifyIds, Present
    <3> QED
      BY <3>2, <3>3
  <2>2. CASE ~ (rest \subseteq VerifyIds(g))
    BY <2>2
  <2> QED
    BY <2>1, <2>2
<1> DEFINE e == [p \in some \cup {q} |->
                  IF p = q THEN Expand(g, f, q) ELSE f[p]]
<1>2. \A p \in some : e[p] = f[p]
  OBVIOUS
<1>3. e[q] = Expand(g, f, q)
  OBVIOUS
<1> HIDE DEF e
<1>4. ASSUME NEW p \in some \cup {q} PROVE e[p] = Expand(g, e, p)
  <2>1. p \in VerifyIds(g) => g[p].parents \subseteq some
    BY <1>1 DEF Expands
  <2>2. Expand(g, e, p) = Expand(g, f, p)
    BY <1>2, <2>1 DEF Expand
  <2>3. e[p] = Expand(g, f, p)
    BY <1>2, <1>3 DEF Expands
  <2> QED
    BY <2>2, <2>3
<1>5. Expands(g, e, some \cup {q})
  BY <1>1, <1>4 DEF Expands
<1> QED
  BY <1>5

\* So it can be right for all.
LEMMA ExpandsAll ==
  ASSUME NEW g, WellShaped(g), Returns(g)
  PROVE  \E f : Expands(g, f, Ident)
<1> DEFINE card == Cardinality(Ident)
           Left == {k \in Nat : \E some \in SUBSET Ident :
                      /\ k = card - Cardinality(some)
                      /\ \E f : Expands(g, f, some)}
<1>1. /\ IsFiniteSet(Ident) /\ card \in Nat
      /\ \A some \in SUBSET Ident :
           /\ IsFiniteSet(some)
           /\ Cardinality(some) \in Nat /\ Cardinality(some) <= card
  BY LegacyAssumption, FS_CardinalityType, FS_Subset
<1>2. Left # {}
  <2>1. \A f : Expands(g, f, {})
    BY DEF Expands
  <2>2. card = card - Cardinality({}) /\ {} \in SUBSET Ident
    BY <1>1, FS_EmptySet
  <2> QED
    BY <1>1, <2>1, <2>2
<1>3. PICK k \in Left : \A l \in Left : k <= l
  <2>1. Left \in SUBSET Nat
    OBVIOUS
  <2> HIDE DEF Left
  <2> QED
    BY <1>2, <2>1, LeastNumber
<1>4. PICK some \in SUBSET Ident :
        k = card - Cardinality(some) /\ \E f : Expands(g, f, some)
  OBVIOUS
<1>5. ASSUME some # Ident PROVE FALSE
  <2>1. PICK f : Expands(g, f, some)
    BY <1>4
  <2>2. PICK q \in Ident \ some : \E e : Expands(g, e, some \cup {q})
    BY <1>5, <2>1, ExpandsMore
  <2>3. /\ some \cup {q} \in SUBSET Ident
        /\ Cardinality(some \cup {q}) = Cardinality(some) + 1
    BY <1>1, <2>2, FS_AddElement
  <2>4. card - Cardinality(some \cup {q}) \in Left
    <3>1. card - Cardinality(some \cup {q}) \in Nat
      BY <1>1, <2>3
    <3> HIDE DEF card
    <3> QED
      BY <2>2, <2>3, <3>1
  <2>5. /\ Cardinality(some) \in Nat
        /\ card - (Cardinality(some) + 1) < card - Cardinality(some)
    BY <1>1
  <2>6. k <= card - Cardinality(some \cup {q})
    BY <1>3, <2>4
  <2> HIDE DEF Left, card
  <2> QED
    BY <1>1, <1>4, <2>3, <2>5, <2>6
<1> QED
  BY <1>4, <1>5

\* Bypass does what its definition says.
LEMMA BypassFacts ==
  ASSUME NEW g, WellShaped(g), Returns(g)
  PROVE  /\ \A p \in Ident \ VerifyIds(g) : Bypass(g, p) = {p}
         /\ \A p \in VerifyIds(g) :
              Bypass(g, p) = UNION {Bypass(g, r) : r \in g[p].parents}
<1> DEFINE Right(f) == f = [q \in Ident |-> Expand(g, f, q)]
           expand == CHOOSE f : Right(f)
<1>1. Right(expand)
  <2>1. PICK f : Expands(g, f, Ident)
    BY ExpandsAll
  <2> DEFINE e == [q \in Ident |-> f[q]]
  <2>2. \A q \in Ident : Expand(g, e, q) = Expand(g, f, q)
    <3>1. \A q \in Ident : e[q] = f[q]
      OBVIOUS
    <3> HIDE DEF e
    <3>2. \A q \in VerifyIds(g) : \A r \in g[q].parents : e[r] = f[r]
      BY <3>1 DEF WellShaped, VerifyIds, Present
    <3> QED
      BY <3>2 DEF Expand
  <2>3. \A q \in Ident : e[q] = Expand(g, e, q)
    BY <2>1, <2>2 DEF Expands
  <2>4. e = [q \in Ident |-> e[q]]
    OBVIOUS
  <2>5. Right(e)
    <3> HIDE DEF e
    <3> QED
      BY <2>3, <2>4
  <2> HIDE DEF Right
  <2> QED
    BY <2>5
<1>2. \A p : Bypass(g, p) = expand[p]
  BY DEF Bypass, Expand
<1> HIDE DEF expand
<1>3. \A p \in Ident : Bypass(g, p) = Expand(g, expand, p)
  BY <1>1, <1>2
<1>4. VerifyIds(g) \subseteq Ident
  BY DEF VerifyIds, Present, WellShaped
<1>5. ASSUME NEW p \in VerifyIds(g)
      PROVE  Bypass(g, p) = UNION {Bypass(g, r) : r \in g[p].parents}
  <2>1. Bypass(g, p) = UNION {expand[r] : r \in g[p].parents}
    BY <1>3, <1>4 DEF Expand
  <2> QED
    BY <2>1, <1>2
<1>6. \A p \in Ident \ VerifyIds(g) : Bypass(g, p) = {p}
  BY <1>3 DEF Expand
<1> QED
  BY <1>5, <1>6

\* The nodes the passes get to, given those of the pass before.
Pass(g, done) == {i \in Present(g) : g[i].parents \subseteq done}

ArePasses(g, f, n) ==
  f = [k \in 0 .. n |-> IF k = 0 THEN {} ELSE Pass(g, f[k - 1])]

\* There are so many passes as one asks for.
LEMMA PassesExist ==
  ASSUME NEW g, NEW n \in Nat
  PROVE  \E f : ArePasses(g, f, n)
<1> DEFINE Bad == {k \in Nat : ~ \E f : ArePasses(g, f, k)}
<1> SUFFICES ASSUME Bad # {} PROVE FALSE
  OBVIOUS
<1>1. PICK k \in Bad : \A m \in Bad : k <= m
  <2>1. Bad \in SUBSET Nat
    OBVIOUS
  <2> HIDE DEF Bad
  <2> QED
    BY <2>1, LeastNumber
<1>2. CASE k = 0
  <2> DEFINE f == [j \in 0 .. 0 |-> {}]
  <2>1. ArePasses(g, f, 0)
    BY DEF ArePasses
  <2> QED
    BY <1>2, <2>1
<1>3. CASE k # 0
  <2>1. k - 1 \in Nat /\ k - 1 \notin Bad
    BY <1>1, <1>3
  <2>2. PICK f : ArePasses(g, f, k - 1)
    BY <2>1
  <2> DEFINE e == [j \in 0 .. k |-> IF j = 0 THEN {} ELSE Pass(g, f[j - 1])]
  <2>3. \A j \in 0 .. k - 1 : e[j] = f[j]
    <3>1. \A j \in 0 .. k - 1 : j \in 0 .. k
      BY <2>1
    <3>2. \A j \in 0 .. k - 1 : f[j] = IF j = 0 THEN {} ELSE Pass(g, f[j - 1])
      <4> HIDE DEF e, Bad
      <4> QED
        BY <2>2 DEF ArePasses
    <3> QED
      BY <3>1, <3>2
  <2>4. \A j \in 0 .. k : j # 0 => e[j - 1] = f[j - 1]
    <3> HIDE DEF e
    <3>1. \A j \in 0 .. k : j # 0 => j - 1 \in 0 .. k - 1
      BY <2>1
    <3> QED
      BY <2>3, <3>1
  <2>5. ArePasses(g, e, k)
    BY <2>4 DEF ArePasses
  <2> QED
    BY <2>5
<1> QED
  BY <1>2, <1>3

\* Every pass gets to nodes only, and to those of the pass before.
LEMMA PassesGrow ==
  ASSUME NEW g, NEW n \in Nat, NEW f, ArePasses(g, f, n)
  PROVE  /\ f[0] = {}
         /\ \A k \in 0 .. n : f[k] \subseteq Present(g)
         /\ \A k \in 0 .. n : k # 0 => /\ k - 1 \in 0 .. n
                                       /\ f[k] = Pass(g, f[k - 1])
                                       /\ f[k - 1] \subseteq f[k]
<1>1. /\ f[0] = {}
      /\ \A k \in 0 .. n : k # 0 => k - 1 \in 0 .. n /\ f[k] = Pass(g, f[k - 1])
  <2>1. 0 \in 0 .. n /\ \A k \in 0 .. n : k # 0 => k - 1 \in 0 .. n
    OBVIOUS
  <2>2. \A k \in 0 .. n : f[k] = IF k = 0 THEN {} ELSE Pass(g, f[k - 1])
    BY DEF ArePasses
  <2> QED
    BY <2>1, <2>2
<1>2. \A k \in 0 .. n : f[k] \subseteq Present(g)
  BY <1>1 DEF Pass
<1> DEFINE Bad == {k \in 1 .. n : ~ (f[k - 1] \subseteq f[k])}
<1>3. Bad = {}
  <2> SUFFICES ASSUME Bad # {} PROVE FALSE
    OBVIOUS
  <2>1. PICK k \in Bad : \A m \in Bad : k <= m
    <3>1. Bad \in SUBSET Nat
      OBVIOUS
    <3> HIDE DEF Bad
    <3> QED
      BY <3>1, LeastNumber
  <2>2. k \in 1 .. n /\ ~ (f[k - 1] \subseteq f[k])
    OBVIOUS
  <2>3. k # 1
    BY <1>1, <2>2
  <2>4. k - 1 \in 1 .. n /\ k - 1 \notin Bad
    BY <2>1, <2>2, <2>3
  <2>5. f[k - 1 - 1] \subseteq f[k - 1]
    BY <2>4
  <2>6. f[k] = Pass(g, f[k - 1]) /\ f[k - 1] = Pass(g, f[k - 1 - 1])
    BY <1>1, <2>2, <2>4
  <2> QED
    BY <2>2, <2>5, <2>6 DEF Pass
<1>4. \A k \in 0 .. n : k # 0 => k \in 1 .. n
  OBVIOUS
<1> QED
  BY <1>1, <1>2, <1>3, <1>4

\* What Computable is.
LEMMA ComputableFacts ==
  ASSUME NEW g
  PROVE  \E f : /\ ArePasses(g, f, Cardinality(Ident))
                /\ Computable(g) = f[Cardinality(Ident)]
<1> DEFINE n == Cardinality(Ident)
           done == CHOOSE f : ArePasses(g, f, n)
<1>1. n \in Nat
  BY LegacyAssumption, FS_CardinalityType
<1>2. ArePasses(g, done, n)
  <2> HIDE DEF n
  <2>1. \E f : ArePasses(g, f, n)
    BY <1>1, PassesExist
  <2> QED
    BY <2>1
<1>3. Computable(g) = done[n]
  BY DEF Computable, ArePasses, Pass
<1> QED
  BY <1>2, <1>3

\* If no nodes are a cycle and no parent is missing, the passes get to all.
LEMMA AcyclicComputable ==
  ASSUME NEW g, Present(g) \subseteq Ident, Acyclic(g, Present(g)),
         AllParentsPresent(g)
  PROVE  Computable(g) = Present(g)
<1> DEFINE n == Cardinality(Ident)
<1>1. /\ IsFiniteSet(Ident) /\ n \in Nat
      /\ \A some \in SUBSET Ident :
           /\ IsFiniteSet(some)
           /\ Cardinality(some) \in Nat /\ Cardinality(some) <= n
           /\ Cardinality(some) = n => some = Ident
  BY LegacyAssumption, FS_CardinalityType, FS_Subset
<1>2. PICK f : ArePasses(g, f, n) /\ Computable(g) = f[n]
  BY ComputableFacts
<1> HIDE DEF n
<1>3. /\ f[0] = {}
      /\ \A k \in 0 .. n : f[k] \subseteq Present(g)
      /\ \A k \in 0 .. n : k # 0 => /\ k - 1 \in 0 .. n
                                    /\ f[k] = Pass(g, f[k - 1])
                                    /\ f[k - 1] \subseteq f[k]
  BY <1>1, <1>2, PassesGrow
<1>4. ASSUME NEW k \in 0 .. n, k # 0, f[k - 1] # Present(g)
      PROVE  f[k] # f[k - 1]
  <2> DEFINE rest == Present(g) \ f[k - 1]
  <2>1. rest \in SUBSET Present(g) /\ rest # {}
    BY <1>3, <1>4
  <2>2. PICK i \in rest : g[i].parents \cap rest = {}
    <3> HIDE DEF rest
    <3> QED
      BY <2>1 DEF Acyclic
  <2>3. g[i].parents \subseteq Present(g)
    BY DEF AllParentsPresent
  <2>4. i \in f[k] /\ i \notin f[k - 1]
    BY <2>2, <2>3, <1>3, <1>4 DEF Pass
  <2> QED
    BY <2>4
<1> DEFINE Right(k) == f[k] = Present(g) \/ k <= Cardinality(f[k])
           Bad == {k \in 0 .. n : ~ Right(k)}
<1>5. Bad = {}
  <2> SUFFICES ASSUME Bad # {} PROVE FALSE
    OBVIOUS
  <2>1. PICK k \in Bad : \A m \in Bad : k <= m
    <3>1. Bad \in SUBSET Nat
      BY <1>1
    <3> HIDE DEF Bad
    <3> QED
      BY <3>1, LeastNumber
  <2>2. k \in 0 .. n /\ ~ Right(k)
    OBVIOUS
  <2>3. k # 0
    BY <1>3, <2>2, FS_EmptySet
  <2>4. k - 1 \in 0 .. n /\ Right(k - 1)
    <3>1. k - 1 \in 0 .. n /\ k - 1 \notin Bad
      BY <1>1, <2>1, <2>2, <2>3
    <3> QED
      BY <3>1
  <2>5. f[k - 1] \subseteq f[k] /\ f[k] \subseteq Present(g)
    BY <1>3, <2>2, <2>3
  <2>6. f[k - 1] # Present(g)
    BY <2>2, <2>5
  <2>7. f[k] # f[k - 1]
    BY <1>4, <2>2, <2>3, <2>6
  <2>8. /\ IsFiniteSet(f[k]) /\ Cardinality(f[k]) \in Nat
        /\ Cardinality(f[k - 1]) \in Nat
    BY <1>1, <2>5
  <2>9. Cardinality(f[k - 1]) < Cardinality(f[k])
    BY <2>5, <2>7, <2>8, FS_Subset
  <2>10. k \in Nat /\ k - 1 <= Cardinality(f[k - 1]) /\ k > Cardinality(f[k])
    BY <1>1, <2>2, <2>4, <2>6, <2>8
  <2> HIDE DEF Bad, Right
  <2> QED
    BY <2>8, <2>9, <2>10
<1>6. n \in 0 .. n /\ Right(n)
  BY <1>1, <1>5
<1>7. CASE n <= Cardinality(f[n])
  <2>1. f[n] \subseteq Present(g) /\ f[n] \in SUBSET Ident
    BY <1>3, <1>6
  <2>2. f[n] = Ident
    BY <1>1, <1>7, <2>1
  <2> QED
    BY <1>2, <2>1, <2>2
<1> QED
  BY <1>2, <1>6, <1>7

\* h is the hashes of some nodes.
AreHashes(g, h, some) == h = [i \in some |-> <<i, {h[p] : p \in g[i].parents}>>]

\* If the passes get to all nodes, no parent is missing and every node has a
\* hash.
LEMMA ComputableHasHashes ==
  ASSUME NEW g, Computable(g) = Present(g)
  PROVE  AllParentsPresent(g) /\ \E h : AreHashes(g, h, Present(g))
<1> DEFINE n == Cardinality(Ident)
<1>1. n \in Nat
  BY LegacyAssumption, FS_CardinalityType
<1>2. PICK f : ArePasses(g, f, n) /\ Computable(g) = f[n]
  BY ComputableFacts
<1> HIDE DEF n
<1>3. /\ f[0] = {}
      /\ \A k \in 0 .. n : f[k] \subseteq Present(g)
      /\ \A k \in 0 .. n : k # 0 => /\ k - 1 \in 0 .. n
                                    /\ f[k] = Pass(g, f[k - 1])
                                    /\ f[k - 1] \subseteq f[k]
  BY <1>1, <1>2, PassesGrow
<1>4. AllParentsPresent(g)
  <2>1. CASE n = 0
    BY <2>1, <1>2, <1>3 DEF AllParentsPresent
  <2>2. CASE n # 0
    <3>1. n - 1 \in 0 .. n /\ f[n] = Pass(g, f[n - 1])
      BY <2>2, <1>1, <1>3
    <3>2. f[n - 1] \subseteq Present(g)
      BY <3>1, <1>3
    <3> QED
      BY <3>1, <3>2, <1>2 DEF Pass, AllParentsPresent
  <2> QED
    BY <2>1, <2>2
<1> DEFINE Bad == {k \in 0 .. n : ~ \E h : AreHashes(g, h, f[k])}
<1>5. Bad = {}
  <2> SUFFICES ASSUME Bad # {} PROVE FALSE
    OBVIOUS
  <2>1. PICK k \in Bad : \A m \in Bad : k <= m
    <3>1. Bad \in SUBSET Nat
      BY <1>1
    <3> HIDE DEF Bad
    <3> QED
      BY <3>1, LeastNumber
  <2>2. k \in 0 .. n /\ ~ \E h : AreHashes(g, h, f[k])
    OBVIOUS
  <2>3. CASE k = 0
    <3> DEFINE h == [i \in {} |-> 0]
    <3>1. AreHashes(g, h, {})
      BY DEF AreHashes
    <3> QED
      BY <3>1, <2>2, <2>3, <1>3
  <2>4. CASE k # 0
    <3>1. k - 1 \in 0 .. n /\ k - 1 \notin Bad
      BY <1>1, <2>1, <2>2, <2>4
    <3>2. PICK h : AreHashes(g, h, f[k - 1])
      BY <3>1
    <3> DEFINE e == [i \in f[k] |-> <<i, {h[p] : p \in g[i].parents}>>]
    <3>3. f[k] = Pass(g, f[k - 1]) /\ f[k - 1] \subseteq f[k]
      BY <1>3, <2>2, <2>4
    <3>4. \A p \in f[k - 1] : e[p] = h[p]
      BY <3>2, <3>3 DEF AreHashes
    <3>5. \A i \in f[k] : \A p \in g[i].parents : e[p] = h[p]
      <4> HIDE DEF e
      <4> QED
        BY <3>3, <3>4 DEF Pass
    <3>6. \A i \in f[k] :
            {h[p] : p \in g[i].parents} = {e[p] : p \in g[i].parents}
      <4> HIDE DEF e
      <4> QED
        BY <3>5
    <3>7. AreHashes(g, e, f[k])
      BY <3>6 DEF AreHashes
    <3> QED
      BY <3>7, <2>2
  <2> QED
    BY <2>3, <2>4
<1>6. n \in 0 .. n
  BY <1>1
<1> QED
  BY <1>2, <1>4, <1>5, <1>6

\* A node with its fields.
IsNode(node) ==
  node = [parents |-> node.parents, verify |-> node.verify, hash |-> node.hash]

\* The recomputation changes hashes only, and every hash becomes that over the
\* hashes the parents have then.
LEMMA RecomputedFacts ==
  ASSUME NEW g, Computable(g) = Present(g),
         \A i \in Present(g) : IsNode(g[i])
  PROVE  /\ Present(Recomputed(g)) = Present(g)
         /\ \A i \in Present(g) :
              /\ Recomputed(g)[i].parents = g[i].parents
              /\ Recomputed(g)[i].verify = g[i].verify
              /\ Recomputed(g)[i].hash =
                   <<i, {Recomputed(g)[p].hash : p \in g[i].parents}>>
<1> DEFINE hash == CHOOSE h : AreHashes(g, h, Present(g))
<1>1. AreHashes(g, hash, Present(g))
  BY ComputableHasHashes
<1>2. Recomputed(g) = [i \in Present(g) |-> [g[i] EXCEPT !.hash = hash[i]]]
  BY DEF Recomputed, AreHashes
<1> HIDE DEF hash
<1>3. \A i \in Present(g) : hash[i] = <<i, {hash[p] : p \in g[i].parents}>>
  BY <1>1 DEF AreHashes
<1>4. ASSUME NEW i \in Present(g)
      PROVE  /\ Recomputed(g)[i].parents = g[i].parents
             /\ Recomputed(g)[i].verify = g[i].verify
             /\ Recomputed(g)[i].hash = hash[i]
  <2>1. IsNode(g[i]) /\ Recomputed(g)[i] = [g[i] EXCEPT !.hash = hash[i]]
    BY <1>2
  <2> QED
    BY <2>1 DEF IsNode
<1>5. ASSUME NEW i \in Present(g)
      PROVE  Recomputed(g)[i].hash =
               <<i, {Recomputed(g)[p].hash : p \in g[i].parents}>>
  <2>1. \A p \in g[i].parents : Recomputed(g)[p].hash = hash[p]
    BY <1>4, ComputableHasHashes DEF AllParentsPresent
  <2>2. {Recomputed(g)[p].hash : p \in g[i].parents}
          = {hash[p] : p \in g[i].parents}
    BY <2>1
  <2> QED
    BY <2>2, <1>3, <1>4
<1>6. Present(Recomputed(g)) = Present(g)
  BY <1>2 DEF Present
<1> QED
  BY <1>4, <1>5, <1>6

\* What is left when the verify nodes are dropped.
LEMMA BridgedFacts ==
  ASSUME NEW g, WellShaped(g)
  PROVE  /\ Present(Bridged(g)) = Kept(g)
         /\ \A i \in Kept(g) :
              /\ IsNode(Bridged(g)[i])
              /\ Bridged(g)[i].parents = ParentsWithoutVerify(g, i)
              /\ Bridged(g)[i].verify = g[i].verify
         /\ VerifyIds(Bridged(g)) = {}
<1>1. Bridged(g) = [i \in Kept(g) |->
                      [g[i] EXCEPT !.parents = ParentsWithoutVerify(g, i)]]
  BY DEF Bridged, Bypassed
<1>2. Present(Bridged(g)) = Kept(g)
  BY <1>1 DEF Present
<1>3. ASSUME NEW i \in Kept(g)
      PROVE  /\ IsNode(Bridged(g)[i])
             /\ Bridged(g)[i].parents = ParentsWithoutVerify(g, i)
             /\ Bridged(g)[i].verify = g[i].verify
  <2>1. IsNode(g[i])
    BY DEF WellShaped, IsNode, Kept, Present
  <2>2. Bridged(g)[i] = [g[i] EXCEPT !.parents = ParentsWithoutVerify(g, i)]
    BY <1>1
  <2> QED
    BY <2>1, <2>2 DEF IsNode
<1>4. VerifyIds(Bridged(g)) = {}
  BY <1>2, <1>3 DEF VerifyIds, Kept
<1> QED
  BY <1>2, <1>3, <1>4

\* What a load makes of a file with verify nodes.
LEMMA SanitizedFacts ==
  ASSUME NEW g, WellShaped(g), VerifyIds(g) # {}, Loads(g)
  PROVE  LET s == Sanitized(g)
         IN  /\ Present(s) = Kept(g)
             /\ \A i \in Kept(g) :
                  /\ s[i].parents = ParentsWithoutVerify(g, i)
                  /\ s[i].hash = <<i, {s[p].hash : p \in s[i].parents}>>
             /\ AllParentsPresent(s)
             /\ VerifyIds(s) = {}
<1> DEFINE s == Sanitized(g)
           b == Bridged(g)
<1>1. /\ s = Recomputed(b)
      /\ Computable(b) = Present(b)
  BY DEF Sanitized, Loads
<1>2. /\ Present(b) = Kept(g)
      /\ \A i \in Kept(g) : /\ IsNode(b[i])
                            /\ b[i].parents = ParentsWithoutVerify(g, i)
                            /\ b[i].verify = g[i].verify
  BY BridgedFacts
<1> HIDE DEF s, b
<1>3. /\ Present(s) = Present(b)
      /\ \A i \in Present(b) :
           /\ s[i].parents = b[i].parents
           /\ s[i].verify = b[i].verify
           /\ s[i].hash = <<i, {s[p].hash : p \in b[i].parents}>>
  BY <1>1, <1>2, RecomputedFacts
<1>4. AllParentsPresent(b)
  BY <1>1, ComputableHasHashes
<1>5. AllParentsPresent(s)
  BY <1>3, <1>4 DEF AllParentsPresent
<1>6. VerifyIds(s) = {}
  BY <1>2, <1>3 DEF VerifyIds, Kept
<1> QED
  BY <1>2, <1>3, <1>5, <1>6 DEF s

-----------------------------------------------------------------------------
(***************************************************************************)
(* Ancestry.                                                               *)
(***************************************************************************)

\* A set that holds the parents of its members and of node i.
HoldsParents(g, i, some) ==
  \A k \in some \cup {i} : g[k].parents \cap Present(g) \subseteq some

\* The ancestry of a node is the smallest such set.
LEMMA AncestryFacts ==
  ASSUME NEW g, NEW i
  PROVE  /\ Ancestry(g, i) \subseteq Present(g)
         /\ HoldsParents(g, i, Ancestry(g, i))
         /\ \A some \in SUBSET Present(g) :
              HoldsParents(g, i, some) => Ancestry(g, i) \subseteq some
<1>1. Ancestry(g, i) =
        {j \in Present(g) : \A some \in SUBSET Present(g) :
                              HoldsParents(g, i, some) => j \in some}
  BY DEF Ancestry, HoldsParents
<1>2. ASSUME NEW k \in Ancestry(g, i) \cup {i},
             NEW p \in g[k].parents \cap Present(g)
      PROVE  p \in Ancestry(g, i)
  <2> SUFFICES ASSUME NEW some \in SUBSET Present(g), HoldsParents(g, i, some)
               PROVE  p \in some
    BY <1>1
  <2>1. k \in some \cup {i}
    BY <1>1, <1>2
  <2> QED
    BY <2>1, <1>2 DEF HoldsParents
<1>3. HoldsParents(g, i, Ancestry(g, i))
  BY <1>2 DEF HoldsParents
<1> QED
  BY <1>1, <1>3

\* Ancestors of ancestors are ancestors.
LEMMA AncestryTransitive ==
  ASSUME NEW g, NEW i, NEW k \in Ancestry(g, i)
  PROVE  Ancestry(g, k) \subseteq Ancestry(g, i)
<1>1. /\ Ancestry(g, i) \in SUBSET Present(g)
      /\ HoldsParents(g, i, Ancestry(g, i))
  BY AncestryFacts
<1>2. HoldsParents(g, k, Ancestry(g, i))
  BY <1>1 DEF HoldsParents
<1> QED
  BY <1>1, <1>2, AncestryFacts

\* What a verify node leads to is among its ancestors.
LEMMA BypassIsAncestry ==
  ASSUME NEW g, WellShaped(g), Returns(g), NEW p \in VerifyIds(g)
  PROVE  Bypass(g, p) \cap Present(g) \subseteq Ancestry(g, p) \ VerifyIds(g)
<1> DEFINE Right(q) ==
             Bypass(g, q) \cap Present(g)
               \subseteq Ancestry(g, q) \ VerifyIds(g)
           bad == {q \in VerifyIds(g) : ~ Right(q)}
<1> SUFFICES ASSUME bad # {} PROVE FALSE
  OBVIOUS
<1>1. PICK q \in bad : g[q].parents \cap bad = {}
  <2>1. bad \in SUBSET VerifyIds(g)
    OBVIOUS
  <2> HIDE DEF bad
  <2> QED
    BY <2>1 DEF Returns, Acyclic
<1>2. q \in VerifyIds(g) /\ ~ Right(q)
  OBVIOUS
<1>3. PICK r \in g[q].parents, j \in Present(g) :
        j \in Bypass(g, r) /\ j \notin Ancestry(g, q) \ VerifyIds(g)
  BY <1>2, BypassFacts
<1>4. VerifyIds(g) \subseteq Present(g)
  BY DEF VerifyIds
<1>5. HoldsParents(g, q, Ancestry(g, q))
  BY AncestryFacts
<1>6. CASE r \in VerifyIds(g)
  <2>1. Right(r)
    BY <1>1, <1>6
  <2>2. r \in Ancestry(g, q)
    BY <1>4, <1>5, <1>6 DEF HoldsParents
  <2>3. Ancestry(g, r) \subseteq Ancestry(g, q)
    BY <2>2, AncestryTransitive
  <2> QED
    BY <1>3, <2>1, <2>3
<1>7. CASE r \notin VerifyIds(g)
  <2>1. r \in Ident
    BY <1>2 DEF WellShaped, VerifyIds, Present
  <2>2. j = r
    BY <2>1, <1>3, <1>7, BypassFacts
  <2>3. j \in Ancestry(g, q)
    BY <2>2, <1>3, <1>5 DEF HoldsParents
  <2> QED
    BY <2>2, <2>3, <1>3, <1>7
<1> QED
  BY <1>6, <1>7

\* A load leaves the ancestors of a node that are kept.
LEMMA SanitizedAncestry ==
  ASSUME NEW g, WellShaped(g), Returns(g), VerifyIds(g) # {}, Loads(g),
         NEW i \in Kept(g)
  PROVE  Ancestry(Sanitized(g), i) = Ancestry(g, i) \ VerifyIds(g)
<1> DEFINE s == Sanitized(g)
           V == VerifyIds(g)
           old == Ancestry(g, i)
           new == Ancestry(s, i)
<1>1. /\ Present(s) = Kept(g) /\ AllParentsPresent(s)
      /\ \A k \in Kept(g) : s[k].parents = ParentsWithoutVerify(g, k)
  BY SanitizedFacts
<1>2. /\ V \subseteq Present(g) /\ Kept(g) = Present(g) \ V
      /\ \A k \in Present(g) : g[k].parents \subseteq Ident
  BY DEF VerifyIds, Kept, Present, WellShaped
<1>3. /\ \A p \in Ident \ V : Bypass(g, p) = {p}
      /\ \A p \in V : Bypass(g, p) = UNION {Bypass(g, r) : r \in g[p].parents}
  BY BypassFacts
<1>4. /\ HoldsParents(g, i, old) /\ old \subseteq Present(g)
      /\ HoldsParents(s, i, new) /\ new \subseteq Present(s)
  BY AncestryFacts
<1> HIDE DEF s, V
<1>5. \A k \in Kept(g) : \A p \in g[k].parents :
        Bypass(g, p) \subseteq s[k].parents /\ s[k].parents \subseteq Present(s)
  BY <1>1 DEF ParentsWithoutVerify, AllParentsPresent
<1>6. new \subseteq old \ V
  <2> DEFINE kept == old \ V
  <2>1. kept \in SUBSET Present(s)
    BY <1>1, <1>2, <1>4
  <2>2. ASSUME NEW k \in kept \cup {i}, NEW j \in s[k].parents
        PROVE  j \in kept
    <3>1. k \in Kept(g) /\ k \in old \cup {i}
      BY <1>2, <1>4
    <3>2. PICK p \in g[k].parents : j \in Bypass(g, p)
      BY <3>1, <1>1, <2>2 DEF ParentsWithoutVerify
    <3>3. j \in Kept(g)
      BY <3>1, <3>2, <1>1, <1>5
    <3>4. CASE p \in V
      <4>1. p \in old
        BY <3>1, <3>2, <3>4, <1>2, <1>4 DEF HoldsParents
      <4>2. j \in Ancestry(g, p)
        BY <3>2, <3>3, <3>4, <1>2, BypassIsAncestry DEF V
      <4> QED
        BY <4>1, <4>2, <3>3, <1>2, AncestryTransitive
    <3>5. CASE p \notin V
      <4>1. j = p
        BY <3>1, <3>2, <3>5, <1>2, <1>3
      <4>2. j \in old
        BY <4>1, <3>1, <3>2, <3>3, <1>2, <1>4 DEF HoldsParents
      <4> QED
        BY <4>2, <3>3, <1>2
    <3> QED
      BY <3>4, <3>5
  <2>3. HoldsParents(s, i, kept)
    <3> HIDE DEF kept
    <3> QED
      BY <2>2 DEF HoldsParents
  <2> HIDE DEF kept, new
  <2>4. new \subseteq kept
    BY <2>1, <2>3, AncestryFacts DEF new
  <2> QED
    BY <2>4 DEF kept
<1>7. old \ V \subseteq new
  <2> DEFINE led == {k \in Present(g) :
                       IF k \in V THEN Bypass(g, k) \subseteq new
                                  ELSE k \in new}
  <2>1. ASSUME NEW k \in led \cup {i}, NEW p \in g[k].parents \cap Present(g)
        PROVE  p \in led
    <3>1. Bypass(g, p) \subseteq new
      <4>1. CASE k \in V
        <5>1. Bypass(g, k) \subseteq new
          BY <4>1, <1>2
        <5> QED
          BY <4>1, <5>1, <1>3
      <4>2. CASE k \notin V
        <5>1. k \in Kept(g) /\ k \in new \cup {i}
          BY <4>2, <1>2
        <5>2. s[k].parents \subseteq new
          BY <5>1, <1>1, <1>4 DEF HoldsParents, AllParentsPresent
        <5> QED
          BY <5>1, <5>2, <1>5
      <4> QED
        BY <4>1, <4>2
    <3>2. p \notin V => Bypass(g, p) = {p}
      BY <1>2, <1>3, <2>1
    <3> HIDE DEF new
    <3> QED
      BY <3>1, <3>2
  <2>2. HoldsParents(g, i, led)
    <3> HIDE DEF led
    <3> QED
      BY <2>1 DEF HoldsParents
  <2>3. led \in SUBSET Present(g)
    OBVIOUS
  <2> HIDE DEF led
  <2>4. old \subseteq led
    BY <2>2, <2>3, AncestryFacts
  <2> QED
    BY <2>4 DEF led
<1> QED
  BY <1>6, <1>7 DEF s, V

-----------------------------------------------------------------------------
(***************************************************************************)
(* Which files can be loaded.                                              *)
(***************************************************************************)

\* If no parent is missing, verify nodes lead to nodes that are kept.
LEMMA BypassIsKept ==
  ASSUME NEW g, WellShaped(g), Returns(g), AllParentsPresent(g),
         NEW p \in Present(g)
  PROVE  Bypass(g, p) \subseteq Kept(g)
<1> DEFINE bad == {q \in VerifyIds(g) : ~ (Bypass(g, q) \subseteq Kept(g))}
<1>1. \A q \in Kept(g) : Bypass(g, q) \subseteq Kept(g)
  BY BypassFacts DEF Kept, Present, WellShaped
<1>2. bad = {}
  <2> SUFFICES ASSUME bad # {} PROVE FALSE
    OBVIOUS
  <2>1. PICK q \in bad : g[q].parents \cap bad = {}
    <3>1. bad \in SUBSET VerifyIds(g)
      OBVIOUS
    <3> HIDE DEF bad
    <3> QED
      BY <3>1 DEF Returns, Acyclic
  <2>2. PICK r \in g[q].parents : ~ (Bypass(g, r) \subseteq Kept(g))
    BY BypassFacts
  <2>3. r \in Present(g)
    BY DEF AllParentsPresent, VerifyIds
  <2>4. r \in VerifyIds(g)
    BY <2>2, <2>3, <1>1 DEF Kept
  <2> QED
    BY <2>1, <2>2, <2>4
<1> QED
  BY <1>1, <1>2 DEF Kept

\* A file whose nodes are no cycle and that misses no parent can be loaded: what
\* the verify nodes of a set lead to adds no cycle to it.
LEMMA SoundLoads ==
  ASSUME NEW g, WellShaped(g), Acyclic(g, Present(g)), AllParentsPresent(g)
  PROVE  Loads(g)
<1> DEFINE V == VerifyIds(g)
           b == Bridged(g)
<1>1. V \subseteq Present(g) /\ Kept(g) = Present(g) \ V
  BY DEF VerifyIds, Kept
<1>2. Returns(g)
  BY <1>1 DEF Returns, Acyclic
<1>3. /\ Present(b) = Kept(g)
      /\ \A i \in Kept(g) : b[i].parents = ParentsWithoutVerify(g, i)
  BY BridgedFacts
<1>4. Present(b) \subseteq Ident
  BY <1>1, <1>3 DEF WellShaped, Present
<1>5. AllParentsPresent(b)
  <2> SUFFICES ASSUME NEW i \in Kept(g), NEW j \in b[i].parents
               PROVE  j \in Kept(g)
    BY <1>3 DEF AllParentsPresent
  <2>1. PICK p \in g[i].parents : j \in Bypass(g, p)
    BY <1>3 DEF ParentsWithoutVerify
  <2>2. p \in Present(g)
    BY <1>1 DEF AllParentsPresent
  <2> QED
    BY <2>1, <2>2, <1>2, BypassIsKept
<1>6. Acyclic(b, Present(b))
  <2> SUFFICES ASSUME NEW some \in SUBSET Kept(g), some # {},
                      \A i \in some : b[i].parents \cap some # {}
               PROVE  FALSE
    BY <1>3 DEF Acyclic
  <2> DEFINE led == some \cup {v \in V : Bypass(g, v) \cap some # {}}
  <2>1. led \in SUBSET Present(g) /\ led # {}
    BY <1>1
  <2>2. PICK u \in led : g[u].parents \cap led = {}
    <3> HIDE DEF led
    <3> QED
      BY <2>1 DEF Acyclic
  <2>3. PICK p \in g[u].parents : Bypass(g, p) \cap some # {}
    <3>1. CASE u \in some
      <4>1. PICK j \in some : j \in b[u].parents
        BY <3>1
      <4> QED
        BY <3>1, <4>1, <1>3 DEF ParentsWithoutVerify
    <3>2. CASE u \notin some
      <4>1. u \in V /\ Bypass(g, u) \cap some # {}
        BY <3>2
      <4> QED
        BY <4>1, <1>2, BypassFacts DEF V
    <3> QED
      BY <3>1, <3>2
  <2>4. p \in Present(g) /\ p \in Ident
    BY <2>1, <2>2, <2>3 DEF AllParentsPresent, WellShaped, Present
  <2>5. p \in led
    <3>1. CASE p \in V
      BY <3>1, <2>3
    <3>2. CASE p \notin V
      <4>1. Bypass(g, p) = {p}
        BY <3>2, <2>4, <1>2, BypassFacts
      <4> QED
        BY <4>1, <2>3
    <3> QED
      BY <3>1, <3>2
  <2> QED
    BY <2>2, <2>3, <2>5
<1> HIDE DEF b
<1>7. Computable(b) = Present(b)
  BY <1>4, <1>5, <1>6, AcyclicComputable
<1> QED
  BY <1>7 DEF Loads, b

-----------------------------------------------------------------------------
(***************************************************************************)
(* Loads, saves, stops and starts.                                         *)
(***************************************************************************)

\* The file is as it was found or as the first load made it, and memory is as
\* the load made it; where that fails, both stay or become empty.
Migrated ==
  IF Loads(oldFile)
    THEN /\ nodesFile \in {oldFile, Sanitized(oldFile)}
         /\ running => journal = Sanitized(oldFile)
    ELSE /\ nodesFile \in {oldFile, NoNodes}
         /\ running => journal = NoNodes

LegacyInv == WellShaped(oldFile) /\ Returns(oldFile) /\ Migrated

\* What a load made has no verify nodes and is not changed by the next load.
LEMMA SanitizedAgain ==
  ASSUME NEW g, WellShaped(g), Loads(g)
  PROVE  LET s == Sanitized(g) IN Loads(s) /\ Sanitized(s) = s
<1>1. VerifyIds(Sanitized(g)) = {}
  <2>1. CASE VerifyIds(g) = {}
    BY <2>1 DEF Sanitized
  <2>2. CASE VerifyIds(g) # {}
    BY <2>2, SanitizedFacts
  <2> QED
    BY <2>1, <2>2
<1> QED
  BY <1>1 DEF Loads, Sanitized

\* An empty journal is loaded as it is.
LEMMA NoNodesLoad == Loads(NoNodes) /\ Sanitized(NoNodes) = NoNodes
<1>1. VerifyIds(NoNodes) = {}
  BY DEF VerifyIds, Present, NoNodes
<1> QED
  BY <1>1 DEF Loads, Sanitized

\* An older file is a journal.
LEMMA LegacyInvInit == LegacyInit => LegacyInv
<1> SUFFICES ASSUME LegacyInit PROVE LegacyInv
  OBVIOUS
<1>1. WellShaped(oldFile)
  <2>1. PICK ids \in SUBSET Ident : oldFile \in OldFilesOf(ids)
    BY DEF LegacyInit, OldFiles
  <2>2. PICK verify \in SUBSET ids, parents \in [ids -> SUBSET Ident] :
          oldFile = OldGraph(verify, parents)
    BY <2>1 DEF OldFilesOf
  <2>3. oldFile = [i \in ids |-> [parents |-> parents[i],
                                  verify  |-> i \in verify,
                                  hash    |-> HashInFile(i)]]
    BY <2>2 DEF OldGraph
  <2> QED
    BY <2>3 DEF WellShaped
<1>2. Migrated
  BY DEF LegacyInit, Migrated
<1> QED
  BY <1>1, <1>2 DEF LegacyInit, LegacyInv

\* Starts, reloads, saves and stops keep file and memory as the load of the
\* older file made them.
LEMMA LegacyInvNext == LegacyInv /\ [LegacyNext]_legacyVars => LegacyInv'
<1> SUFFICES ASSUME LegacyInv, [LegacyNext]_legacyVars PROVE LegacyInv'
  OBVIOUS
<1>1. oldFile' = oldFile
  BY DEF LegacyNext, StartJournal, ReloadJournal, SaveJournal, StopJournal,
     legacyVars
<1>2. /\ Loads(oldFile) => /\ Loads(Sanitized(oldFile))
                           /\ Sanitized(Sanitized(oldFile)) = Sanitized(oldFile)
      /\ Loads(NoNodes) /\ Sanitized(NoNodes) = NoNodes
  BY SanitizedAgain, NoNodesLoad DEF LegacyInv
<1>3. CASE StartJournal
  BY <1>1, <1>2, <1>3 DEF StartJournal, LegacyInv, Migrated
<1>4. CASE ReloadJournal
  BY <1>1, <1>2, <1>4 DEF ReloadJournal, LegacyInv, Migrated
<1>5. CASE SaveJournal
  BY <1>1, <1>5 DEF SaveJournal, LegacyInv, Migrated
<1>6. CASE StopJournal
  BY <1>1, <1>6 DEF StopJournal, LegacyInv, Migrated
<1>7. CASE UNCHANGED legacyVars
  BY <1>7 DEF legacyVars, LegacyInv, Migrated
<1> QED
  BY <1>3, <1>4, <1>5, <1>6, <1>7 DEF LegacyNext

\* So do all behaviours.
LEMMA LegacyInvAlways == LegacySpec => []LegacyInv
BY LegacyInvInit, LegacyInvNext, PTL DEF LegacySpec

\* An older file without cycles that misses no parent can be loaded, however
\* its verify nodes are chained (persistence.go 105-144).
THEOREM SoundFileLoadsAlways == LegacySpec => []SoundFileLoads
<1>1. LegacyInv => SoundFileLoads
  BY SoundLoads DEF LegacyInv, SoundFileLoads
<1> QED
  BY <1>1, LegacyInvAlways, PTL

\* In a journal that was loaded the nodes that were kept descend from one
\* another as they did in the older file, after reloads, saves and starts too
\* (persistence.go 51-59, 78-103).
THEOREM AncestryKeptAlways == LegacySpec => []AncestryKept
<1>1. LegacyInv => AncestryKept
  <2> SUFFICES ASSUME LegacyInv, running, Loads(oldFile)
               PROVE  /\ Present(journal) = Kept(oldFile)
                      /\ \A i \in Present(journal) :
                           Ancestry(journal, i)
                             = Ancestry(oldFile, i) \ VerifyIds(oldFile)
    BY DEF AncestryKept
  <2>1. journal = Sanitized(oldFile)
    BY DEF LegacyInv, Migrated
  <2>2. CASE VerifyIds(oldFile) = {}
    BY <2>1, <2>2 DEF Sanitized, Kept
  <2>3. CASE VerifyIds(oldFile) # {}
    BY <2>1, <2>3, SanitizedFacts, SanitizedAncestry DEF LegacyInv
  <2> QED
    BY <2>2, <2>3
<1> QED
  BY <1>1, LegacyInvAlways, PTL

\* In a journal that was loaded from an older file every hash is over the hashes
\* its parents have there (persistence.go 64-66, 117-135).
THEOREM HashesFitAlways == LegacySpec => []HashesFit
<1>1. LegacyInv => HashesFit
  <2> SUFFICES ASSUME LegacyInv, running, Loads(oldFile),
                      VerifyIds(oldFile) # {}
               PROVE  \A i \in Present(journal) :
                        journal[i].hash
                          = <<i, {journal[p].hash : p \in journal[i].parents}>>
    BY DEF HashesFit
  <2>1. journal = Sanitized(oldFile)
    BY DEF LegacyInv, Migrated
  <2> QED
    BY <2>1, SanitizedFacts DEF LegacyInv
<1> QED
  BY <1>1, LegacyInvAlways, PTL

\* A journal in memory can be loaded from the file it is saved to, and as it is:
\* a file is migrated once (persistence.go 48-50, 223-232).
THEOREM MigratedOnceAlways == LegacySpec => []MigratedOnce
<1>1. LegacyInv => MigratedOnce
  BY SanitizedAgain, NoNodesLoad DEF LegacyInv, Migrated, MigratedOnce
<1> QED
  BY <1>1, LegacyInvAlways, PTL

==============================================================================
