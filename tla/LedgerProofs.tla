---------------------------- MODULE LedgerProofs ----------------------------
(***************************************************************************)
(* A ledger has one history per transaction.  A step either drops versions *)
(* or adds one: the current version with a transaction at its end that no  *)
(* version holds.  The versions that were there agreed before the step,    *)
(* and the new one shares with each of them only what the current version  *)
(* shared with it.                                                         *)
(***************************************************************************)
EXTENDS Ledger, TLAPS

\* Agreement of two versions has no direction, and the empty one agrees.
LEMMA SameUpToSymmetric ==
  ASSUME NEW a \in Seq(Tx), NEW b \in Seq(Tx), SameUpTo(a, b)
  PROVE  SameUpTo(b, a)
<1> SUFFICES ASSUME NEW i \in DOMAIN b, NEW j \in DOMAIN a, b[i] = a[j]
             PROVE  i = j /\ \A k \in 1 .. i : b[k] = a[k]
  BY DEF SameUpTo
<1> QED
  BY DEF SameUpTo

\* Every version agrees with the empty one.
LEMMA SameUpToEmpty ==
  ASSUME NEW a \in Seq(Tx)
  PROVE  SameUpTo(a, Empty)
  BY DEF SameUpTo, Empty

\* A new transaction at the end of c leaves it in agreement with itself.
LEMMA AppendSelf ==
  ASSUME NEW c \in Seq(Tx), NEW t \in Tx, ~ InVersion(t, c), SameUpTo(c, c)
  PROVE  SameUpTo(Append(c, t), Append(c, t))
<1> DEFINE n == Append(c, t)
<1>1. /\ DOMAIN n = 1 .. Len(c) + 1 /\ n[Len(c) + 1] = t
      /\ DOMAIN c = 1 .. Len(c) /\ \A k \in 1 .. Len(c) : n[k] = c[k]
  OBVIOUS
<1> SUFFICES ASSUME NEW i \in DOMAIN n, NEW j \in DOMAIN n, n[i] = n[j]
             PROVE  i = j
  BY DEF SameUpTo
<1> HIDE DEF n
<1>2. CASE i \in DOMAIN c /\ j \in DOMAIN c
  BY <1>1, <1>2 DEF SameUpTo
<1>3. CASE i = Len(c) + 1 /\ j \in DOMAIN c
  BY <1>1, <1>3 DEF InVersion
<1>4. CASE j = Len(c) + 1 /\ i \in DOMAIN c
  BY <1>1, <1>4 DEF InVersion
<1> QED
  BY <1>1, <1>2, <1>3, <1>4

\* A new transaction at the end of c leaves it in agreement with a version
\* that does not hold the transaction.
LEMMA AppendOther ==
  ASSUME NEW c \in Seq(Tx), NEW t \in Tx, NEW b \in Seq(Tx),
         ~ InVersion(t, b), SameUpTo(c, b)
  PROVE  SameUpTo(Append(c, t), b)
<1> DEFINE n == Append(c, t)
<1>1. /\ DOMAIN n = 1 .. Len(c) + 1 /\ n[Len(c) + 1] = t
      /\ DOMAIN c = 1 .. Len(c) /\ \A k \in 1 .. Len(c) : n[k] = c[k]
  OBVIOUS
<1> SUFFICES ASSUME NEW i \in DOMAIN n, NEW j \in DOMAIN b, n[i] = b[j]
             PROVE  i = j /\ \A k \in 1 .. i : n[k] = b[k]
  BY DEF SameUpTo
<1> HIDE DEF n
<1>2. i # Len(c) + 1
  BY <1>1 DEF InVersion
<1>3. i \in DOMAIN c /\ c[i] = b[j]
  BY <1>1, <1>2
<1>4. i = j /\ \A k \in 1 .. i : c[k] = b[k]
  BY <1>3 DEF SameUpTo
<1> QED
  BY <1>1, <1>3, <1>4

-----------------------------------------------------------------------------

\* The versions are sequences of transactions with one history.
Inv == TypeOK /\ OneHistory

\* The versions are sequences of transactions, and so is the empty one.
LEMMA VersionsTyped ==
  ASSUME Inv
  PROVE  Versions \cup {Empty} \subseteq Seq(Tx)
<1>1. Empty \in Seq(Tx)
  BY DEF Empty
<1> QED
  BY <1>1, Zenon DEF Inv, TypeOK, Versions

\* A step that brings no new version keeps the invariant.
LEMMA OldVersions ==
  ASSUME Inv, Versions' \subseteq Versions \cup {Empty}
  PROVE  Inv'
<1>1. Versions \cup {Empty} \subseteq Seq(Tx)
  BY VersionsTyped
<1>2. TypeOK'
  BY <1>1 DEF TypeOK, Versions
<1>3. \A a, b \in Versions \cup {Empty} : SameUpTo(a, b)
  <2>1. \A a \in Versions \cup {Empty} : SameUpTo(a, Empty) /\ SameUpTo(Empty, a)
    BY <1>1, SameUpToEmpty, SameUpToSymmetric DEF Empty
  <2> QED
    BY <2>1 DEF Inv, OneHistory
<1> QED
  BY <1>2, <1>3 DEF Inv, OneHistory

\* A new transaction keeps the invariant.
LEMMA AddKeepsInv ==
  ASSUME Inv, Add
  PROVE  Inv'
<1>1. PICK t \in Tx : /\ \A v \in Versions : ~ InVersion(t, v)
                      /\ current' = Append(current, t)
                      /\ Release
                      /\ UNCHANGED durable
  BY DEF Add
<1>2. Versions \cup {Empty} \subseteq Seq(Tx) /\ current \in Versions
  BY VersionsTyped DEF Versions
<1>3. current' \in Seq(Tx)
  BY <1>1, <1>2
<1>4. Versions' \subseteq Versions \cup {Empty, current'}
  BY <1>1 DEF Versions, Release
<1>5. TypeOK'
  BY <1>1, <1>2, <1>3 DEF TypeOK, Release, Versions
<1>6. \A v \in Versions \cup {Empty} : ~ InVersion(t, v)
  BY <1>1 DEF InVersion, Empty
<1>7. \A a, b \in Versions \cup {Empty} : SameUpTo(a, b)
  BY <1>2, SameUpToEmpty, SameUpToSymmetric DEF Inv, OneHistory
<1>8. \A b \in Versions \cup {Empty} :
        SameUpTo(current', b) /\ SameUpTo(b, current')
  BY <1>1, <1>2, <1>3, <1>6, <1>7, AppendOther, SameUpToSymmetric
<1>9. SameUpTo(current', current')
  BY <1>1, <1>2, <1>6, <1>7, AppendSelf
<1>10. OneHistory'
  BY <1>4, <1>7, <1>8, <1>9 DEF OneHistory
<1> QED
  BY <1>5, <1>10 DEF Inv

\* A ledger has one history per transaction, whatever is added, saved,
\* reloaded, cleared or lost (store.go 186-240, persistence.go 146-205).
THEOREM OneHistoryAlways == Spec => [](TypeOK /\ OneHistory)
<1>1. Init => Inv
  <2> SUFFICES ASSUME Init
               PROVE  Inv
    OBVIOUS
  <2>1. Empty \in Seq(Tx)
    BY DEF Empty
  <2>2. TypeOK
    BY <2>1, Zenon DEF Init, TypeOK
  <2>3. OneHistory
    BY <2>1, SameUpToEmpty DEF Init, OneHistory, Versions
  <2> QED
    BY <2>2, <2>3 DEF Inv
<1>2. Inv /\ [Next]_vars => Inv'
  <2> SUFFICES ASSUME Inv, [Next]_vars
               PROVE  Inv'
    OBVIOUS
  <2>1. CASE Add
    BY <2>1, AddKeepsInv
  <2>2. CASE Take
    BY <2>2, OldVersions DEF Take, Versions
  <2>3. CASE Save
    BY <2>3, OldVersions DEF Save, Release, Versions
  <2>4. CASE Reload
    BY <2>4, OldVersions DEF Reload, Release, Versions
  <2>5. CASE Clear
    BY <2>5, OldVersions DEF Clear, Release, Versions
  <2>6. CASE Crash
    BY <2>6, OldVersions DEF Crash, Versions
  <2>7. CASE UNCHANGED vars
    BY <2>7, OldVersions DEF vars, Versions
  <2> QED
    BY <2>1, <2>2, <2>3, <2>4, <2>5, <2>6, <2>7 DEF Next
<1> QED
  BY <1>1, <1>2, PTL DEF Spec, Inv

=============================================================================
