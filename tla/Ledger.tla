------------------------------- MODULE Ledger -------------------------------
(***************************************************************************)
(* What the journal promises of its history, whatever requests overlap,    *)
(* fail or are cut short: a journal is a sequence of transactions that     *)
(* grows at its end.  There may be several versions of it at a time: the   *)
(* current one, the durable one and those that requests hold; any of them  *)
(* may become the current or the durable one, but versions never merge,    *)
(* and a transaction enters one place of one version only.                 *)
(***************************************************************************)
EXTENDS Integers, Sequences

CONSTANT
  Tx           \* the transactions there can be

VARIABLES
  current,     \* the version in use
  durable,     \* the version that survives a crash
  held         \* the versions requests have taken and may still put back

vars == <<current, durable, held>>

Versions == {current, durable} \cup held

Empty == <<>>

Init ==
  /\ current = Empty
  /\ durable = Empty
  /\ held \subseteq {Empty}

-----------------------------------------------------------------------------

\* Requests may give up what they hold.
Release == held' \subseteq held \cup {Empty}

InVersion(t, v) == \E i \in DOMAIN v : v[i] = t

\* A transaction that is in no version yet ends the current one.
Add ==
  \E t \in Tx :
    /\ \A v \in Versions : ~ InVersion(t, v)
    /\ current' = Append(current, t)
    /\ Release
    /\ UNCHANGED durable

\* A request takes a copy of a version.
Take ==
  /\ held' \subseteq Versions \cup {Empty}
  /\ UNCHANGED <<current, durable>>

\* What a request holds becomes durable, however old it is.
Save ==
  /\ durable' \in held
  /\ Release
  /\ UNCHANGED current

\* What a request holds becomes current, however old it is.
Reload ==
  /\ current' \in held
  /\ Release
  /\ UNCHANGED durable

Clear ==
  /\ current' = Empty
  /\ Release
  /\ UNCHANGED durable

\* The start after a crash finds the durable version, or fails to read it.
Crash ==
  /\ current' \in {durable, Empty}
  /\ held' \subseteq {Empty}
  /\ UNCHANGED durable

Next == Add \/ Take \/ Save \/ Reload \/ Clear \/ Crash

Spec == Init /\ [][Next]_vars

-----------------------------------------------------------------------------

TypeOK ==
  /\ current \in Seq(Tx)
  /\ durable \in Seq(Tx)
  /\ held \subseteq Seq(Tx)

\* Where versions a and b hold the same transaction they hold it at the same
\* place, with the same transactions before it.
SameUpTo(a, b) ==
  \A i \in DOMAIN a, j \in DOMAIN b :
    a[i] = b[j] => /\ i = j
                   /\ \A k \in 1 .. i : a[k] = b[k]

\* A transaction has one history: all versions that hold it agree on every
\* transaction before it, and none holds it twice.  Versions branch but never
\* join (store.go 186-240, persistence.go 146-205).
OneHistory == \A a, b \in Versions : SameUpTo(a, b)

=============================================================================
