------------------------------ MODULE MCStore ------------------------------
(***************************************************************************)
(* Small instances of Store for TLC.                                       *)
(***************************************************************************)
EXTENDS Store, TLC

CONSTANTS w1, w2, d1, d2, h1, h2

OneWorker  == {w1}
TwoWorkers == {w1, w2}

Tx2 == 1 .. 2
Tx3 == 1 .. 3

\* Parents left to the store, or one named node.
Tipped == {{}}
Named  == {{}, {1}}

Everybody(ops) == [w \in Worker |-> ops]

AllOps    == Everybody(Op)
Appending == Everybody({"issue", "revoke"})
Issuing   == Everybody({"issue"})
Reloading == Everybody({"issue", "revoke", "validate"})
Resetting == Everybody({"issue", "reset"})

\* Requests that replace the journal in memory, beside attacks and issues.
Replacing == Everybody({"issue", "substitute", "validate", "reset"})

\* Worker w1 gets some requests, the others get other requests.
Split(mine, others) == [w \in Worker |-> IF w = w1 THEN mine ELSE others]

AttackAndRead ==
  Split({"issue", "forge", "substitute"}, {"validate", "verify"})

AttackAndIssue == Split({"issue", "forge"}, {"issue"})

AnyWorker == Permutations(Worker)

=============================================================================
