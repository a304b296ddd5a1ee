---------------------------- MODULE StoreProofs ----------------------------
(***************************************************************************)
(* Proofs about Store for every value of the constants: any number of      *)
(* requests at once, with failing writes and with restarts.                *)
(*                                                                         *)
(* The invariants of the journal are about all its copies: a stale copy    *)
(* can become the file, and the file can become the journal in memory.     *)
(* They are inductive together with two facts about what is not in a copy: *)
(*   - an id that is still to be drawn is in no copy, so that adding a     *)
(*     node never changes what an id stands for;                           *)
(*   - the node an attack keeps as its backup has the seal every copy has  *)
(*     for that id, so that the roll-back, which may hit a journal that    *)
(*     was reloaded or reset in between, changes no parents.               *)
(* From the same invariant the store implements the ledger (last section). *)
(***************************************************************************)
EXTENDS Store, JournalProofs

-----------------------------------------------------------------------------
(***************************************************************************)
(* The inductive invariant.                                                *)
(***************************************************************************)

HasBackup(j) == j.pc \in {"inspect", "restore"}

\* Where the locals of a request are set.
ShapeOf(j) ==
  /\ j.pc \in {"check", "append"} => j.draft \in Draft
  /\ j.draft # None => j.pc \in {"check", "append"}
  /\ HasBackup(j) => j.tx \in Tx /\ j.backup \in Node

JobShape == \A w \in Worker : ShapeOf(job[w])

\* What is in a copy or in a backup has been drawn.
CopiesDrawn ==
  /\ \A g \in Copies : \A t \in Ids(g.nodes) : fate[t] # "unused"
  /\ \A w \in Worker : HasBackup(job[w]) => fate[job[w].tx] # "unused"

\* A demonstration has drawn an id that nobody else has.
HasId(j) == j.draft # None /\ j.draft.id # NoTx

DraftsFresh ==
  \A w \in Worker : HasId(job[w]) =>
    /\ fate[job[w].draft.id] = "unused"
    /\ \A v \in Worker \ {w} :
         HasId(job[v]) => job[v].draft.id # job[w].draft.id

\* Copy g holds for id t, if at all, a node with the seal of n.
SealedAs(g, t, n) == t \in Ids(g.nodes) => Seal(g.nodes[t]) = Seal(n)

\* What a roll-back would put back has the seal of the node it replaces.
BackupsAgree ==
  \A w \in Worker : HasBackup(job[w]) =>
    /\ job[w].backup.tx.id = job[w].tx
    /\ \A g \in Copies : SealedAs(g, job[w].tx, job[w].backup)
    /\ \A v \in Worker : HasBackup(job[v]) /\ job[v].tx = job[w].tx
                           => Seal(job[v].backup) = Seal(job[w].backup)

CopiesAgree == \A g, h \in Copies : SealsAgree(g, h)

CopiesWellFormed == \A g \in Copies : WellFormed(g)

Inv ==
  /\ TypeOK
  /\ JobShape
  /\ CopiesDrawn
  /\ DraftsFresh
  /\ CopiesWellFormed
  /\ CopiesAgree
  /\ BackupsAgree

\* Graph n can become a copy of the journal.
Fits(n) ==
  /\ n \in Graph
  /\ WellFormed(n)
  /\ \A g \in Copies : SealsAgree(g, n)
  /\ \A w \in Worker : HasBackup(job[w]) =>
       SealedAs(n, job[w].tx, job[w].backup)

-----------------------------------------------------------------------------
(***************************************************************************)
(* A step of one worker.                                                   *)
(***************************************************************************)

\* Agreement on seals has no direction.
LEMMA SealsSymmetric ==
  ASSUME NEW g, NEW h, SealsAgree(g, h)
  PROVE  SealsAgree(h, g)
  BY DEF SealsAgree

\* A copy agrees with itself.
LEMMA SealsReflexive ==
  ASSUME NEW g
  PROVE  SealsAgree(g, g)
  BY DEF SealsAgree

\* Every copy fits, and so does the journal without nodes.
LEMMA CopiesFit ==
  ASSUME Inv
  PROVE  \A n \in Copies \cup {EmptyGraph} : Fits(n)
<1>1. \A n \in Copies : n \in Graph
  BY DEF Inv, TypeOK, Copies, Job
<1>2. ASSUME NEW n \in Copies
      PROVE  Fits(n)
  BY <1>1 DEF Inv, CopiesWellFormed, CopiesAgree, BackupsAgree, Fits
<1>3. Fits(EmptyGraph)
  BY EmptyGraphType, EmptyGraphWellFormed, EmptyGraphIds
     DEF Fits, SealsAgree, SealedAs
<1> QED
  BY <1>2, <1>3

\* A step in which worker w goes on with the locals j, the file becomes some
\* copy of the journal, and the journal in memory something that fits.
LEMMA WorkerStep ==
  ASSUME Inv, NEW w \in Worker, NEW j \in Job, ShapeOf(j),
         job' = [job EXCEPT ![w] = j],
         keys' \in Nat, keyFile' \in Nat, clock' \in Nat \ {0},
         verdict' \in [Worker -> Verdict], fate' \in [Tx -> Fate],
         Fits(mem'), disk' \in Copies, j.copy \in Copies \cup {EmptyGraph},
         HasBackup(j) =>
           \/ HasBackup(job[w]) /\ j.tx = job[w].tx /\ j.backup = job[w].backup
           \/ j.tx \in Ids(mem.nodes) /\ j.backup = mem.nodes[j.tx],
         \A t \in Ids(mem'.nodes) : fate'[t] # "unused",
         \A t \in Tx : fate[t] # "unused" => fate'[t] # "unused",
         DraftsFresh'
  PROVE  Inv'
<1>1. /\ job' \in [Worker -> Job]
      /\ job'[w] = j
      /\ \A v \in Worker \ {w} : job'[v] = job[v]
  BY DEF Inv, TypeOK
<1>2. Copies' \subseteq Copies \cup {mem', EmptyGraph}
  <2>1. \A v \in Worker : job'[v].copy \in Copies \cup {EmptyGraph}
    BY <1>1 DEF Copies
  <2> QED
    BY <2>1 DEF Copies
<1>3. \A g \in Copies \cup {mem', EmptyGraph} : Fits(g)
  BY CopiesFit
<1>4. TypeOK'
  <2>1. mem' \in Graph /\ disk' \in Graph
    BY <1>3 DEF Fits
  <2> QED
    BY <1>1, <2>1 DEF TypeOK
<1>5. JobShape'
  BY <1>1 DEF Inv, JobShape
<1>6. mem \in Copies
  BY DEF Copies
<1>7. Ids(mem.nodes) \subseteq Tx
  BY DEF Ids
<1>8. CopiesDrawn'
  <2>1. \A g \in Copies \cup {mem', EmptyGraph} : \A t \in Ids(g.nodes) :
          fate'[t] # "unused"
    <3>1. \A g : Ids(g.nodes) \subseteq Tx
      BY DEF Ids
    <3> QED
      BY <3>1, EmptyGraphIds DEF Inv, CopiesDrawn
  <2>2. ASSUME NEW v \in Worker, HasBackup(job'[v])
        PROVE  fate'[job'[v].tx] # "unused"
    <3>1. CASE HasBackup(job[v]) /\ job'[v].tx = job[v].tx
      <4>1. job[v].tx \in Tx /\ fate[job[v].tx] # "unused"
        BY <3>1 DEF Inv, CopiesDrawn, JobShape, ShapeOf
      <4> QED
        BY <3>1, <4>1
    <3>2. CASE v = w /\ j.tx \in Ids(mem.nodes)
      BY <3>2, <1>1, <1>6, <1>7 DEF Inv, CopiesDrawn
    <3> QED
      BY <2>2, <3>1, <3>2, <1>1
  <2> QED
    BY <2>1, <2>2, <1>2 DEF CopiesDrawn
<1>9. CopiesWellFormed'
  BY <1>2, <1>3 DEF CopiesWellFormed, Fits
<1>10. CopiesAgree'
  <2>1. \A g, h \in Copies \cup {mem', EmptyGraph} : SealsAgree(g, h)
    <3>1. \A g \in Copies, h \in Copies \cup {mem', EmptyGraph} : SealsAgree(g, h)
      BY <1>3 DEF Fits
    <3>2. \A g : SealsAgree(g, EmptyGraph) /\ SealsAgree(EmptyGraph, g)
      BY EmptyGraphIds DEF SealsAgree
    <3>3. SealsAgree(mem', mem')
      BY SealsReflexive
    <3> QED
      BY <3>1, <3>2, <3>3, SealsSymmetric
  <2> QED
    BY <2>1, <1>2 DEF CopiesAgree
<1>11. BackupsAgree'
  \* The backups there are now come from before the step or from its start.
  <2> DEFINE Old(v, t, n) ==
               HasBackup(job[v]) /\ t = job[v].tx /\ n = job[v].backup
             Cut(t, n) == t \in Ids(mem.nodes) /\ n = mem.nodes[t]
  <2>1. ASSUME NEW v \in Worker, HasBackup(job'[v])
        PROVE  \/ Old(v, job'[v].tx, job'[v].backup)
               \/ Cut(job'[v].tx, job'[v].backup)
    BY <2>1, <1>1
  <2>2. ASSUME NEW v \in Worker, NEW t, NEW n, Old(v, t, n) \/ Cut(t, n)
        PROVE  /\ n.tx.id = t
               /\ \A g \in Copies \cup {mem', EmptyGraph} : SealedAs(g, t, n)
    <3>1. CASE Old(v, t, n)
      BY <3>1, <1>3 DEF Inv, BackupsAgree, Fits
    <3>2. CASE Cut(t, n)
      <4>1. n.tx.id = t
        BY <3>2, <1>6 DEF Inv, CopiesWellFormed, WellFormed, Sealed
      <4>2. \A g \in Copies \cup {mem', EmptyGraph} : SealsAgree(mem, g)
        BY <1>3, <1>6 DEF Fits
      <4> QED
        BY <3>2, <4>1, <4>2 DEF SealsAgree, SealedAs
    <3> QED
      BY <2>2, <3>1, <3>2
  <2>3. ASSUME NEW v \in Worker, NEW u \in Worker, NEW t, NEW n, NEW m,
               Old(v, t, n) \/ Cut(t, n), Old(u, t, m) \/ Cut(t, m)
        PROVE  Seal(n) = Seal(m)
    <3>1. CASE Old(v, t, n) /\ Old(u, t, m)
      BY <3>1 DEF Inv, BackupsAgree
    <3>2. CASE Cut(t, n)
      <4>1. SealedAs(mem, t, m)
        BY <2>2, <2>3, <1>6
      <4> QED
        BY <3>2, <4>1 DEF SealedAs
    <3>3. CASE Cut(t, m)
      <4>1. SealedAs(mem, t, n)
        BY <2>2, <2>3, <1>6
      <4> QED
        BY <3>3, <4>1 DEF SealedAs
    <3> QED
      BY <2>3, <3>1, <3>2, <3>3
  <2> HIDE DEF Old, Cut
  <2>4. ASSUME NEW v \in Worker, HasBackup(job'[v])
        PROVE  /\ job'[v].backup.tx.id = job'[v].tx
               /\ \A g \in Copies' : SealedAs(g, job'[v].tx, job'[v].backup)
    BY <2>1, <2>2, <2>4, <1>2
  <2>5. ASSUME NEW v \in Worker, HasBackup(job'[v]),
               NEW u \in Worker, HasBackup(job'[u]), job'[u].tx = job'[v].tx
        PROVE  Seal(job'[u].backup) = Seal(job'[v].backup)
    <3>1. /\ \/ Old(v, job'[v].tx, job'[v].backup)
             \/ Cut(job'[v].tx, job'[v].backup)
          /\ \/ Old(u, job'[v].tx, job'[u].backup)
             \/ Cut(job'[v].tx, job'[u].backup)
      BY <2>1, <2>5
    <3> QED
      BY <2>3, <3>1
  <2> QED
    BY <2>4, <2>5 DEF BackupsAgree
<1> QED
  BY <1>4, <1>5, <1>8, <1>9, <1>10, <1>11 DEF Inv

-----------------------------------------------------------------------------
(***************************************************************************)
(* The steps that bring no new graph.                                      *)
(***************************************************************************)

\* A step after which only copies that existed before are left, and nothing
\* was drawn or appended.
LEMMA QuietStep ==
  ASSUME Inv, NEW w \in Worker, NEW j \in Job, ShapeOf(j),
         job' = [job EXCEPT ![w] = j],
         keys' \in Nat, keyFile' \in Nat, clock' \in Nat \ {0},
         verdict' \in [Worker -> Verdict], fate' \in [Tx -> Fate],
         mem' \in Copies \cup {EmptyGraph}, disk' \in Copies,
         j.copy \in Copies \cup {EmptyGraph},
         HasBackup(j) => HasBackup(job[w]) /\ j.tx = job[w].tx
                           /\ j.backup = job[w].backup,
         \A t \in Tx : fate'[t] = "unused" <=> fate[t] = "unused",
         HasId(j) => j.draft = job[w].draft \/ j.draft.id \in FreshIds
  PROVE  Inv'
<1>1. /\ job' \in [Worker -> Job]
      /\ job'[w] = j
      /\ \A v \in Worker \ {w} : job'[v] = job[v]
  BY DEF Inv, TypeOK
<1>2. Fits(mem')
  BY CopiesFit
<1>3. \A t \in Ids(mem'.nodes) : fate'[t] # "unused"
  <2>1. \A g : Ids(g.nodes) \subseteq Tx
    BY DEF Ids
  <2> QED
    BY <2>1, EmptyGraphIds DEF Inv, CopiesDrawn
<1>4. \A v \in Worker : HasId(job[v]) => job[v].draft.id \in Tx
  BY DEF HasId, Inv, TypeOK, Job, Draft
<1>5. DraftsFresh'
  <2>1. CASE HasId(j) /\ j.draft.id \in FreshIds
    BY <2>1, <1>1, <1>4 DEF DraftsFresh, HasId, FreshIds, Inv
  <2>2. CASE HasId(j) => j.draft = job[w].draft
    BY <2>2, <1>1, <1>4 DEF DraftsFresh, HasId, Inv
  <2> QED
    BY <2>1, <2>2
<1> QED
  BY <1>2, <1>3, <1>5, WorkerStep

\* The locals of an idle worker.
LEMMA IdleShape ==
  /\ Idle \in Job
  /\ Idle.draft = None /\ Idle.copy = EmptyGraph /\ Idle.pc = "idle"
  BY EmptyGraphType DEF Idle, Locals, Job, PC, NoTx

\* The locals of a worker that has a transaction to append.
LEMMA DraftingShape ==
  ASSUME NEW pc \in {"check", "append"}, NEW op \in Op, NEW draft \in Draft,
         NEW ps \in SUBSET Tx, NEW j, j = Drafting(pc, op, draft, ps)
  PROVE  /\ j \in Job /\ ShapeOf(j) /\ ~ HasBackup(j)
         /\ j.copy = EmptyGraph /\ j.draft = draft
  BY EmptyGraphType DEF Drafting, Locals, Job, PC, NoTx, ShapeOf, HasBackup

\* What is used of the invariant over and over.
LEMMA Known ==
  ASSUME Inv
  PROVE  /\ mem \in Copies /\ disk \in Copies
         /\ \A w \in Worker : /\ job[w] \in Job
                              /\ job[w].copy \in Copies
                              /\ ShapeOf(job[w])
         /\ keys \in Nat /\ keyFile \in Nat /\ clock \in Nat \ {0}
         /\ verdict \in [Worker -> Verdict] /\ fate \in [Tx -> Fate]
  BY DEF Inv, TypeOK, JobShape, Copies

\* The end of a request, whatever copy became the file or the journal in
\* memory.
LEMMA FinishKeepsInv ==
  ASSUME Inv, NEW w \in Worker, Finish(w),
         UNCHANGED <<keys, keyFile, clock>>,
         mem' \in Copies \cup {EmptyGraph}, disk' \in Copies,
         verdict' \in [Worker -> Verdict], fate' \in [Tx -> Fate],
         \A t \in Tx : fate'[t] = "unused" <=> fate[t] = "unused"
  PROVE  Inv'
<1>1. ShapeOf(Idle) /\ ~ HasId(Idle) /\ ~ HasBackup(Idle)
  BY IdleShape DEF ShapeOf, HasId, HasBackup
<1> QED
  BY <1>1, IdleShape, Known, QuietStep DEF Finish

\* The start of a request that changes nothing but the locals of its worker.
LEMMA StartKeepsInv ==
  ASSUME Inv, NEW w \in Worker, NEW o \in Op, NEW j \in Job, ShapeOf(j),
         Start(w, o, j), ~ HasBackup(j),
         keyFile' \in Nat, j.copy \in Copies \cup {EmptyGraph},
         UNCHANGED <<mem, disk, keys, clock, fate>>,
         HasId(j) => j.draft.id \in FreshIds
  PROVE  Inv'
<1>1. verdict' \in [Worker -> Verdict]
  BY Known DEF Start, Verdict
<1> QED
  BY <1>1, Known, QuietStep DEF Start

\* A request to issue a document.
LEMMA StartIssueKeepsInv ==
  ASSUME Inv, NEW w \in Worker, StartIssue(w)
  PROVE  Inv'
<1>1. PICK d \in Doc, h \in DocHash, c \in Country \cup Foreign,
           ps \in ParentArgs :
        /\ Start(w, "issue",
                 Drafting("append", "issue",
                          NewDraft(NoTx, d, h, c, "issue", 0), ps))
        /\ UNCHANGED <<mem, disk, keys, keyFile, clock, fate>>
  BY DEF StartIssue
<1> DEFINE draft == NewDraft(NoTx, d, h, c, "issue", 0)
           j == Drafting("append", "issue", draft, ps)
<1>2. draft \in Draft /\ draft.id = NoTx
  BY DEF NewDraft, Draft, Action, NoTx
<1> HIDE DEF draft
<1>3. j \in Job /\ ShapeOf(j) /\ ~ HasBackup(j) /\ j.copy = EmptyGraph
        /\ j.draft = draft
  BY <1>2, DraftingShape, StoreAssumption DEF Op
<1>4. ~ HasId(j)
  BY <1>2, <1>3 DEF HasId
<1>5. Start(w, "issue", j)
  BY <1>1 DEF draft
<1> HIDE DEF j
<1> QED
  BY <1>1, <1>3, <1>4, <1>5, Known, StartKeepsInv DEF Op

\* A request to revoke a document.
LEMMA StartRevokeKeepsInv ==
  ASSUME Inv, NEW w \in Worker, StartRevoke(w)
  PROVE  Inv'
<1>1. PICK d \in Doc, c \in Country \cup Foreign, ps \in ParentArgs :
        /\ Start(w, "revoke",
                 Drafting("check", "revoke",
                          NewDraft(NoTx, d, NoHash, c, "revoke", 0), ps))
        /\ UNCHANGED <<mem, disk, keys, keyFile, clock, fate>>
  BY DEF StartRevoke
<1> DEFINE draft == NewDraft(NoTx, d, NoHash, c, "revoke", 0)
           j == Drafting("check", "revoke", draft, ps)
<1>2. draft \in Draft /\ draft.id = NoTx
  BY DEF NewDraft, Draft, Action, NoTx
<1> HIDE DEF draft
<1>3. j \in Job /\ ShapeOf(j) /\ ~ HasBackup(j) /\ j.copy = EmptyGraph
        /\ j.draft = draft
  BY <1>2, DraftingShape, StoreAssumption DEF Op
<1>4. ~ HasId(j)
  BY <1>2, <1>3 DEF HasId
<1>5. Start(w, "revoke", j)
  BY <1>1 DEF draft
<1> HIDE DEF j
<1> QED
  BY <1>1, <1>3, <1>4, <1>5, Known, StartKeepsInv DEF Op

\* The demonstration of an illegal revoke, which draws its id at once.
LEMMA StartDemoKeepsInv ==
  ASSUME Inv, NEW w \in Worker, StartDemo(w)
  PROVE  Inv'
<1>1. PICK d \in Doc, c \in Country \cup Foreign, ps \in ParentArgs,
           t \in FreshIds :
        /\ Start(w, "demo",
                 Drafting("check", "demo",
                          NewDraft(t, d, NoHash, c, "revoke", clock), ps))
        /\ UNCHANGED <<mem, disk, keys, keyFile, clock, fate>>
  BY DEF StartDemo
<1> DEFINE draft == NewDraft(t, d, NoHash, c, "revoke", clock)
           j == Drafting("check", "demo", draft, ps)
<1>2. draft \in Draft /\ draft.id = t
  BY Known DEF NewDraft, Draft, Action, FreshIds
<1> HIDE DEF draft
<1>3. j \in Job /\ ShapeOf(j) /\ ~ HasBackup(j) /\ j.copy = EmptyGraph
        /\ j.draft = draft
  BY <1>2, DraftingShape, StoreAssumption DEF Op
<1>4. Start(w, "demo", j)
  BY <1>1 DEF draft
<1> HIDE DEF j
<1> QED
  BY <1>1, <1>2, <1>3, <1>4, Known, StartKeepsInv DEF Op

-----------------------------------------------------------------------------
(***************************************************************************)
(* The steps of a request.                                                 *)
(***************************************************************************)

\* A worker that goes on without changing its other locals.
LEMMA GotoLocals ==
  ASSUME Inv, NEW w \in Worker, NEW pc \in PC, Goto(w, pc),
         NEW j, j = [job[w] EXCEPT !.pc = pc]
  PROVE  /\ j \in Job
         /\ job' = [job EXCEPT ![w] = j]
         /\ j.pc = pc /\ j.copy = job[w].copy /\ j.draft = job[w].draft
         /\ j.tx = job[w].tx /\ j.backup = job[w].backup
<1>1. job[w] \in Job
  BY Known
<1> QED
  BY <1>1 DEF Goto, Job

\* The check of a revoke.
LEMMA CheckKeepsInv ==
  ASSUME Inv, NEW w \in Worker, CheckPasses(w) \/ CheckRefuses(w)
  PROVE  Inv'
<1>1. CASE CheckPasses(w)
  <2> DEFINE j == [job[w] EXCEPT !.pc = "append"]
  <2>1. /\ j \in Job
        /\ job' = [job EXCEPT ![w] = j]
        /\ j.pc = "append" /\ j.copy = job[w].copy /\ j.draft = job[w].draft
    BY <1>1, GotoLocals DEF CheckPasses, PC
  <2> HIDE DEF j
  <2>2. ShapeOf(j) /\ ~ HasBackup(j)
    BY <1>1, <2>1, Known DEF ShapeOf, HasBackup, CheckPasses
  <2>3. UNCHANGED <<mem, disk, keys, keyFile, clock, fate, verdict>>
    BY <1>1 DEF CheckPasses
  <2> QED
    BY <2>1, <2>2, <2>3, Known, QuietStep
<1>2. CASE CheckRefuses(w)
  BY <1>2, Known, FinishKeepsInv DEF CheckRefuses
<1> QED
  BY <1>1, <1>2

\* The refusal of an append.
LEMMA AppendRefusesKeepsInv ==
  ASSUME Inv, NEW w \in Worker, AppendRefuses(w)
  PROVE  Inv'
  BY Known, FinishKeepsInv DEF AppendRefuses

\* The copy that will be written.
LEMMA TakeSnapshotKeepsInv ==
  ASSUME Inv, NEW w \in Worker, TakeSnapshot(w)
  PROVE  Inv'
<1> DEFINE j == [job[w] EXCEPT !.pc = "write", !.copy = mem]
<1>1. job[w] \in Job /\ mem \in Graph
  BY Known DEF Inv, TypeOK
<1>2. /\ j \in Job /\ j.pc = "write" /\ j.copy = mem
      /\ j.draft = job[w].draft
  BY <1>1 DEF Job, PC
<1>3. job' = [job EXCEPT ![w] = j]
  BY <1>1 DEF TakeSnapshot, Job
<1> HIDE DEF j
<1>4. j.draft = None
  BY <1>2, Known DEF TakeSnapshot, ShapeOf
<1>5. ShapeOf(j) /\ ~ HasBackup(j) /\ ~ HasId(j)
  BY <1>2, <1>4 DEF ShapeOf, HasBackup, HasId
<1>6. UNCHANGED <<mem, disk, keys, keyFile, clock, fate, verdict>>
  BY DEF TakeSnapshot
<1> QED
  BY <1>2, <1>3, <1>5, <1>6, Known, QuietStep

\* The answer to a client draws no id and gives none back.
LEMMA AnsweredFate ==
  ASSUME Inv, NEW w \in Worker, NEW saved \in BOOLEAN
  PROVE  /\ Answered(w, saved) \in [Tx -> Fate]
         /\ \A t \in Tx : Answered(w, saved)[t] = "unused" <=> fate[t] = "unused"
  BY Known DEF Answered, Fate

\* The write of the file, and its failure.
LEMMA WriteKeepsInv ==
  ASSUME Inv, NEW w \in Worker, Write(w) \/ WriteFails(w)
  PROVE  Inv'
<1>1. CASE Write(w)
  BY <1>1, Known, AnsweredFate, FinishKeepsInv DEF Write
<1>2. CASE WriteFails(w)
  BY <1>2, Known, AnsweredFate, FinishKeepsInv DEF WriteFails
<1> QED
  BY <1>1, <1>2

\* The shape of the locals of a worker with neither a transaction nor a backup.
LEMMA PlainShape ==
  ASSUME NEW j \in Job, j.draft = None, ~ HasBackup(j),
         j.pc \notin {"check", "append"}
  PROVE  ShapeOf(j) /\ ~ HasId(j)
  BY DEF ShapeOf, HasId, HasBackup

\* The locals of a worker that holds what it read from the file.
LEMMA ReadingShape ==
  ASSUME NEW pc \in {"replace", "report"}, NEW op \in Op, NEW g \in Graph,
         NEW j, j = Reading(pc, op, g)
  PROVE  j \in Job /\ ShapeOf(j) /\ ~ HasBackup(j) /\ ~ HasId(j) /\ j.copy = g
  BY DEF Reading, Locals, Job, PC, NoTx, ShapeOf, HasBackup, HasId

\* The locals of a worker that has made new keys.
LEMMA RekeyingShape ==
  ASSUME NEW pc \in {"swap", "clear"}, NEW k \in Nat,
         NEW j, j = Rekeying(pc, k)
  PROVE  /\ j \in Job /\ ShapeOf(j) /\ ~ HasBackup(j) /\ ~ HasId(j)
         /\ j.copy = EmptyGraph
  BY EmptyGraphType
     DEF Rekeying, Locals, Job, PC, Op, NoTx, ShapeOf, HasBackup, HasId

\* The locals of a worker that will save the journal.
LEMMA PersistingShape ==
  ASSUME NEW op \in Op \cup {None}, NEW t \in Tx \cup {NoTx},
         NEW j, j = Persisting(op, t)
  PROVE  /\ j \in Job /\ ShapeOf(j) /\ ~ HasBackup(j) /\ ~ HasId(j)
         /\ j.copy = EmptyGraph
  BY EmptyGraphType
     DEF Persisting, Locals, Job, PC, NoTx, ShapeOf, HasBackup, HasId

\* The locals of a worker that attacks a node.
LEMMA TamperingShape ==
  ASSUME NEW op \in Op, NEW t \in Tx, NEW n \in Node,
         NEW j, j = Tampering(op, t, n)
  PROVE  /\ j \in Job /\ ShapeOf(j) /\ HasBackup(j) /\ ~ HasId(j)
         /\ j.copy = EmptyGraph /\ j.tx = t /\ j.backup = n
  BY EmptyGraphType, NoneAssumption
     DEF Tampering, Locals, Job, PC, NoTx, ShapeOf, HasBackup, HasId

\* Reading nodes.json.
LEMMA StartReloadKeepsInv ==
  ASSUME Inv, NEW w \in Worker, StartReload(w)
  PROVE  Inv'
<1>1. PICK o \in {"validate", "verify"} :
        /\ Start(w, o, Reading("replace", o, disk))
        /\ UNCHANGED <<mem, disk, keys, keyFile, clock, fate>>
  BY DEF StartReload
<1> DEFINE j == Reading("replace", o, disk)
<1>2. o \in Op /\ disk \in Graph
  BY DEF Op, Inv, TypeOK
<1>3. j \in Job /\ ShapeOf(j) /\ ~ HasBackup(j) /\ ~ HasId(j) /\ j.copy = disk
  BY <1>2, ReadingShape
<1>4. Start(w, o, j)
  BY <1>1
<1> HIDE DEF j
<1> QED
  BY <1>1, <1>2, <1>3, <1>4, Known, StartKeepsInv

\* Putting what was read in the place of the journal in memory.
LEMMA ReplaceKeepsInv ==
  ASSUME Inv, NEW w \in Worker, Replace(w)
  PROVE  Inv'
<1>1. UNCHANGED <<disk, keys, keyFile, clock, fate, verdict>>
        /\ mem' = job[w].copy
  BY DEF Replace
<1>2. CASE job[w].op = "verify"
  <2>1. Finish(w)
    BY <1>2 DEF Replace, Finish
  <2> QED
    BY <1>1, <2>1, Known, FinishKeepsInv
<1>3. CASE job[w].op # "verify"
  <2> DEFINE j == Reading("report", "validate", EmptyGraph)
  <2>1. job' = [job EXCEPT ![w] = j]
    BY <1>3 DEF Replace
  <2>2. j \in Job /\ ShapeOf(j) /\ ~ HasBackup(j) /\ ~ HasId(j)
          /\ j.copy = EmptyGraph
    BY ReadingShape, EmptyGraphType DEF Op
  <2> HIDE DEF j
  <2> QED
    BY <1>1, <2>1, <2>2, Known, QuietStep
<1> QED
  BY <1>2, <1>3

\* Reporting what the validation found.
LEMMA ReportKeepsInv ==
  ASSUME Inv, NEW w \in Worker, Report(w)
  PROVE  Inv'
<1>1. verdict' \in [Worker -> Verdict]
  BY Known DEF Report, Validated, Verdict
<1> QED
  BY <1>1, Known, FinishKeepsInv DEF Report

\* The validation inside an attack simulation.
LEMMA InspectKeepsInv ==
  ASSUME Inv, NEW w \in Worker, Inspect(w)
  PROVE  Inv'
<1> DEFINE j == [job[w] EXCEPT !.pc = "restore"]
<1>1. verdict' \in [Worker -> Verdict]
  BY Known DEF Inspect, Validated, Verdict
<1>2. /\ j \in Job
      /\ job' = [job EXCEPT ![w] = j]
      /\ j.pc = "restore" /\ j.copy = job[w].copy /\ j.draft = job[w].draft
      /\ j.tx = job[w].tx /\ j.backup = job[w].backup
  BY GotoLocals DEF Inspect, PC
<1> HIDE DEF j
<1>3. ShapeOf(j) /\ HasBackup(job[w])
  BY <1>2, Known DEF ShapeOf, HasBackup, Inspect
<1>4. UNCHANGED <<mem, disk, keys, keyFile, clock, fate>>
  BY DEF Inspect
<1> QED
  BY <1>1, <1>2, <1>3, <1>4, Known, QuietStep

\* The new key file of a reset.
LEMMA RegenerateKeepsInv ==
  ASSUME Inv, NEW w \in Worker, Regenerate(w)
  PROVE  Inv'
<1> DEFINE j == Rekeying("swap", keyFile + 1)
<1>1. /\ Start(w, "reset", j)
      /\ keyFile' = keyFile + 1
      /\ UNCHANGED <<mem, disk, keys, clock, fate>>
  BY DEF Regenerate
<1>2. keyFile + 1 \in Nat
  BY Known
<1>3. j \in Job /\ ShapeOf(j) /\ ~ HasBackup(j) /\ ~ HasId(j)
        /\ j.copy = EmptyGraph
  BY <1>2, RekeyingShape
<1> HIDE DEF j
<1> QED
  BY <1>1, <1>2, <1>3, Known, StartKeepsInv DEF Op

\* New keys in memory change no journal.
LEMMA SwapKeysKeepsInv ==
  ASSUME Inv, NEW w \in Worker, SwapKeys(w)
  PROVE  Inv'
<1> DEFINE j == [job[w] EXCEPT !.pc = "clear"]
<1>1. /\ j \in Job
      /\ job' = [job EXCEPT ![w] = j]
      /\ j.pc = "clear" /\ j.copy = job[w].copy /\ j.draft = job[w].draft
  BY GotoLocals DEF SwapKeys, PC
<1> HIDE DEF j
<1>2. j.draft = None /\ ~ HasBackup(j)
  BY <1>1, Known DEF ShapeOf, HasBackup, SwapKeys
<1>3. ShapeOf(j) /\ ~ HasId(j)
  BY <1>1, <1>2, PlainShape
<1>4. keys' \in Nat /\ UNCHANGED <<mem, disk, keyFile, clock, fate, verdict>>
  BY Known DEF SwapKeys, Job
<1> QED
  BY <1>1, <1>2, <1>3, <1>4, Known, QuietStep

\* Emptying the journal in memory gives no id back.
LEMMA ClearKeepsInv ==
  ASSUME Inv, NEW w \in Worker, Clear(w)
  PROVE  Inv'
<1> DEFINE j == Persisting("reset", NoTx)
<1>1. /\ job' = [job EXCEPT ![w] = j]
      /\ mem' = EmptyGraph
      /\ UNCHANGED <<disk, keys, keyFile, clock, verdict>>
  BY DEF Clear
<1>2. j \in Job /\ ShapeOf(j) /\ ~ HasBackup(j) /\ ~ HasId(j)
        /\ j.copy = EmptyGraph
  BY PersistingShape DEF Op
<1>3. fate' \in [Tx -> Fate]
  BY Known DEF Clear, Fate
<1>4. \A t \in Tx : fate'[t] = "unused" <=> fate[t] = "unused"
  <2>1. \A t \in Ids(mem.nodes) : fate[t] # "unused"
    BY Known DEF Inv, CopiesDrawn
  <2> QED
    BY <2>1 DEF Clear
<1> HIDE DEF j
<1> QED
  BY <1>1, <1>2, <1>3, <1>4, Known, QuietStep

-----------------------------------------------------------------------------
(***************************************************************************)
(* The steps that change a graph.                                          *)
(***************************************************************************)

\* The transaction that is added is complete, and its id is new to every copy
\* of the journal, every backup and every other request.
LEMMA AppendBody ==
  ASSUME Inv, NEW w \in Worker, job[w].pc = "append", Acceptable(w),
         NEW t \in IF job[w].draft.id = NoTx THEN FreshIds
                                             ELSE {job[w].draft.id},
         NEW body, body = Complete(job[w].draft, t)
  PROVE  /\ t \in Tx /\ body \in Body /\ body.id = t
         /\ fate[t] = "unused"
         /\ \A v \in Worker \ {w} : HasId(job[v]) => job[v].draft.id # t
<1>1. job[w].draft \in Draft
  BY Known DEF ShapeOf
<1>2. /\ t \in Tx /\ fate[t] = "unused"
      /\ \A v \in Worker \ {w} : HasId(job[v]) => job[v].draft.id # t
  <2>1. CASE job[w].draft.id = NoTx
    BY <2>1 DEF FreshIds, HasId
  <2>2. CASE job[w].draft.id # NoTx
    <3>1. job[w].draft # None
      BY <1>1, NoDraftAssumption
    <3> QED
      BY <2>2, <3>1, <1>1 DEF Inv, DraftsFresh, HasId, Draft
  <2> QED
    BY <2>1, <2>2
<1>3. clock \in Nat
  BY Known
<1>4. body \in Body /\ body.id = t
  BY <1>1, <1>2, <1>3 DEF Complete, NewDraft, Draft, Body
<1> QED
  BY <1>2, <1>4

\* Adding a transaction.
LEMMA AppendAcceptsKeepsInv ==
  ASSUME Inv, NEW w \in Worker, AppendAccepts(w)
  PROVE  Inv'
<1>1. PICK t \in IF job[w].draft.id = NoTx THEN FreshIds
                                           ELSE {job[w].draft.id} :
        /\ mem' = AddNode(mem, Complete(job[w].draft, t), job[w].parents, keys)
        /\ fate' = [fate EXCEPT ![t] = "appended"]
        /\ job' = [job EXCEPT ![w] = Persisting(job[w].op, t)]
  BY DEF AppendAccepts, AppendNode
<1> DEFINE body == Complete(job[w].draft, t)
           j == Persisting(job[w].op, t)
<1>2. /\ t \in Tx /\ body \in Body /\ body.id = t
      /\ fate[t] = "unused"
      /\ \A v \in Worker \ {w} : HasId(job[v]) => job[v].draft.id # t
  BY AppendBody DEF AppendAccepts
<1>3. mem' = AddNode(mem, body, job[w].parents, keys)
        /\ job' = [job EXCEPT ![w] = j]
  BY <1>1
<1> HIDE DEF body
<1>4. \A g \in Copies : t \notin Ids(g.nodes)
  BY <1>2 DEF Inv, CopiesDrawn
<1>5. /\ mem' \in Graph
      /\ WellFormed(mem')
      /\ Ids(mem'.nodes) = Ids(mem.nodes) \cup {t}
      /\ \A u \in Ids(mem.nodes) : mem'.nodes[u] = mem.nodes[u]
  <2>1. mem \in Graph /\ WellFormed(mem) /\ mem \in Copies /\ keys \in Nat
    BY Known DEF Inv, TypeOK, CopiesWellFormed
  <2>2. KnownParents(mem.nodes, job[w].parents)
    BY DEF AppendAccepts, Acceptable
  <2>3. body.id \notin Ids(mem.nodes)
    BY <1>2, <1>4, <2>1
  <2> QED
    BY <1>2, <1>3, <2>1, <2>2, <2>3, AddNodeWellFormed
<1>6. Fits(mem')
  <2>1. \A g \in Copies : SealsAgree(g, mem')
    <3>1. \A g \in Copies : SealsAgree(g, mem)
      BY Known DEF Inv, CopiesAgree
    <3> QED
      BY <3>1, <1>4, <1>5 DEF SealsAgree
  <2>2. ASSUME NEW v \in Worker, HasBackup(job[v])
        PROVE  SealedAs(mem', job[v].tx, job[v].backup)
    <3>1. job[v].tx # t /\ SealedAs(mem, job[v].tx, job[v].backup)
      BY <2>2, <1>2, Known DEF Inv, CopiesDrawn, BackupsAgree
    <3> QED
      BY <3>1, <1>5 DEF SealedAs
  <2> QED
    BY <1>5, <2>1, <2>2 DEF Fits
<1>7. /\ j \in Job /\ ShapeOf(j) /\ ~ HasBackup(j) /\ ~ HasId(j)
      /\ j.copy = EmptyGraph
  <2>1. job[w].op \in Op \cup {None}
    BY Known DEF Job
  <2> QED
    BY <2>1, <1>2, PersistingShape
<1> HIDE DEF j
<1>8. /\ fate' \in [Tx -> Fate]
      /\ \A u \in Tx : fate[u] # "unused" => fate'[u] # "unused"
      /\ \A u \in Tx \ {t} : fate'[u] = fate[u]
      /\ fate'[t] # "unused"
  BY <1>1, <1>2, Known DEF Fate
<1>9. \A u \in Ids(mem'.nodes) : fate'[u] # "unused"
  <2>1. Ids(mem.nodes) \subseteq Tx
    BY DEF Ids
  <2> QED
    BY <2>1, <1>5, <1>8, Known DEF Inv, CopiesDrawn
<1>10. DraftsFresh'
  <2>1. /\ job'[w] = j
        /\ \A v \in Worker \ {w} : job'[v] = job[v]
    BY <1>3 DEF Inv, TypeOK
  <2>2. \A v \in Worker : HasId(job[v]) => job[v].draft.id \in Tx
    BY Known DEF HasId, Job, Draft
  <2> QED
    BY <2>1, <2>2, <1>2, <1>7, <1>8 DEF Inv, DraftsFresh
<1>11. UNCHANGED <<disk, keys, keyFile, clock, verdict>>
  BY DEF AppendAccepts
<1> QED
  BY <1>3, <1>6, <1>7, <1>8, <1>9, <1>10, <1>11, Known, WorkerStep

\* A graph with a node put over one with the same seal fits.
LEMMA PutNodeFits ==
  ASSUME Inv, NEW t \in Ids(mem.nodes), NEW node \in Node, node.tx.id = t,
         Seal(node) = Seal(mem.nodes[t]), mem' = PutNode(mem, t, node)
  PROVE  /\ Fits(mem')
         /\ Ids(mem'.nodes) = Ids(mem.nodes)
<1>1. mem \in Graph /\ WellFormed(mem) /\ mem \in Copies
  BY Known DEF Inv, TypeOK, CopiesWellFormed
<1>2. /\ mem' \in Graph
      /\ WellFormed(mem')
      /\ Ids(mem'.nodes) = Ids(mem.nodes)
      /\ \A u \in Ids(mem'.nodes) : Seal(mem'.nodes[u]) = Seal(mem.nodes[u])
  BY <1>1, PutNodeWellFormed
<1>3. \A g \in Copies : SealsAgree(g, mem)
  BY <1>1 DEF Inv, CopiesAgree
<1>4. \A g \in Copies : SealsAgree(g, mem')
  BY <1>2, <1>3 DEF SealsAgree
<1>5. \A v \in Worker : HasBackup(job[v]) =>
        SealedAs(mem', job[v].tx, job[v].backup)
  BY <1>1, <1>2 DEF Inv, BackupsAgree, SealedAs
<1> QED
  BY <1>2, <1>4, <1>5 DEF Fits

\* The change a simulation makes.
LEMMA AttackKeepsInv ==
  ASSUME Inv, NEW w \in Worker, NEW o \in Op, NEW t \in Ids(mem.nodes),
         NEW node \in Node, node.tx.id = t, Seal(node) = Seal(mem.nodes[t]),
         Attack(w, o, t, node)
  PROVE  Inv'
<1> DEFINE j == Tampering(o, t, mem.nodes[t])
<1>1. /\ job' = [job EXCEPT ![w] = j]
      /\ verdict' = [verdict EXCEPT ![w] = "none"]
      /\ mem' = PutNode(mem, t, node)
      /\ UNCHANGED <<disk, keys, keyFile, clock, fate>>
  BY DEF Attack, Start
<1>2. t \in Tx /\ mem.nodes[t] \in Node
  BY DEF Ids, Inv, TypeOK, Graph, NodeMap
<1>3. j \in Job /\ ShapeOf(j) /\ HasBackup(j) /\ ~ HasId(j)
        /\ j.copy = EmptyGraph /\ j.tx = t /\ j.backup = mem.nodes[t]
  BY <1>2, TamperingShape
<1> HIDE DEF j
<1>4. Fits(mem') /\ Ids(mem'.nodes) = Ids(mem.nodes)
  BY <1>1, PutNodeFits
<1>5. \A u \in Ids(mem'.nodes) : fate'[u] # "unused"
  BY <1>1, <1>4, Known DEF Inv, CopiesDrawn
<1>6. verdict' \in [Worker -> Verdict]
  BY <1>1, Known DEF Verdict
<1>7. DraftsFresh'
  BY <1>1, <1>3 DEF Inv, TypeOK, DraftsFresh
<1> QED
  BY <1>1, <1>3, <1>4, <1>5, <1>6, <1>7, Known, WorkerStep

\* A forged document hash leaves the seal of the node alone.
LEMMA ForgeKeepsInv ==
  ASSUME Inv, NEW w \in Worker, Forge(w)
  PROVE  Inv'
<1>1. PICK t \in Ids(mem.nodes), h \in DocHash :
        Attack(w, "forge", t, [mem.nodes[t] EXCEPT !.tx.hash = h])
  BY DEF Forge
<1> DEFINE node == [mem.nodes[t] EXCEPT !.tx.hash = h]
<1>2. mem.nodes[t] \in Node /\ mem.nodes[t].tx.id = t
  BY Known DEF Ids, Inv, TypeOK, Graph, NodeMap, CopiesWellFormed, WellFormed,
     Sealed
<1>3. node \in Node /\ node.tx.id = t /\ Seal(node) = Seal(mem.nodes[t])
  BY <1>2 DEF Node, Body, Seal
<1> HIDE DEF node
<1> QED
  BY <1>1, <1>3, AttackKeepsInv DEF Op, node

\* A substituted issuer leaves the seal of the node alone.
LEMMA SubstituteKeepsInv ==
  ASSUME Inv, NEW w \in Worker, Substitute(w)
  PROVE  Inv'
<1>1. PICK t \in Ids(mem.nodes), c \in Country \cup Foreign :
        Attack(w, "substitute", t, [mem.nodes[t] EXCEPT !.tx.issuer = c])
  BY DEF Substitute
<1> DEFINE node == [mem.nodes[t] EXCEPT !.tx.issuer = c]
<1>2. mem.nodes[t] \in Node /\ mem.nodes[t].tx.id = t
  BY Known DEF Ids, Inv, TypeOK, Graph, NodeMap, CopiesWellFormed, WellFormed,
     Sealed
<1>3. node \in Node /\ node.tx.id = t /\ Seal(node) = Seal(mem.nodes[t])
  BY <1>2 DEF Node, Body, Seal
<1> HIDE DEF node
<1> QED
  BY <1>1, <1>3, AttackKeepsInv DEF Op, node

\* The roll-back.
LEMMA RestoreKeepsInv ==
  ASSUME Inv, NEW w \in Worker, Restore(w)
  PROVE  Inv'
<1> DEFINE j == Persisting(job[w].op, NoTx)
<1>1. /\ job' = [job EXCEPT ![w] = j]
      /\ mem' = RolledBack(w)
      /\ UNCHANGED <<disk, keys, keyFile, clock, fate, verdict>>
  BY DEF Restore
<1>2. j \in Job /\ ShapeOf(j) /\ ~ HasBackup(j) /\ ~ HasId(j)
        /\ j.copy = EmptyGraph
  <2>1. job[w].op \in Op \cup {None}
    BY Known DEF Job
  <2> QED
    BY <2>1, PersistingShape
<1> HIDE DEF j
<1>3. Fits(mem') /\ Ids(mem'.nodes) = Ids(mem.nodes)
  <2>1. CASE job[w].tx \in Ids(mem.nodes)
    <3>1. HasBackup(job[w]) /\ job[w].backup \in Node
      BY Known DEF Restore, HasBackup, ShapeOf
    <3>2. /\ job[w].backup.tx.id = job[w].tx
          /\ Seal(job[w].backup) = Seal(mem.nodes[job[w].tx])
      BY <2>1, <3>1, Known DEF Inv, BackupsAgree, SealedAs
    <3>3. mem' = PutNode(mem, job[w].tx, job[w].backup)
      BY <1>1, <2>1 DEF RolledBack
    <3> QED
      BY <2>1, <3>1, <3>2, <3>3, PutNodeFits
  <2>2. CASE job[w].tx \notin Ids(mem.nodes)
    BY <1>1, <2>2, Known, CopiesFit DEF RolledBack
  <2> QED
    BY <2>1, <2>2
<1>4. \A u \in Ids(mem'.nodes) : fate'[u] # "unused"
  BY <1>1, <1>3, Known DEF Inv, CopiesDrawn
<1>5. DraftsFresh'
  BY <1>1, <1>2 DEF Inv, TypeOK, DraftsFresh
<1> QED
  BY <1>1, <1>2, <1>3, <1>4, <1>5, Known, WorkerStep

-----------------------------------------------------------------------------
(***************************************************************************)
(* The steps of the environment.                                           *)
(***************************************************************************)

\* The passing of time.
LEMMA TickKeepsInv ==
  ASSUME Inv, Tick
  PROVE  Inv'
<1>1. clock' \in Nat \ {0} /\ UNCHANGED <<mem, disk, keys, keyFile, job, fate, verdict>>
  BY Known DEF Tick
<1>2. Copies' = Copies
  BY <1>1 DEF Copies
<1>3. TypeOK' /\ JobShape' /\ DraftsFresh'
  BY <1>1 DEF Inv, TypeOK, JobShape, DraftsFresh
<1>4. CopiesDrawn' /\ CopiesWellFormed' /\ CopiesAgree' /\ BackupsAgree'
  BY <1>1, <1>2
     DEF Inv, CopiesDrawn, CopiesWellFormed, CopiesAgree, BackupsAgree
<1> QED
  BY <1>3, <1>4 DEF Inv

\* A restart leaves the file, and in memory the file or nothing.
LEMMA RestartKeepsInv ==
  ASSUME Inv, Restart
  PROVE  Inv'
<1>1. /\ mem' \in {disk, EmptyGraph}
      /\ keys' = keyFile
      /\ job' = [w \in Worker |-> Idle]
      /\ verdict' = [w \in Worker |-> "none"]
      /\ UNCHANGED <<disk, keyFile, clock, fate>>
  BY DEF Restart
<1>2. \A w \in Worker : job'[w] = Idle
  BY <1>1
<1>3. ShapeOf(Idle) /\ ~ HasId(Idle) /\ ~ HasBackup(Idle)
  BY IdleShape DEF ShapeOf, HasId, HasBackup
<1>4. Copies' \subseteq Copies \cup {EmptyGraph}
  BY <1>1, <1>2, IdleShape DEF Copies
<1>5. \A g \in Copies \cup {EmptyGraph} : Fits(g)
  BY CopiesFit
<1>6. TypeOK'
  <2>1. disk \in Graph /\ mem' \in Graph
    BY <1>1, EmptyGraphType DEF Inv, TypeOK
  <2> QED
    BY <1>1, <2>1, Known, IdleShape DEF TypeOK, Verdict
<1>7. JobShape' /\ DraftsFresh' /\ BackupsAgree'
  BY <1>2, <1>3 DEF JobShape, DraftsFresh, BackupsAgree
<1>8. CopiesDrawn'
  <2>1. \A g \in Copies \cup {EmptyGraph} : \A t \in Ids(g.nodes) :
          fate'[t] # "unused"
    BY <1>1, EmptyGraphIds DEF Inv, CopiesDrawn
  <2> QED
    BY <2>1, <1>2, <1>3, <1>4 DEF CopiesDrawn
<1>9. CopiesWellFormed'
  BY <1>4, <1>5 DEF CopiesWellFormed, Fits
<1>10. CopiesAgree'
  <2>1. \A g, h \in Copies \cup {EmptyGraph} : SealsAgree(g, h)
    BY EmptyGraphIds DEF Inv, CopiesAgree, SealsAgree
  <2> QED
    BY <2>1, <1>4 DEF CopiesAgree
<1> QED
  BY <1>6, <1>7, <1>8, <1>9, <1>10 DEF Inv

-----------------------------------------------------------------------------
(***************************************************************************)
(* The invariant.                                                          *)
(***************************************************************************)

\* The invariant holds of an empty journal and idle workers.
LEMMA InvInit == Init => Inv
<1> SUFFICES ASSUME Init
             PROVE  Inv
  OBVIOUS
<1>1. \A w \in Worker : job[w] = Idle
  BY DEF Init
<1>2. ShapeOf(Idle) /\ ~ HasId(Idle) /\ ~ HasBackup(Idle)
  BY IdleShape DEF ShapeOf, HasId, HasBackup
<1>3. Copies = {EmptyGraph}
  BY <1>1, IdleShape DEF Copies, Init
<1>4. TypeOK
  BY EmptyGraphType, IdleShape DEF Init, TypeOK, Fate, Verdict
<1>5. JobShape /\ DraftsFresh /\ BackupsAgree
  BY <1>1, <1>2 DEF JobShape, DraftsFresh, BackupsAgree
<1>6. CopiesDrawn
  BY <1>1, <1>2, <1>3, EmptyGraphIds DEF CopiesDrawn
<1>7. CopiesWellFormed /\ CopiesAgree
  BY <1>3, EmptyGraphWellFormed, SealsReflexive
     DEF CopiesWellFormed, CopiesAgree
<1> QED
  BY <1>4, <1>5, <1>6, <1>7 DEF Inv

\* Every step preserves it.
LEMMA InvStep == Inv /\ [Next]_vars => Inv'
<1> SUFFICES ASSUME Inv, [Next]_vars
             PROVE  Inv'
  OBVIOUS
<1>1. ASSUME NEW w \in Worker, Serve(w)
      PROVE  Inv'
  <2>1. CASE CheckPasses(w) \/ CheckRefuses(w)
    BY <2>1, CheckKeepsInv
  <2>2. CASE AppendAccepts(w)
    BY <2>2, AppendAcceptsKeepsInv
  <2>3. CASE AppendRefuses(w)
    BY <2>3, AppendRefusesKeepsInv
  <2>4. CASE TakeSnapshot(w)
    BY <2>4, TakeSnapshotKeepsInv
  <2>5. CASE Write(w) \/ WriteFails(w)
    BY <2>5, WriteKeepsInv
  <2>6. CASE Replace(w)
    BY <2>6, ReplaceKeepsInv
  <2>7. CASE Report(w)
    BY <2>7, ReportKeepsInv
  <2>8. CASE Inspect(w)
    BY <2>8, InspectKeepsInv
  <2>9. CASE Restore(w)
    BY <2>9, RestoreKeepsInv
  <2>10. CASE SwapKeys(w)
    BY <2>10, SwapKeysKeepsInv
  <2>11. CASE Clear(w)
    BY <2>11, ClearKeepsInv
  <2> QED
    BY <1>1, <2>1, <2>2, <2>3, <2>4, <2>5, <2>6, <2>7, <2>8, <2>9, <2>10,
       <2>11 DEF Serve
<1>2. ASSUME NEW w \in Worker, Accept(w)
      PROVE  Inv'
  <2>1. CASE StartIssue(w)
    BY <2>1, StartIssueKeepsInv
  <2>2. CASE StartRevoke(w)
    BY <2>2, StartRevokeKeepsInv
  <2>3. CASE StartDemo(w)
    BY <2>3, StartDemoKeepsInv
  <2>4. CASE StartReload(w)
    BY <2>4, StartReloadKeepsInv
  <2>5. CASE Forge(w)
    BY <2>5, ForgeKeepsInv
  <2>6. CASE Substitute(w)
    BY <2>6, SubstituteKeepsInv
  <2>7. CASE Regenerate(w)
    BY <2>7, RegenerateKeepsInv
  <2> QED
    BY <1>2, <2>1, <2>2, <2>3, <2>4, <2>5, <2>6, <2>7 DEF Accept
<1>3. CASE Tick
  BY <1>3, TickKeepsInv
<1>4. CASE Restart
  BY <1>4, RestartKeepsInv
<1>5. CASE UNCHANGED vars
  <2>1. Copies' = Copies
    BY <1>5 DEF vars, Copies
  <2>2. TypeOK' /\ JobShape' /\ DraftsFresh'
    BY <1>5 DEF Inv, vars, TypeOK, JobShape, DraftsFresh
  <2>3. CopiesDrawn' /\ CopiesWellFormed' /\ CopiesAgree' /\ BackupsAgree'
    BY <1>5, <2>1 DEF Inv, vars, CopiesDrawn, CopiesWellFormed, CopiesAgree,
       BackupsAgree
  <2> QED
    BY <2>2, <2>3 DEF Inv
<1> QED
  BY <1>1, <1>2, <1>3, <1>4, <1>5 DEF Next

\* The inductive invariant holds in every reachable state, whatever requests
\* overlap, fail or are cut short (store.go, persistence.go).
THEOREM InvHolds == Spec => []Inv
  BY InvInit, InvStep, PTL DEF Spec

\* Every variable keeps its type.
THEOREM TypeCorrect == Spec => []TypeOK
<1>1. Inv => TypeOK
  BY DEF Inv
<1> QED
  BY <1>1, InvHolds, PTL

\* In every copy of the journal the parents of every node are there
\* (node.go 34-38, store.go 201-205).
THEOREM JournalClosedAlways == Spec => []JournalClosed
<1>1. Inv => JournalClosed
  BY DEF Inv, CopiesWellFormed, WellFormed, JournalClosed
<1> QED
  BY <1>1, InvHolds, PTL

\* In every copy of the journal the gossip log enumerates the nodes, causes
\* first (store.go 225-228, persistence.go 154-166).
THEOREM JournalCausalAlways == Spec => []JournalCausal
<1>1. Inv => JournalCausal
  BY DEF Inv, CopiesWellFormed, WellFormed, JournalCausal
<1> QED
  BY <1>1, InvHolds, PTL

\* In every copy of the journal each virtual vote ranked exactly the nodes
\* known when it was taken, without ties, every node above its parents
\* (gossip.go 53-117).
THEOREM JournalVotedAlways == Spec => []JournalVoted
<1>1. Inv => JournalVoted
  BY DEF Inv, CopiesWellFormed, WellFormed, JournalVoted
<1> QED
  BY <1>1, InvHolds, PTL

\* Copies of the journal never disagree on the seal of a node, and a seal
\* belongs to one transaction (store.go 189-225, 735-745, persistence.go
\* 154-163).
THEOREM JournalSealedAlways == Spec => []JournalSealed
<1>1. Inv => JournalSealed
  BY DEF Inv, CopiesWellFormed, WellFormed, CopiesAgree, JournalSealed
<1> QED
  BY <1>1, InvHolds, PTL

-----------------------------------------------------------------------------
(***************************************************************************)
(* The store implements the ledger, for every value of the constants.      *)
(* The versions of the ledger are the histories of the journal in memory,  *)
(* of the file and of the copies under way.  Every step of a request is    *)
(* one step of the ledger: an append is Add, the end of a write is Save,   *)
(* the replacement of a validation is Reload, a reset is Clear, a restart  *)
(* is Crash, and whatever leaves the histories alone is Take.              *)
(*                                                                         *)
(* That an appended id is in no version of the history, however old, is    *)
(* what the ledger asks of Add and what the invariant of the store gives:  *)
(* an id still to be drawn is in no copy, and the gossip events of a copy  *)
(* are about its nodes.                                                    *)
(***************************************************************************)

LP == INSTANCE LedgerProofs WITH
        current <- History(mem),
        durable <- History(disk),
        held    <- {History(job[w].copy) : w \in Worker}

-----------------------------------------------------------------------------
(***************************************************************************)
(* Histories.                                                              *)
(***************************************************************************)

\* A journal without nodes has the empty history.
LEMMA EmptyHistory == History(EmptyGraph) = <<>>
  BY DEF History, EmptyGraph

\* A transaction of the history of a copy is a node of it.
LEMMA HistoryDrawn ==
  ASSUME Inv, NEW g \in Copies, NEW i \in DOMAIN History(g)
  PROVE  fate[History(g)[i]] # "unused"
<1>1. i \in DOMAIN g.events /\ History(g)[i] = g.events[i].tx
  BY DEF History
<1>2. g.events[i].tx \in Ids(g.nodes)
  BY <1>1 DEF Inv, CopiesWellFormed, WellFormed, EventsCausal
<1> QED
  BY <1>1, <1>2 DEF Inv, CopiesDrawn

\* A new node is the last transaction of the history.
LEMMA AddNodeHistory ==
  ASSUME NEW g \in Graph, NEW body \in Body, NEW ps, NEW k
  PROVE  History(AddNode(g, body, ps, k)) = Append(History(g), body.id)
<1> DEFINE n == AddNode(g, body, ps, k)
           e == [seq |-> Len(g.events) + 1, tx |-> body.id,
                 parents |-> ParentsFor(g.nodes, ps)]
<1>1. n.events = Append(g.events, e)
  BY DEF AddNode, LogGossip
<1>2. g.events \in Seq(GossipEvent)
  BY DEF Graph
<1>3. e.tx = body.id
  OBVIOUS
<1> HIDE DEF n, e
<1>4. /\ DOMAIN g.events = 1 .. Len(g.events) /\ Len(g.events) \in Nat
      /\ DOMAIN n.events = 1 .. Len(g.events) + 1
      /\ \A i \in 1 .. Len(g.events) : n.events[i] = g.events[i]
      /\ n.events[Len(g.events) + 1] = e
  <2>1. g.events \in Seq(GossipEvent \cup {e}) /\ e \in GossipEvent \cup {e}
    BY <1>2
  <2> QED
    BY <1>1, <2>1
<1>5. History(g) \in Seq({g.events[i].tx : i \in DOMAIN g.events})
        /\ Len(History(g)) = Len(g.events)
  BY <1>4 DEF History
<1>6. History(n) = Append(History(g), body.id)
  BY <1>3, <1>4, <1>5 DEF History
<1> QED
  BY <1>6 DEF n

\* Overwriting a node leaves the history alone.
LEMMA PutNodeHistory ==
  ASSUME NEW g, NEW t, NEW node
  PROVE  History(PutNode(g, t, node)) = History(g)
  BY DEF History, PutNode

-----------------------------------------------------------------------------
(***************************************************************************)
(* Steps of the ledger.                                                    *)
(***************************************************************************)

\* No request gets hold of a copy it did not have.
CopiesKept ==
  \A w \in Worker : job'[w].copy \in {job[w].copy, EmptyGraph}

\* What requests hold after the step they held before.
LEMMA KeptIsRelease ==
  ASSUME CopiesKept
  PROVE  L!Release
  BY EmptyHistory DEF CopiesKept, L!Release, L!Empty

\* A step that leaves the histories of memory and file alone.
LEMMA TakeStep ==
  ASSUME Inv, \A w \in Worker : job'[w].copy \in Copies \cup {EmptyGraph},
         History(mem') = History(mem), disk' = disk
  PROVE  L!Take
<1>1. \A g \in Copies \cup {EmptyGraph} :
        History(g) \in L!Versions \cup {L!Empty}
  BY EmptyHistory DEF Copies, L!Versions, L!Empty
<1> QED
  BY <1>1 DEF L!Take

\* Adding a transaction is Add: no version, however old, holds its id.
LEMMA AppendIsAdd ==
  ASSUME Inv, NEW w \in Worker, AppendAccepts(w)
  PROVE  L!Add
<1>1. PICK t \in IF job[w].draft.id = NoTx THEN FreshIds
                                           ELSE {job[w].draft.id} :
        /\ mem' = AddNode(mem, Complete(job[w].draft, t), job[w].parents, keys)
        /\ job' = [job EXCEPT ![w] = Persisting(job[w].op, t)]
  BY DEF AppendAccepts, AppendNode
<1> DEFINE body == Complete(job[w].draft, t)
<1>2. t \in Tx /\ body \in Body /\ body.id = t /\ fate[t] = "unused"
  BY AppendBody DEF AppendAccepts
<1> HIDE DEF body
<1>3. History(mem') = Append(History(mem), t)
  BY <1>1, <1>2, AddNodeHistory DEF Inv, TypeOK, body
<1>4. \A v \in L!Versions : ~ L!InVersion(t, v)
  <2>1. \A g \in Copies : ~ L!InVersion(t, History(g))
    BY <1>2, HistoryDrawn DEF L!InVersion
  <2> QED
    BY <2>1 DEF L!Versions, Copies
<1>5. L!Release
  <2>1. Persisting(job[w].op, t).copy = EmptyGraph
    BY DEF Persisting, Locals
  <2>2. CopiesKept
    BY <1>1, <2>1 DEF CopiesKept, Inv, TypeOK
  <2> QED
    BY <2>2, KeptIsRelease
<1>6. disk' = disk
  BY DEF AppendAccepts
<1> QED
  BY <1>2, <1>3, <1>4, <1>5, <1>6 DEF L!Add

\* A request that ends gives up its copy.
LEMMA FinishKeepsCopies ==
  ASSUME Inv, NEW w \in Worker, Finish(w)
  PROVE  CopiesKept
  BY IdleShape DEF Finish, CopiesKept, Inv, TypeOK

\* The step of a request with a copy only in its hands is Take.
LEMMA ServeIsTake ==
  ASSUME Inv, NEW w \in Worker,
         \/ CheckPasses(w) \/ CheckRefuses(w) \/ AppendRefuses(w)
         \/ TakeSnapshot(w) \/ WriteFails(w) \/ Report(w) \/ Inspect(w)
         \/ Restore(w) \/ SwapKeys(w)
  PROVE  L!Take
<1>1. disk' = disk /\ History(mem') = History(mem)
  <2>1. CASE Restore(w)
    BY <2>1, PutNodeHistory DEF Restore, RolledBack
  <2> QED
    BY <2>1 DEF CheckPasses, CheckRefuses, AppendRefuses, TakeSnapshot,
       WriteFails, Report, Inspect, SwapKeys
<1>2. \A v \in Worker : job'[v].copy \in {job[v].copy, mem, EmptyGraph}
  <2>1. CASE CheckPasses(w) \/ Inspect(w) \/ SwapKeys(w) \/ TakeSnapshot(w)
    BY <2>1, Known DEF CheckPasses, Inspect, SwapKeys, TakeSnapshot, Goto, Job,
       Inv, TypeOK
  <2>2. CASE CheckRefuses(w) \/ AppendRefuses(w) \/ WriteFails(w) \/ Report(w)
    <3>1. CopiesKept
      BY <2>2, FinishKeepsCopies DEF CheckRefuses, AppendRefuses, WriteFails,
         Report
    <3> QED
      BY <3>1 DEF CopiesKept
  <2>3. CASE Restore(w)
    <3>1. Persisting(job[w].op, NoTx).copy = EmptyGraph
      BY DEF Persisting, Locals
    <3> QED
      BY <2>3, <3>1 DEF Restore, Inv, TypeOK
  <2> QED
    BY <2>1, <2>2, <2>3
<1> QED
  BY <1>1, <1>2, Known, TakeStep

\* The end of a write is Save.
LEMMA WriteIsSave ==
  ASSUME Inv, NEW w \in Worker, Write(w)
  PROVE  L!Save
<1>1. CopiesKept
  BY FinishKeepsCopies DEF Write
<1> QED
  BY <1>1, KeptIsRelease DEF Write, L!Save

\* What a validation read from the file becomes the journal in memory.
LEMMA ReplaceIsReload ==
  ASSUME Inv, NEW w \in Worker, Replace(w)
  PROVE  L!Reload
<1>1. Reading("report", "validate", EmptyGraph).copy = EmptyGraph
  BY DEF Reading, Locals
<1>2. CopiesKept
  BY <1>1, IdleShape DEF Replace, CopiesKept, Inv, TypeOK
<1> QED
  BY <1>2, KeptIsRelease DEF Replace, L!Reload

\* A reset leaves the empty version in memory.
LEMMA ClearIsClear ==
  ASSUME Inv, NEW w \in Worker, Clear(w)
  PROVE  L!Clear
<1>1. Persisting("reset", NoTx).copy = EmptyGraph
  BY DEF Persisting, Locals
<1>2. CopiesKept
  BY <1>1 DEF Clear, CopiesKept, Inv, TypeOK
<1> QED
  BY <1>2, KeptIsRelease, EmptyHistory DEF Clear, L!Clear, L!Empty

\* A request that starts has the copy its locals name.
LEMMA StartCopies ==
  ASSUME Inv, NEW w \in Worker, NEW o, NEW j, Start(w, o, j),
         j.copy \in {disk, EmptyGraph}
  PROVE  \A v \in Worker : job'[v].copy \in Copies \cup {EmptyGraph}
  BY Known DEF Start, Inv, TypeOK

\* The start of a request takes at most the file, and adds nothing.
LEMMA AcceptIsTake ==
  ASSUME Inv, NEW w \in Worker, Accept(w)
  PROVE  L!Take
<1>1. disk' = disk /\ History(mem') = History(mem)
  <2>1. CASE Forge(w) \/ Substitute(w)
    BY <2>1, PutNodeHistory DEF Forge, Substitute, Attack
  <2> QED
    BY <2>1 DEF Accept, StartIssue, StartRevoke, StartDemo, StartReload,
       Regenerate
<1>2. \A v \in Worker : job'[v].copy \in Copies \cup {EmptyGraph}
  <2>1. CASE StartIssue(w) \/ StartRevoke(w) \/ StartDemo(w)
    <3>1. \A pc, op, draft, ps : Drafting(pc, op, draft, ps).copy = EmptyGraph
      BY DEF Drafting, Locals
    <3>2. PICK o, pc, op, draft, ps : Start(w, o, Drafting(pc, op, draft, ps))
      BY <2>1 DEF StartIssue, StartRevoke, StartDemo
    <3> QED
      BY <3>1, <3>2, StartCopies
  <2>2. CASE StartReload(w)
    <3>1. \A pc, op : Reading(pc, op, disk).copy = disk
      BY DEF Reading, Locals
    <3> QED
      BY <2>2, <3>1, StartCopies DEF StartReload
  <2>3. CASE Forge(w) \/ Substitute(w)
    <3>1. \A op, t, node : Tampering(op, t, node).copy = EmptyGraph
      BY DEF Tampering, Locals
    <3>2. PICK o, op, t, node : Start(w, o, Tampering(op, t, node))
      BY <2>3 DEF Forge, Substitute, Attack
    <3> QED
      BY <3>1, <3>2, StartCopies
  <2>4. CASE Regenerate(w)
    <3>1. \A k : Rekeying("swap", k).copy = EmptyGraph
      BY DEF Rekeying, Locals
    <3> QED
      BY <2>4, <3>1, StartCopies DEF Regenerate
  <2> QED
    BY <2>1, <2>2, <2>3, <2>4 DEF Accept
<1> QED
  BY <1>1, <1>2, TakeStep

\* The start after a crash finds the file, or the empty version.
LEMMA RestartIsCrash ==
  ASSUME Inv, Restart
  PROVE  L!Crash
<1>1. \A w \in Worker : job'[w].copy = EmptyGraph
  BY IdleShape DEF Restart
<1>2. mem' \in {disk, EmptyGraph} /\ disk' = disk
  BY DEF Restart
<1> QED
  BY <1>1, <1>2, EmptyHistory DEF L!Crash, L!Empty

-----------------------------------------------------------------------------
(***************************************************************************)
(* The refinement.                                                         *)
(***************************************************************************)

\* The store starts as a ledger does.
LEMMA InitIsInit == Init => L!Init
  BY IdleShape, EmptyHistory DEF Init, L!Init, L!Empty

\* Every step of the store is a step of the ledger or none.
LEMMA NextIsNext ==
  ASSUME Inv, [Next]_vars
  PROVE  [L!Next]_(L!vars)
<1>1. ASSUME NEW w \in Worker, Serve(w)
      PROVE  L!Next
  <2>1. CASE AppendAccepts(w)
    BY <2>1, AppendIsAdd DEF L!Next
  <2>2. CASE Write(w)
    BY <2>2, WriteIsSave DEF L!Next
  <2>3. CASE Replace(w)
    BY <2>3, ReplaceIsReload DEF L!Next
  <2>4. CASE Clear(w)
    BY <2>4, ClearIsClear DEF L!Next
  <2> QED
    BY <1>1, <2>1, <2>2, <2>3, <2>4, ServeIsTake DEF Serve, L!Next
<1>2. ASSUME NEW w \in Worker, Accept(w)
      PROVE  L!Next
  BY <1>2, AcceptIsTake DEF L!Next
<1>3. CASE Tick
  BY <1>3 DEF Tick, L!vars
<1>4. CASE Restart
  BY <1>4, RestartIsCrash DEF L!Next
<1>5. CASE UNCHANGED vars
  BY <1>5 DEF vars, L!vars
<1> QED
  BY <1>1, <1>2, <1>3, <1>4, <1>5 DEF Next

\* The store implements the ledger: every step of every request adds one new
\* transaction at the end of the journal in memory, or lets one version of the
\* journal take the place of another (store.go 186-240, persistence.go
\* 146-205).
THEOREM StoreImplementsLedger == Spec => ImplementsLedger
<1>1. Init => L!Init
  BY InitIsInit
<1>2. Inv /\ [Next]_vars => [L!Next]_(L!vars)
  BY NextIsNext
<1> QED
  BY <1>1, <1>2, InvHolds, PTL DEF Spec, ImplementsLedger, L!Spec

\* Copies of the journal that hold the same transaction agree on the whole
\* history before it: the store inherits it from the ledger (store.go 225-240,
\* persistence.go 146-205).
THEOREM OneHistoryHolds == Spec => []OneHistory
<1>1. L!Init => LP!Init
  BY DEF L!Init, LP!Init, L!Empty, LP!Empty
<1>2. [L!Next]_(L!vars) => [LP!Next]_(LP!vars)
  BY DEF L!Next, LP!Next, L!vars, LP!vars, L!Add, LP!Add, L!Take, LP!Take,
     L!Save, LP!Save, L!Reload, LP!Reload, L!Clear, LP!Clear, L!Crash,
     LP!Crash, L!Release, LP!Release, L!Versions, LP!Versions, L!Empty,
     LP!Empty, L!InVersion, LP!InVersion
<1>3. LP!OneHistory => OneHistory
  BY DEF LP!OneHistory, OneHistory, L!OneHistory, L!Versions, LP!Versions,
     L!SameUpTo, LP!SameUpTo
<1>4. LP!Spec => [](LP!TypeOK /\ LP!OneHistory)
  BY LP!OneHistoryAlways
<1> QED
  BY <1>1, <1>2, <1>3, <1>4, StoreImplementsLedger, PTL
     DEF ImplementsLedger, L!Spec, LP!Spec

=============================================================================
