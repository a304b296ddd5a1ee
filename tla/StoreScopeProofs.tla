-------------------------- MODULE StoreScopeProofs --------------------------
(***************************************************************************)
(* What the store keeps within a scope: a restriction on the requests that *)
(* are made of it, or on what may go wrong, that is a condition on the     *)
(* constants.  Outside it the property fails, as a run shows, or is not    *)
(* promised; within it the property holds for every number of workers and  *)
(* of requests.                                                            *)
(*                                                                         *)
(* Who may be doing what (Roles) and that a transaction never changes its  *)
(* kind (KindsKept) hold always and are shared.  Each scope then has an    *)
(* invariant of its own:                                                   *)
(*                                                                         *)
(*   RevokeInv    every revoke follows an issue of the same country;       *)
(*   OrderedInv   the lookup finds what the order of the ids says;         *)
(*   IssuedInv    a country is issued to once between revokes;             *)
(*   AttackInv    where the one forged node may be while an attack lasts;  *)
(*   ResetInv     what a lone request may still write after a reset;       *)
(*   QuietInv     file and memory, for every step of a lone request.       *)
(***************************************************************************)
EXTENDS StoreProofs

-----------------------------------------------------------------------------
(***************************************************************************)
(* What a step does to the copies of the journal.                          *)
(***************************************************************************)

\* Worker w goes on with the locals j, and no copy of the journal is new but
\* the one in memory.
Moves(w, j) ==
  /\ job' = [job EXCEPT ![w] = j]
  /\ disk' \in Copies
  /\ j.copy \in Copies \cup {EmptyGraph}
  /\ clock' = clock
  /\ HasBackup(j) =>
       \/ HasBackup(job[w]) /\ j.tx = job[w].tx /\ j.backup = job[w].backup
       \/ j.tx \in Ids(mem.nodes) /\ j.backup = mem.nodes[j.tx]
  /\ j.pc = "append" /\ j.op # "issue" =>
       CheckPasses(w) /\ j.draft = job[w].draft

\* The journal in memory is the old one, or the step is one that changes it.
MemoryMoves(w) ==
  \/ mem' = mem
  \/ Replace(w) \/ Clear(w)
  \/ AppendAccepts(w)
  \/ Forge(w) \/ Substitute(w) \/ Restore(w)

\* The end of a request.
LEMMA FinishMoves ==
  ASSUME Inv, NEW w \in Worker, Finish(w), disk' \in Copies, clock' = clock
  PROVE  \E j : Moves(w, j)
<1>1. Moves(w, Idle)
  BY IdleShape DEF Moves, Finish, HasBackup
<1> QED
  BY <1>1

\* A step that only moves the program counter.
LEMMA GotoMoves ==
  ASSUME Inv, NEW w \in Worker, NEW pc \in PC, Goto(w, pc),
         pc = "restore" => HasBackup(job[w]), pc # "inspect",
         pc = "append" => CheckPasses(w),
         disk' \in Copies, clock' = clock
  PROVE  \E j : Moves(w, j)
<1> DEFINE j == [job[w] EXCEPT !.pc = pc]
<1>1. /\ j \in Job
      /\ job' = [job EXCEPT ![w] = j]
      /\ j.pc = pc /\ j.copy = job[w].copy /\ j.draft = job[w].draft
      /\ j.tx = job[w].tx /\ j.backup = job[w].backup
  BY GotoLocals
<1> HIDE DEF j
<1>2. Moves(w, j)
  BY <1>1, Known DEF Moves, HasBackup
<1> QED
  BY <1>2

\* The steps of a request.
LEMMA ServeMoves ==
  ASSUME Inv, NEW w \in Worker, Serve(w)
  PROVE  (\E j : Moves(w, j)) /\ MemoryMoves(w)
<1> USE Known
<1>1. CASE CheckPasses(w)
  BY <1>1, GotoMoves DEF CheckPasses, MemoryMoves, PC
<1>2. CASE CheckRefuses(w)
  BY <1>2, FinishMoves DEF CheckRefuses, MemoryMoves
<1>3. CASE AppendAccepts(w)
  <2>1. PICK t : job' = [job EXCEPT ![w] = Persisting(job[w].op, t)]
    BY <1>3 DEF AppendAccepts, AppendNode
  <2>2. Moves(w, Persisting(job[w].op, t))
    BY <1>3, <2>1 DEF AppendAccepts, Moves, Persisting, Locals, HasBackup
  <2> QED
    BY <2>2, <1>3 DEF MemoryMoves
<1>4. CASE AppendRefuses(w)
  BY <1>4, FinishMoves DEF AppendRefuses, MemoryMoves
<1>5. CASE TakeSnapshot(w)
  <2> DEFINE j == [job[w] EXCEPT !.pc = "write", !.copy = mem]
  <2>1. job[w] \in Job
    OBVIOUS
  <2>2. j.pc = "write" /\ j.copy = mem
    BY <2>1 DEF Job
  <2>3. job' = [job EXCEPT ![w] = j]
    BY <1>5, <2>1 DEF TakeSnapshot, Job
  <2> HIDE DEF j
  <2>4. Moves(w, j) /\ mem' = mem
    BY <1>5, <2>2, <2>3 DEF TakeSnapshot, Moves, HasBackup
  <2> QED
    BY <2>4 DEF MemoryMoves
<1>6. CASE Write(w)
  BY <1>6, FinishMoves DEF Write, MemoryMoves
<1>7. CASE WriteFails(w)
  BY <1>7, FinishMoves DEF WriteFails, MemoryMoves
<1>8. CASE Replace(w)
  <2>1. PICK j \in {Idle, Reading("report", "validate", EmptyGraph)} :
          job' = [job EXCEPT ![w] = j]
    BY <1>8 DEF Replace
  <2>2. j.copy = EmptyGraph /\ ~ HasBackup(j) /\ j.pc # "append"
    BY IdleShape DEF Reading, Locals, HasBackup
  <2>3. Moves(w, j)
    BY <1>8, <2>1, <2>2 DEF Moves, Replace
  <2> QED
    BY <2>3, <1>8 DEF Replace, MemoryMoves
<1>9. CASE Report(w)
  BY <1>9, FinishMoves DEF Report, MemoryMoves
<1>10. CASE Inspect(w)
  BY <1>10, GotoMoves DEF Inspect, MemoryMoves, PC, HasBackup
<1>11. CASE Restore(w)
  <2>1. Moves(w, Persisting(job[w].op, NoTx))
    BY <1>11 DEF Restore, Moves, Persisting, Locals, HasBackup
  <2> QED
    BY <2>1, <1>11 DEF MemoryMoves
<1>12. CASE SwapKeys(w)
  BY <1>12, GotoMoves DEF SwapKeys, MemoryMoves, PC
<1>13. CASE Clear(w)
  <2>1. Moves(w, Persisting("reset", NoTx))
    BY <1>13 DEF Clear, Moves, Persisting, Locals, HasBackup
  <2> QED
    BY <2>1, <1>13 DEF Clear, MemoryMoves
<1> QED
  BY <1>1, <1>2, <1>3, <1>4, <1>5, <1>6, <1>7, <1>8, <1>9, <1>10, <1>11,
     <1>12, <1>13 DEF Serve

\* The start of a request, other than an attack.
LEMMA StartMoves ==
  ASSUME Inv, NEW w \in Worker, NEW o, NEW j, Start(w, o, j),
         ~ HasBackup(j), j.copy \in Copies \cup {EmptyGraph},
         j.pc = "append" => j.op = "issue",
         UNCHANGED <<mem, disk, clock>>
  PROVE  (\E i : Moves(w, i)) /\ MemoryMoves(w)
<1>1. Moves(w, j)
  BY Known DEF Moves, Start
<1> QED
  BY <1>1, Known DEF MemoryMoves

\* A new request.
LEMMA AcceptMoves ==
  ASSUME Inv, NEW w \in Worker, Accept(w)
  PROVE  (\E j : Moves(w, j)) /\ MemoryMoves(w)
<1>1. ASSUME NEW pc \in {"check", "append"}, NEW o, NEW draft, NEW ps,
             Start(w, o, Drafting(pc, o, draft, ps)),
             pc = "append" => o = "issue",
             UNCHANGED <<mem, disk, clock>>
      PROVE  (\E j : Moves(w, j)) /\ MemoryMoves(w)
  BY <1>1, StartMoves DEF Drafting, Locals, HasBackup
<1>2. CASE StartIssue(w)
  BY <1>1, <1>2 DEF StartIssue
<1>3. CASE StartRevoke(w)
  BY <1>1, <1>3 DEF StartRevoke
<1>4. CASE StartDemo(w)
  BY <1>1, <1>4 DEF StartDemo
<1>5. CASE StartReload(w)
  <2>1. PICK o : /\ Start(w, o, Reading("replace", o, disk))
                 /\ UNCHANGED <<mem, disk, keys, keyFile, clock, fate>>
    BY <1>5 DEF StartReload
  <2> QED
    BY <2>1, StartMoves, Known DEF Reading, Locals, HasBackup
<1>6. ASSUME NEW o, NEW t \in Ids(mem.nodes), NEW node, Attack(w, o, t, node)
      PROVE  \E j : Moves(w, j)
  <2>1. Moves(w, Tampering(o, t, mem.nodes[t]))
    BY <1>6, Known DEF Attack, Start, Moves, Tampering, Locals, HasBackup
  <2> QED
    BY <2>1
<1>7. CASE Forge(w)
  BY <1>6, <1>7 DEF Forge, MemoryMoves
<1>8. CASE Substitute(w)
  BY <1>6, <1>8 DEF Substitute, MemoryMoves
<1>9. CASE Regenerate(w)
  BY <1>9, StartMoves DEF Regenerate, Rekeying, Locals, HasBackup
<1> QED
  BY <1>2, <1>3, <1>4, <1>5, <1>7, <1>8, <1>9 DEF Accept

\* Every copy of the journal was one before the step or is now in memory.
CopiesFollow ==
  /\ Copies' \subseteq Copies \cup {mem', EmptyGraph}
  /\ clock <= clock'
  /\ \/ mem' \in Copies \cup {EmptyGraph}
     \/ \E w \in Worker : AppendAccepts(w) \/ Forge(w) \/ Substitute(w)
                            \/ Restore(w)

\* Which steps change the journal in memory.
MemoryFollows ==
  \/ mem' = mem
  \/ Restart
  \/ \E w \in Worker :
       \/ Replace(w) \/ Clear(w)
       \/ AppendAccepts(w)
       \/ Forge(w) \/ Substitute(w) \/ Restore(w)

\* Every backup was one before the step or is cut from the memory in it.
BackupsFollow ==
  \A w \in Worker : HasBackup(job'[w]) =>
    \/ /\ HasBackup(job[w])
       /\ job'[w].tx = job[w].tx /\ job'[w].backup = job[w].backup
    \/ /\ job'[w].tx \in Ids(mem.nodes)
       /\ job'[w].backup = mem.nodes[job'[w].tx]

\* A revoke that is about to be appended was before the step, or has just been
\* checked.
DraftsFollow ==
  \A w \in Worker : job'[w].pc = "append" /\ job'[w].op # "issue" =>
    /\ job'[w].draft = job[w].draft
    /\ CheckPasses(w) \/ job'[w] = job[w]

\* Where the copies, the memory, the backups and the drafts come from.
LEMMA StepMoves ==
  ASSUME Inv, [Next]_vars
  PROVE  CopiesFollow /\ MemoryFollows /\ BackupsFollow /\ DraftsFollow
<1>1. mem \in Copies /\ disk \in Copies /\ clock \in Nat
        /\ \A w \in Worker : job[w].copy \in Copies
        /\ job \in [Worker -> Job]
  BY Known DEF Inv, TypeOK
<1>2. ASSUME NEW w \in Worker, Serve(w) \/ Accept(w)
      PROVE  CopiesFollow /\ MemoryFollows /\ BackupsFollow /\ DraftsFollow
  <2>1. PICK j : Moves(w, j)
    BY <1>2, ServeMoves, AcceptMoves
  <2>2. MemoryMoves(w)
    BY <1>2, ServeMoves, AcceptMoves
  <2>3. /\ job'[w] = j
        /\ \A v \in Worker \ {w} : job'[v] = job[v]
    BY <2>1, <1>1 DEF Moves
  <2>4. \A v \in Worker : job'[v].copy \in Copies \cup {EmptyGraph}
    BY <2>1, <2>3, <1>1 DEF Moves
  <2>5. Copies' \subseteq Copies \cup {mem', EmptyGraph}
    BY <2>1, <2>4 DEF Copies, Moves
  <2>6. clock <= clock'
    BY <2>1, <1>1 DEF Moves
  <2>7. \/ mem' \in Copies \cup {EmptyGraph}
        \/ \E v \in Worker : AppendAccepts(v) \/ Forge(v) \/ Substitute(v)
                               \/ Restore(v)
    BY <2>2, <1>1 DEF MemoryMoves, Replace, Clear
  <2>8. \A v \in Worker : HasBackup(job'[v]) =>
           \/ /\ HasBackup(job[v])
              /\ job'[v].tx = job[v].tx /\ job'[v].backup = job[v].backup
           \/ /\ job'[v].tx \in Ids(mem.nodes)
              /\ job'[v].backup = mem.nodes[job'[v].tx]
    BY <2>1, <2>3 DEF Moves
  <2> QED
    <3>1. MemoryFollows
      BY <2>2 DEF MemoryMoves, MemoryFollows
    <3>2. DraftsFollow
      BY <2>1, <2>3 DEF Moves, DraftsFollow
    <3> QED
      BY <3>1, <3>2, <2>5, <2>6, <2>7, <2>8 DEF CopiesFollow, BackupsFollow
<1>3. CASE Tick
  <2>1. clock <= clock'
    BY <1>1, <1>3 DEF Tick
  <2>2. Copies' = Copies /\ mem' = mem /\ job' = job
    BY <1>3 DEF Tick, Copies
  <2> QED
    BY <2>1, <2>2, <1>1
       DEF CopiesFollow, MemoryFollows, BackupsFollow, DraftsFollow
<1>4. CASE Restart
  <2>1. /\ mem' \in {disk, EmptyGraph} /\ disk' = disk /\ clock' = clock
        /\ \A w \in Worker : job'[w] = Idle
    BY <1>4 DEF Restart
  <2>2. Copies' \subseteq Copies \cup {mem', EmptyGraph}
    BY <2>1, <1>1, IdleShape DEF Copies
  <2>3. \A w \in Worker : ~ HasBackup(job'[w]) /\ job'[w].pc # "append"
    BY <2>1, IdleShape DEF HasBackup
  <2> QED
    BY <2>1, <2>2, <2>3, <1>1, <1>4
       DEF CopiesFollow, MemoryFollows, BackupsFollow, DraftsFollow
<1>5. CASE UNCHANGED vars
  <2>1. Copies' = Copies /\ mem' = mem /\ job' = job /\ clock' = clock
    BY <1>5 DEF vars, Copies
  <2> QED
    BY <2>1, <1>1
       DEF CopiesFollow, MemoryFollows, BackupsFollow, DraftsFollow
<1> QED
  BY <1>2, <1>3, <1>4, <1>5 DEF Next

-----------------------------------------------------------------------------
(***************************************************************************)
(* What a request does: it is one the worker is offered, and at each step  *)
(* one of the few that get there.                                          *)
(***************************************************************************)

OpsAt(pc) ==
  CASE pc = "idle"                   -> {None}
    [] pc = "check"                  -> {"revoke", "demo"}
    [] pc = "append"                 -> {"issue", "revoke", "demo"}
    [] pc \in {"inspect", "restore"} -> {"forge", "substitute"}
    [] pc = "replace"                -> {"validate", "verify"}
    [] pc = "report"                 -> {"validate"}
    [] pc \in {"swap", "clear"}      -> {"reset"}
    [] pc \in {"snapshot", "write"}  -> Op \ {"validate", "verify"}

\* Only an issue appends an issue, and only the demonstration reads the clock
\* before it appends.
RightDraft(j) ==
  /\ j.draft.action = IF j.op = "issue" THEN "issue" ELSE "revoke"
  /\ j.op = "demo" \/ (j.draft.ts = 0 /\ j.draft.id = NoTx)

RoleOf(w, j) ==
  /\ j.op \in OpsAt(j.pc)
  /\ j.pc # "idle" => j.op \in Offered[w]
  /\ j.draft # None => RightDraft(j)

Roles ==
  /\ \A w \in Worker : RoleOf(w, job[w])
  /\ \A w \in Worker : job[w].draft # None => job[w].draft.ts <= clock

\* A worker without a request has no role.
LEMMA IdleRole == \A w \in Worker : RoleOf(w, Idle)
  BY IdleShape DEF RoleOf, OpsAt, Idle, Locals

\* A step of one worker keeps the roles.
LEMMA RolesMove ==
  ASSUME Inv, Roles, NEW w \in Worker, NEW j, RoleOf(w, j),
         job' = [job EXCEPT ![w] = j], clock' = clock,
         j.draft # None => j.draft.ts <= clock
  PROVE  Roles'
<1>1. job'[w] = j /\ \A v \in Worker \ {w} : job'[v] = job[v]
  BY DEF Inv, TypeOK
<1> QED
  BY <1>1 DEF Roles

\* The end of a request.
LEMMA RolesFinish ==
  ASSUME Inv, Roles, NEW w \in Worker, Finish(w), clock' = clock
  PROVE  Roles'
  BY RolesMove, IdleRole, IdleShape DEF Finish

\* A step that moves the program counter within one kind of request.
LEMMA RolesGoto ==
  ASSUME Inv, Roles, NEW w \in Worker, NEW pc \in PC, Goto(w, pc),
         clock' = clock, job[w].op \in OpsAt(pc), job[w].pc # "idle"
  PROVE  Roles'
<1> DEFINE j == [job[w] EXCEPT !.pc = pc]
<1>1. job[w] \in Job
  BY Known
<1>2. j.pc = pc /\ j.op = job[w].op /\ j.draft = job[w].draft
        /\ job' = [job EXCEPT ![w] = j]
  BY <1>1 DEF Job, Goto
<1> HIDE DEF j
<1>3. RoleOf(w, j) /\ (j.draft # None => j.draft.ts <= clock)
  BY <1>2 DEF RoleOf, RightDraft, Roles
<1> QED
  BY <1>2, <1>3, RolesMove

\* The steps of a request.
LEMMA RolesServe ==
  ASSUME Inv, Roles, NEW w \in Worker, Serve(w)
  PROVE  Roles'
<1>1. RoleOf(w, job[w]) /\ job[w] \in Job
  BY Known DEF Roles
<1>2. CASE CheckPasses(w)
  BY <1>1, <1>2, RolesGoto DEF CheckPasses, OpsAt, RoleOf, PC
<1>3. CASE CheckRefuses(w) \/ AppendRefuses(w) \/ Write(w) \/ WriteFails(w)
             \/ Report(w)
  BY <1>3, RolesFinish
     DEF CheckRefuses, AppendRefuses, Write, WriteFails, Report
<1>4. ASSUME NEW t, job' = [job EXCEPT ![w] = Persisting(job[w].op, t)],
             job[w].op \in Op \ {"validate", "verify"}, job[w].pc # "idle",
             clock' = clock
      PROVE  Roles'
  <2> DEFINE j == Persisting(job[w].op, t)
  <2>1. j.pc = "snapshot" /\ j.op = job[w].op /\ j.draft = None
    BY DEF Persisting, Locals
  <2> HIDE DEF j
  <2>2. RoleOf(w, j)
    BY <1>1, <1>4, <2>1 DEF RoleOf, OpsAt
  <2> QED
    BY <1>4, <2>1, <2>2, RolesMove DEF j
<1>5. CASE AppendAccepts(w)
  <2>1. PICK t : job' = [job EXCEPT ![w] = Persisting(job[w].op, t)]
    BY <1>5 DEF AppendAccepts, AppendNode
  <2>2. job[w].op \in Op \ {"validate", "verify"} /\ job[w].pc # "idle"
          /\ clock' = clock
    BY <1>1, <1>5 DEF AppendAccepts, RoleOf, OpsAt, Op
  <2> QED
    BY <1>4, <2>1, <2>2
<1>6. CASE TakeSnapshot(w)
  <2> DEFINE j == [job[w] EXCEPT !.pc = "write", !.copy = mem]
  <2>1. j.pc = "write" /\ j.op = job[w].op /\ j.draft = job[w].draft
          /\ job' = [job EXCEPT ![w] = j]
    BY <1>1, <1>6 DEF TakeSnapshot, Job
  <2> HIDE DEF j
  <2>2. RoleOf(w, j) /\ (j.draft # None => j.draft.ts <= clock)
    BY <1>1, <1>6, <2>1 DEF TakeSnapshot, RoleOf, OpsAt, RightDraft, Roles
  <2> QED
    BY <1>6, <2>1, <2>2, RolesMove DEF TakeSnapshot
<1>7. CASE Replace(w)
  <2>1. CASE job[w].op = "verify"
    BY <1>7, <2>1, RolesFinish DEF Replace, Finish
  <2>2. CASE job[w].op # "verify"
    <3> DEFINE j == Reading("report", "validate", EmptyGraph)
    <3>1. job' = [job EXCEPT ![w] = j] /\ clock' = clock
      BY <1>7, <2>2 DEF Replace
    <3>2. j.pc = "report" /\ j.op = "validate" /\ j.draft = None
      BY DEF Reading, Locals
    <3>3. job[w].op = "validate"
      BY <1>1, <1>7, <2>2 DEF Replace, RoleOf, OpsAt
    <3> HIDE DEF j
    <3>4. RoleOf(w, j)
      BY <1>1, <1>7, <3>2, <3>3 DEF RoleOf, OpsAt, Replace
    <3> QED
      BY <3>1, <3>2, <3>4, RolesMove
  <2> QED
    BY <2>1, <2>2
<1>8. CASE Inspect(w)
  BY <1>1, <1>8, RolesGoto DEF Inspect, OpsAt, RoleOf, PC
<1>9. CASE Restore(w)
  <2>1. job[w].op \in Op \ {"validate", "verify"} /\ job[w].pc # "idle"
          /\ clock' = clock
    BY <1>1, <1>9 DEF Restore, RoleOf, OpsAt, Op
  <2> QED
    BY <1>4, <1>9, <2>1 DEF Restore
<1>10. CASE SwapKeys(w)
  BY <1>1, <1>10, RolesGoto DEF SwapKeys, OpsAt, RoleOf, PC
<1>11. CASE Clear(w)
  <2>1. job[w].op = "reset" /\ job[w].pc # "idle" /\ clock' = clock
    BY <1>1, <1>11 DEF Clear, RoleOf, OpsAt
  <2> QED
    BY <1>4, <1>11, <2>1 DEF Clear, Op
<1> QED
  BY <1>2, <1>3, <1>5, <1>6, <1>7, <1>8, <1>9, <1>10, <1>11 DEF Serve

\* A new request.
LEMMA RolesAccept ==
  ASSUME Inv, Roles, NEW w \in Worker, Accept(w)
  PROVE  Roles'
<1>1. ASSUME NEW o, NEW j, Start(w, o, j), clock' = clock, j.op = o,
             o \in OpsAt(j.pc), j.draft = None
      PROVE  Roles'
  <2>1. RoleOf(w, j)
    BY <1>1 DEF RoleOf, Start
  <2> QED
    BY <1>1, <2>1, RolesMove DEF Start
<1>2. ASSUME NEW pc \in {"check", "append"}, NEW o \in OpsAt(pc), NEW draft, NEW ps,
             Start(w, o, Drafting(pc, o, draft, ps)), clock' = clock,
             draft.action = IF o = "issue" THEN "issue" ELSE "revoke",
             o = "demo" \/ (draft.ts = 0 /\ draft.id = NoTx),
             draft.ts <= clock
      PROVE  Roles'
  <2> DEFINE j == Drafting(pc, o, draft, ps)
  <2>1. j.pc = pc /\ j.op = o /\ j.draft = draft
    BY DEF Drafting, Locals
  <2>2. job' = [job EXCEPT ![w] = j] /\ o \in Offered[w]
    BY <1>2 DEF Start
  <2> HIDE DEF j
  <2>3. RoleOf(w, j)
    BY <1>2, <2>1, <2>2 DEF RoleOf, RightDraft
  <2> QED
    BY <1>2, <2>1, <2>2, <2>3, RolesMove
<1>3. clock \in Nat
  BY Known
<1>4. CASE StartIssue(w)
  <2>1. PICK d, h, c, ps :
          /\ Start(w, "issue",
                   Drafting("append", "issue",
                            NewDraft(NoTx, d, h, c, "issue", 0), ps))
          /\ clock' = clock
    BY <1>4 DEF StartIssue
  <2> QED
    BY <1>2, <1>3, <2>1 DEF NewDraft, OpsAt
<1>5. CASE StartRevoke(w)
  <2>1. PICK d, c, ps :
          /\ Start(w, "revoke",
                   Drafting("check", "revoke",
                            NewDraft(NoTx, d, NoHash, c, "revoke", 0), ps))
          /\ clock' = clock
    BY <1>5 DEF StartRevoke
  <2> QED
    BY <1>2, <1>3, <2>1 DEF NewDraft, OpsAt
<1>6. CASE StartDemo(w)
  <2>1. PICK d, c, ps, t :
          /\ Start(w, "demo",
                   Drafting("check", "demo",
                            NewDraft(t, d, NoHash, c, "revoke", clock), ps))
          /\ clock' = clock
    BY <1>6 DEF StartDemo
  <2> QED
    BY <1>2, <1>3, <2>1 DEF NewDraft, OpsAt
<1>7. CASE StartReload(w)
  <2>1. PICK o \in {"validate", "verify"} :
          Start(w, o, Reading("replace", o, disk)) /\ clock' = clock
    BY <1>7 DEF StartReload
  <2> QED
    BY <1>1, <2>1 DEF Reading, Locals, OpsAt
<1>8. ASSUME NEW o \in {"forge", "substitute"}, NEW t, NEW node,
             Attack(w, o, t, node)
      PROVE  Roles'
  BY <1>1, <1>8 DEF Attack, Tampering, Locals, OpsAt
<1>9. CASE Forge(w)
  BY <1>8, <1>9 DEF Forge
<1>10. CASE Substitute(w)
  BY <1>8, <1>10 DEF Substitute
<1>11. CASE Regenerate(w)
  BY <1>1, <1>11 DEF Regenerate, Rekeying, Locals, OpsAt
<1> QED
  BY <1>4, <1>5, <1>6, <1>7, <1>9, <1>10, <1>11 DEF Accept

\* Requests keep to their roles.
LEMMA RolesStep ==
  ASSUME Inv, Roles, [Next]_vars
  PROVE  Roles'
<1>1. CASE Tick
  <2>1. clock \in Nat /\ clock' = clock + 1 /\ job' = job
    BY <1>1, Known DEF Tick
  <2>2. \A w \in Worker : job[w].draft # None => job[w].draft.ts \in Nat
    BY Known DEF Job, Draft
  <2>3. \A w \in Worker : job'[w].draft # None => job'[w].draft.ts <= clock'
    BY <2>1, <2>2 DEF Roles
  <2> QED
    BY <2>1, <2>3 DEF Roles
<1>2. CASE Restart
  <2>1. \A w \in Worker : job'[w] = Idle
    BY <1>2 DEF Restart
  <2> QED
    BY <2>1, IdleRole, IdleShape DEF Roles
<1>3. CASE UNCHANGED vars
  BY <1>3 DEF vars, Roles
<1> QED
  BY <1>1, <1>2, <1>3, RolesServe, RolesAccept DEF Next

\* No request has a role at the start.
LEMMA RolesInit == Init => Roles
  BY IdleRole, IdleShape DEF Init, Roles

-----------------------------------------------------------------------------
(***************************************************************************)
(* What the attacks leave alone of a node: document, action and time stamp *)
(* are what was hashed, and no stamp is later than now.                    *)
(***************************************************************************)

KindOf(body) == <<body.id, body.doc, body.action, body.ts>>

KeepsKind(node, now) ==
  KindOf(node.tx) = KindOf(node.hash.body) /\ node.tx.ts <= now

KindsKept ==
  /\ \A g \in Copies : \A t \in Ids(g.nodes) : KeepsKind(g.nodes[t], clock)
  /\ \A w \in Worker : HasBackup(job[w]) => KeepsKind(job[w].backup, clock)

\* Every copy is a journal.
LEMMA CopiesAreGraphs ==
  ASSUME Inv
  PROVE  \A g \in Copies : g \in Graph
  BY CopiesFit DEF Fits

\* What putting a node in place does to a journal.
LEMMA PutIn ==
  ASSUME NEW g \in Graph, NEW t \in Ids(g.nodes), NEW node \in Node,
         NEW n, n = PutNode(g, t, node)
  PROVE  /\ n.nodes[t] = node
         /\ \A u \in Ids(g.nodes) \ {t} : n.nodes[u] = g.nodes[u]
         /\ Ids(n.nodes) = Ids(g.nodes)
         /\ n.events = g.events
<1>1. /\ n.nodes = [g.nodes EXCEPT ![t] = node] /\ n.events = g.events
      /\ t \in Tx
  BY DEF PutNode, Ids
<1>2. g.nodes \in NodeMap
  BY DEF Graph
<1>3. node # None
  BY NoneAssumption
<1> QED
  BY <1>1, <1>2, <1>3 DEF Ids, NodeMap

\* Worker w adds a node with the id t.
Adds(w, t, body) ==
  /\ body = Complete(job[w].draft, t)
  /\ body.id = t
  /\ Ids(mem'.nodes) = Ids(mem.nodes) \cup {t}
  /\ \A u \in Ids(mem.nodes) : mem'.nodes[u] = mem.nodes[u]
  /\ mem'.nodes[t].tx = body
  /\ mem'.nodes[t].hash.body = body
  /\ mem'.nodes[t].sig = [key |-> keys, body |-> body]
  /\ DOMAIN mem'.events = 1 .. Len(mem.events) + 1
  /\ mem'.events[Len(mem.events) + 1].tx = t
  /\ \A i \in DOMAIN mem.events : mem'.events[i] = mem.events[i]
  /\ fate' = [fate EXCEPT ![t] = "appended"]
  /\ job' = [job EXCEPT ![w] = Persisting(job[w].op, t)]

\* What adding a node does to a journal.
LEMMA AddIn ==
  ASSUME Inv, NEW w \in Worker, AppendAccepts(w)
  PROVE  \E t \in Tx \ Ids(mem.nodes), body \in Body : Adds(w, t, body)
<1>1. PICK t \in IF job[w].draft.id = NoTx THEN FreshIds
                                           ELSE {job[w].draft.id} :
        /\ mem' = AddNode(mem, Complete(job[w].draft, t), job[w].parents, keys)
        /\ fate' = [fate EXCEPT ![t] = "appended"]
        /\ job' = [job EXCEPT ![w] = Persisting(job[w].op, t)]
  BY DEF AppendAccepts, AppendNode
<1> DEFINE body == Complete(job[w].draft, t)
<1>2. t \in Tx /\ body \in Body /\ body.id = t /\ fate[t] = "unused"
  BY AppendBody DEF AppendAccepts
<1>3. mem' = AddNode(mem, body, job[w].parents, keys)
  BY <1>1
<1>4. body = Complete(job[w].draft, t)
  OBVIOUS
<1> HIDE DEF body
<1>5. mem \in Graph /\ WellFormed(mem) /\ t \notin Ids(mem.nodes) /\ keys \in Nat
  BY <1>2, Known DEF Inv, TypeOK, CopiesWellFormed, CopiesDrawn
<1>6. /\ Ids(mem'.nodes) = Ids(mem.nodes) \cup {t}
      /\ \A u \in Ids(mem.nodes) : mem'.nodes[u] = mem.nodes[u]
  <2>1. KnownParents(mem.nodes, job[w].parents)
    BY DEF AppendAccepts, Acceptable
  <2> QED
    BY <1>2, <1>3, <1>5, <2>1, AddNodeWellFormed
<1> DEFINE parents == ParentsFor(mem.nodes, job[w].parents)
<1>7. /\ mem'.nodes = [mem.nodes EXCEPT ![t] = NewNode(body, parents, keys)]
      /\ mem'.events = LogGossip(mem.events, t, parents)
  BY <1>2, <1>3 DEF AddNode
<1> HIDE DEF parents
<1>8. mem'.nodes[t] = NewNode(body, parents, keys)
  BY <1>2, <1>5, <1>7 DEF Graph, NodeMap
<1>9. /\ mem'.nodes[t].tx = body
      /\ mem'.nodes[t].hash.body = body
      /\ mem'.nodes[t].sig = [key |-> keys, body |-> body]
  BY <1>8 DEF NewNode, ComputeNodeHash, SignTransaction
<1>10. /\ DOMAIN mem'.events = 1 .. Len(mem.events) + 1
       /\ mem'.events[Len(mem.events) + 1].tx = t
       /\ \A i \in DOMAIN mem.events : mem'.events[i] = mem.events[i]
  <2>1. mem.events \in Seq(GossipEvent)
    BY <1>5 DEF Graph
  <2> QED
    BY <1>7, <2>1 DEF LogGossip
<1>11. Adds(w, t, body)
  BY <1>1, <1>2, <1>4, <1>6, <1>9, <1>10 DEF Adds
<1> QED
  BY <1>2, <1>5, <1>11

\* The attacks and their roll-back put a node with the same seal, document,
\* action and time stamp in place.
LEMMA PutsInPlace ==
  ASSUME Inv, KindsKept, NEW w \in Worker,
         \/ Forge(w) \/ Substitute(w)
         \/ Restore(w) /\ job[w].tx \in Ids(mem.nodes)
  PROVE  \E t \in Ids(mem.nodes), node \in Node :
           /\ mem' = PutNode(mem, t, node)
           /\ Seal(node) = Seal(mem.nodes[t])
           /\ KeepsKind(node, clock)
           /\ KindOf(node.tx) = KindOf(mem.nodes[t].tx)
           /\ ~ Substitute(w) => node.tx.issuer = mem.nodes[t].tx.issuer
                                  \/ node = job[w].backup
<1>1. \A t \in Ids(mem.nodes) :
        mem.nodes[t] \in Node /\ KeepsKind(mem.nodes[t], clock)
  BY Known DEF Ids, Inv, TypeOK, Graph, NodeMap, KindsKept
<1>2. CASE Forge(w)
  <2>1. PICK t \in Ids(mem.nodes), h \in DocHash :
          mem' = PutNode(mem, t, [mem.nodes[t] EXCEPT !.tx.hash = h])
    BY <1>2 DEF Forge, Attack
  <2> DEFINE node == [mem.nodes[t] EXCEPT !.tx.hash = h]
  <2>2. mem.nodes[t] \in Node
    BY <1>1
  <2>3. /\ node \in Node /\ Seal(node) = Seal(mem.nodes[t])
        /\ KindOf(node.tx) = KindOf(mem.nodes[t].tx)
        /\ node.hash = mem.nodes[t].hash
        /\ node.tx.ts = mem.nodes[t].tx.ts
        /\ node.tx.issuer = mem.nodes[t].tx.issuer
    BY <2>2 DEF Node, Body, Seal, KindOf
  <2>4. mem' = PutNode(mem, t, node)
    BY <2>1
  <2> HIDE DEF node
  <2>5. KeepsKind(node, clock)
    BY <1>1, <2>3 DEF KeepsKind
  <2> QED
    BY <2>3, <2>4, <2>5
<1>3. CASE Substitute(w)
  <2>1. PICK t \in Ids(mem.nodes), c \in Country \cup Foreign :
          mem' = PutNode(mem, t, [mem.nodes[t] EXCEPT !.tx.issuer = c])
    BY <1>3 DEF Substitute, Attack
  <2> DEFINE node == [mem.nodes[t] EXCEPT !.tx.issuer = c]
  <2>2. mem.nodes[t] \in Node
    BY <1>1
  <2>3. /\ node \in Node /\ Seal(node) = Seal(mem.nodes[t])
        /\ KindOf(node.tx) = KindOf(mem.nodes[t].tx)
        /\ node.hash = mem.nodes[t].hash
        /\ node.tx.ts = mem.nodes[t].tx.ts
    BY <2>2 DEF Node, Body, Seal, KindOf
  <2>4. mem' = PutNode(mem, t, node)
    BY <2>1
  <2> HIDE DEF node
  <2>5. KeepsKind(node, clock)
    BY <1>1, <2>3 DEF KeepsKind
  <2> QED
    BY <1>3, <2>3, <2>4, <2>5
<1>4. CASE Restore(w) /\ job[w].tx \in Ids(mem.nodes)
  <2> DEFINE t == job[w].tx
             node == job[w].backup
  <2>1. HasBackup(job[w]) /\ node \in Node /\ KeepsKind(node, clock)
    BY <1>4, Known DEF Restore, HasBackup, ShapeOf, KindsKept
  <2>2. Seal(node) = Seal(mem.nodes[t])
    BY <1>4, <2>1, Known DEF Inv, BackupsAgree, SealedAs
  <2>3. node.hash = mem.nodes[t].hash
    BY <2>2 DEF Seal
  <2>4. KindOf(node.tx) = KindOf(mem.nodes[t].tx)
    BY <1>1, <1>4, <2>1, <2>3 DEF KeepsKind
  <2>5. mem' = PutNode(mem, t, node)
    BY <1>4 DEF Restore, RolledBack
  <2> QED
    BY <1>4, <2>1, <2>2, <2>4, <2>5
<1> QED
  BY <1>2, <1>3, <1>4

\* A roll-back that finds its node gone changes nothing.
LEMMA RestoreWithout ==
  ASSUME NEW w \in Worker, Restore(w), job[w].tx \notin Ids(mem.nodes)
  PROVE  mem' = mem
  BY DEF Restore, RolledBack

\* Every step keeps documents, actions and time stamps.
LEMMA KindsStep ==
  ASSUME Inv, Roles, KindsKept, [Next]_vars
  PROVE  KindsKept'
<1>1. CopiesFollow /\ BackupsFollow
  BY StepMoves
<1>2. clock \in Nat /\ clock' \in Nat
  BY InvStep, Known DEF Inv, TypeOK
<1>3. ASSUME NEW node \in Node, KeepsKind(node, clock)
      PROVE  KeepsKind(node, clock')
  <2>1. node.tx.ts \in Nat
    BY DEF Node, Body
  <2> QED
    BY <1>1, <1>2, <1>3, <2>1 DEF CopiesFollow, KeepsKind
<1>4. \A g \in Copies : \A t \in Ids(g.nodes) :
        g.nodes[t] \in Node /\ KeepsKind(g.nodes[t], clock)
  BY CopiesAreGraphs DEF Ids, Graph, NodeMap, KindsKept
<1>5. \A t \in Ids(mem'.nodes) : KeepsKind(mem'.nodes[t], clock')
  <2>1. CASE mem' \in Copies \cup {EmptyGraph}
    BY <2>1, <1>3, <1>4, EmptyGraphIds
  <2>2. ASSUME NEW w \in Worker, AppendAccepts(w)
        PROVE  \A t \in Ids(mem'.nodes) : KeepsKind(mem'.nodes[t], clock')
    <3>1. PICK t \in Tx \ Ids(mem.nodes), body \in Body : Adds(w, t, body)
      BY <2>2, AddIn
    <3>2. clock' = clock /\ job[w].draft \in Draft
      BY <2>2, Known DEF AppendAccepts, ShapeOf
    <3>3. body.ts <= clock
      <4>1. job[w].draft # None
        BY <3>2, NoDraftAssumption
      <4>2. job[w].draft.ts <= clock
        BY <4>1 DEF Roles
      <4>3. body.ts = IF job[w].draft.ts = 0 THEN clock ELSE job[w].draft.ts
        BY <3>1 DEF Adds, Complete, NewDraft
      <4> QED
        BY <4>2, <4>3, <1>2
    <3>4. KeepsKind(mem'.nodes[t], clock')
      BY <3>1, <3>2, <3>3 DEF Adds, KeepsKind
    <3>5. \A u \in Ids(mem.nodes) : KeepsKind(mem.nodes[u], clock')
      BY <1>3, <1>4, Known
    <3>6. \A u \in Ids(mem.nodes) : KeepsKind(mem'.nodes[u], clock')
      BY <3>1, <3>5 DEF Adds, KeepsKind
    <3> QED
      BY <3>1, <3>4, <3>6 DEF Adds
  <2>3. ASSUME NEW w \in Worker, \/ Forge(w) \/ Substitute(w)
                                 \/ Restore(w) /\ job[w].tx \in Ids(mem.nodes)
        PROVE  \A t \in Ids(mem'.nodes) : KeepsKind(mem'.nodes[t], clock')
    <3>1. PICK t \in Ids(mem.nodes), node \in Node :
             mem' = PutNode(mem, t, node) /\ KeepsKind(node, clock)
      BY <2>3, PutsInPlace
    <3>2. mem \in Graph
      BY DEF Inv, TypeOK
    <3>3. /\ mem'.nodes[t] = node
          /\ \A u \in Ids(mem.nodes) \ {t} : mem'.nodes[u] = mem.nodes[u]
          /\ Ids(mem'.nodes) = Ids(mem.nodes)
      BY <3>1, <3>2, PutIn
    <3>4. /\ KeepsKind(node, clock')
          /\ \A u \in Ids(mem.nodes) : KeepsKind(mem.nodes[u], clock')
      BY <1>3, <1>4, <3>1, Known
    <3> QED
      BY <3>3, <3>4 DEF KeepsKind
  <2>4. ASSUME NEW w \in Worker, Restore(w), job[w].tx \notin Ids(mem.nodes)
        PROVE  mem' \in Copies
    BY <2>4, RestoreWithout, Known
  <2> QED
    BY <1>1, <2>1, <2>2, <2>3, <2>4 DEF CopiesFollow
<1>6. ASSUME NEW g \in Copies', NEW t \in Ids(g.nodes)
      PROVE  KeepsKind(g.nodes[t], clock')
  BY <1>1, <1>3, <1>4, <1>5, EmptyGraphIds DEF CopiesFollow
<1>7. ASSUME NEW w \in Worker, HasBackup(job'[w])
      PROVE  KeepsKind(job'[w].backup, clock')
  <2>1. CASE HasBackup(job[w]) /\ job'[w].backup = job[w].backup
    <3>1. job[w].backup \in Node /\ KeepsKind(job[w].backup, clock)
      BY <2>1, Known DEF ShapeOf, KindsKept
    <3>2. KeepsKind(job[w].backup, clock')
      BY <3>1, <1>1, <1>2 DEF CopiesFollow, KeepsKind, Node, Body
    <3> QED
      BY <3>2, <2>1 DEF KeepsKind
  <2>2. CASE /\ job'[w].tx \in Ids(mem.nodes)
             /\ job'[w].backup = mem.nodes[job'[w].tx]
    BY <2>2, <1>3, <1>4, Known
  <2> QED
    BY <1>1, <1>7, <2>1, <2>2 DEF BackupsFollow
<1> QED
  BY <1>6, <1>7 DEF KindsKept

\* There are no nodes at the start.
LEMMA KindsInit == Init => KindsKept
<1> SUFFICES ASSUME Init PROVE KindsKept
  OBVIOUS
<1>1. Copies = {EmptyGraph} /\ \A w \in Worker : ~ HasBackup(job[w])
  BY IdleShape DEF Init, Copies, HasBackup
<1> QED
  BY <1>1, EmptyGraphIds DEF KindsKept

-----------------------------------------------------------------------------
(***************************************************************************)
(* Revokes by the issuer.                                                  *)
(***************************************************************************)

\* Nobody reads the journal back or resets it, and nobody changes an issuer.
RevokeScope ==
  \A w \in Worker : Offered[w] \subseteq {"issue", "revoke", "demo", "forge"}

KeepsIssuer(node) == node.tx.issuer = node.hash.body.issuer

Authorised(g) ==
  \A t \in Revokes(g.nodes) :
    g.nodes[t].tx.issuer \in IssuersOf(g.nodes, g.nodes[t].tx.doc)

RevokeInv ==
  /\ \A g \in Copies : \A t \in Ids(g.nodes) : KeepsIssuer(g.nodes[t])
  /\ \A w \in Worker : HasBackup(job[w]) => KeepsIssuer(job[w].backup)
  /\ \A g \in Copies : Authorised(g)
  /\ \A w \in Worker : job[w].pc = "append" /\ job[w].op # "issue" =>
       job[w].draft.issuer \in IssuersOf(mem.nodes, job[w].draft.doc)

\* Nodes that agree on document, action, time stamp and issuer have the same
\* issuers.
LEMMA SameIssuers ==
  ASSUME NEW m, NEW n, Ids(n) = Ids(m),
         \A t \in Ids(m) : /\ KindOf(n[t].tx) = KindOf(m[t].tx)
                           /\ n[t].tx.issuer = m[t].tx.issuer
  PROVE  /\ Revokes(n) = Revokes(m)
         /\ \A d : IssuersOf(n, d) = IssuersOf(m, d)
<1>1. \A t \in Ids(m) : /\ n[t].tx.doc = m[t].tx.doc
                        /\ n[t].tx.action = m[t].tx.action
                        /\ n[t].tx.ts = m[t].tx.ts
  BY DEF KindOf
<1>2. Revokes(n) = Revokes(m)
  BY <1>1 DEF Revokes
<1>3. ASSUME NEW d
      PROVE  IssuersOf(n, d) = IssuersOf(m, d)
  <2>1. NodesOf(n, d, "issue") = NodesOf(m, d, "issue")
    BY <1>1 DEF NodesOf
  <2>2. NodesOf(m, d, "issue") \subseteq Ids(m)
    BY DEF NodesOf
  <2>3. EarliestIssues(n, d) = EarliestIssues(m, d)
    BY <1>1, <2>1, <2>2 DEF EarliestIssues
  <2>4. EarliestIssues(m, d) \subseteq Ids(m)
    BY <2>2 DEF EarliestIssues
  <2> QED
    BY <2>3, <2>4 DEF IssuersOf
<1> QED
  BY <1>2, <1>3

\* One more node that is a revoke or not older than all others takes no issuer
\* away.
LEMMA IssuersGrow ==
  ASSUME NEW m, NEW n, NEW t, t \notin Ids(m), Ids(n) = Ids(m) \cup {t},
         \A u \in Ids(m) : n[u] = m[u],
         \/ n[t].tx.action = "revoke"
         \/ \A u \in Ids(m) : m[u].tx.ts <= n[t].tx.ts
  PROVE  \A d : IssuersOf(m, d) \subseteq IssuersOf(n, d)
<1> SUFFICES ASSUME NEW d, NEW u \in EarliestIssues(m, d)
             PROVE  m[u].tx.issuer \in IssuersOf(n, d)
  BY DEF IssuersOf
<1>1. u \in NodesOf(m, d, "issue") /\ u \in Ids(m)
        /\ \A v \in NodesOf(m, d, "issue") : m[u].tx.ts <= m[v].tx.ts
  BY DEF EarliestIssues, NodesOf
<1>2. u \in NodesOf(n, d, "issue")
  BY <1>1 DEF NodesOf
<1>3. ASSUME NEW v \in NodesOf(n, d, "issue")
      PROVE  n[u].tx.ts <= n[v].tx.ts
  <2>1. CASE v \in Ids(m)
    BY <2>1, <1>1 DEF NodesOf
  <2>2. CASE v = t
    <3>1. n[t].tx.action = "issue"
      BY <2>2 DEF NodesOf
    <3> QED
      BY <2>2, <3>1, <1>1
  <2> QED
    BY <2>1, <2>2 DEF NodesOf
<1>4. u \in EarliestIssues(n, d)
  BY <1>2, <1>3 DEF EarliestIssues
<1> QED
  BY <1>1, <1>4 DEF IssuersOf

\* A node that is added takes no issuer away: an issue is stamped with the time
\* of the append.
LEMMA AppendKeepsIssuers ==
  ASSUME Inv, Roles, KindsKept, NEW w \in Worker, AppendAccepts(w)
  PROVE  \A d : IssuersOf(mem.nodes, d) \subseteq IssuersOf(mem'.nodes, d)
<1>1. PICK t \in Tx \ Ids(mem.nodes), body \in Body : Adds(w, t, body)
  BY AddIn
<1>2. job[w].draft \in Draft /\ job[w].draft # None
  BY Known, NoDraftAssumption DEF AppendAccepts, ShapeOf
<1>3. RightDraft(job[w]) /\ job[w].op \in {"issue", "revoke", "demo"}
  BY <1>2 DEF Roles, RoleOf, AppendAccepts, OpsAt
<1>4. /\ body.action = job[w].draft.action
      /\ job[w].draft.ts = 0 => body.ts = clock
  BY <1>1 DEF Adds, Complete, NewDraft
<1>5. CASE job[w].op = "issue"
  <2>1. body.ts = clock
    BY <1>3, <1>4, <1>5 DEF RightDraft
  <2>2. \A u \in Ids(mem.nodes) : mem.nodes[u].tx.ts <= clock
    BY Known DEF KindsKept, KeepsKind
  <2> QED
    BY <1>1, <2>1, <2>2, IssuersGrow DEF Adds
<1>6. CASE job[w].op # "issue"
  <2>1. mem'.nodes[t].tx.action = "revoke"
    BY <1>1, <1>3, <1>4, <1>6 DEF RightDraft, Adds
  <2>2. /\ t \notin Ids(mem.nodes)
        /\ Ids(mem'.nodes) = Ids(mem.nodes) \cup {t}
        /\ \A u \in Ids(mem.nodes) : mem'.nodes[u] = mem.nodes[u]
    BY <1>1 DEF Adds
  <2> QED
    BY <2>1, <2>2, IssuersGrow
<1> QED
  BY <1>5, <1>6

\* A revoke that was checked against the journal it is added to is authorised.
LEMMA AppendAuthorised ==
  ASSUME Inv, Roles, KindsKept, Authorised(mem), NEW w \in Worker,
         AppendAccepts(w),
         job[w].op # "issue" =>
           job[w].draft.issuer \in IssuersOf(mem.nodes, job[w].draft.doc)
  PROVE  Authorised(mem')
<1>1. PICK t \in Tx \ Ids(mem.nodes), body \in Body : Adds(w, t, body)
  BY AddIn
<1>2. \A d : IssuersOf(mem.nodes, d) \subseteq IssuersOf(mem'.nodes, d)
  BY AppendKeepsIssuers
<1>3. body.action = "revoke" => body.issuer \in IssuersOf(mem.nodes, body.doc)
  <2>1. job[w].draft # None
    BY Known, NoDraftAssumption DEF AppendAccepts, ShapeOf
  <2>2. /\ body.action = job[w].draft.action
        /\ body.issuer = job[w].draft.issuer
        /\ body.doc = job[w].draft.doc
    BY <1>1 DEF Adds, Complete, NewDraft
  <2>3. job[w].op = "issue" => body.action = "issue"
    BY <2>1, <2>2 DEF Roles, RoleOf, RightDraft
  <2> QED
    BY <2>2, <2>3
<1>4. /\ Ids(mem'.nodes) = Ids(mem.nodes) \cup {t}
      /\ \A u \in Ids(mem.nodes) : mem'.nodes[u] = mem.nodes[u]
      /\ mem'.nodes[t].tx = body
  BY <1>1 DEF Adds
<1> QED
  BY <1>2, <1>3, <1>4 DEF Authorised, Revokes

\* In this scope the only changes of a node are that of its document hash and
\* the roll-back, so that it keeps its issuer.
LEMMA RevokePuts ==
  ASSUME Inv, KindsKept, RevokeInv, RevokeScope, Roles, NEW w \in Worker,
         Forge(w) \/ Restore(w)
  PROVE  \/ mem' = mem
         \/ /\ Ids(mem'.nodes) = Ids(mem.nodes)
            /\ \A u \in Ids(mem.nodes) :
                 /\ KindOf(mem'.nodes[u].tx) = KindOf(mem.nodes[u].tx)
                 /\ mem'.nodes[u].tx.issuer = mem.nodes[u].tx.issuer
                 /\ mem'.nodes[u].hash = mem.nodes[u].hash
<1>1. CASE Restore(w) /\ job[w].tx \notin Ids(mem.nodes)
  BY <1>1, RestoreWithout
<1>2. CASE Forge(w) \/ (Restore(w) /\ job[w].tx \in Ids(mem.nodes))
  <2>1. ~ Substitute(w)
    BY StoreAssumption DEF RevokeScope, Substitute, Attack, Start
  <2>2. PICK t \in Ids(mem.nodes), node \in Node :
           /\ mem' = PutNode(mem, t, node)
           /\ Seal(node) = Seal(mem.nodes[t])
           /\ KindOf(node.tx) = KindOf(mem.nodes[t].tx)
           /\ node.tx.issuer = mem.nodes[t].tx.issuer \/ node = job[w].backup
    BY <1>2, <2>1, PutsInPlace
  <2>3. node.hash = mem.nodes[t].hash
    BY <2>2 DEF Seal
  <2>4. node.tx.issuer = mem.nodes[t].tx.issuer
    <3>1. CASE Forge(w)
      <4>1. PICK u \in Ids(mem.nodes), h \in DocHash :
              mem' = PutNode(mem, u, [mem.nodes[u] EXCEPT !.tx.hash = h])
        BY <3>1 DEF Forge, Attack
      <4> DEFINE other == [mem.nodes[u] EXCEPT !.tx.hash = h]
      <4>2. mem.nodes[u] \in Node
        BY DEF Ids, Inv, TypeOK, Graph, NodeMap
      <4>3. other \in Node /\ other.tx.issuer = mem.nodes[u].tx.issuer
        BY <4>2 DEF Node, Body
      <4>4. mem' = PutNode(mem, u, other)
        BY <4>1
      <4> HIDE DEF other
      <4>5. /\ mem'.nodes[u] = other
            /\ \A v \in Ids(mem.nodes) \ {u} : mem'.nodes[v] = mem.nodes[v]
        BY <4>3, <4>4, PutIn DEF Inv, TypeOK
      <4>6. mem'.nodes[t] = node
        BY <2>2, PutIn DEF Inv, TypeOK
      <4> QED
        BY <4>3, <4>5, <4>6
    <3>2. CASE Restore(w) /\ node = job[w].backup
      <4>1. KeepsIssuer(node)
        BY <3>2 DEF Restore, HasBackup, RevokeInv
      <4>2. KeepsIssuer(mem.nodes[t])
        BY Known DEF RevokeInv
      <4> QED
        BY <4>1, <4>2, <2>3 DEF KeepsIssuer
    <3> QED
      BY <1>2, <2>2, <3>1, <3>2
  <2>5. /\ mem'.nodes[t] = node
        /\ \A u \in Ids(mem.nodes) \ {t} : mem'.nodes[u] = mem.nodes[u]
        /\ Ids(mem'.nodes) = Ids(mem.nodes)
    BY <2>2, PutIn DEF Inv, TypeOK
  <2> QED
    BY <2>2, <2>3, <2>4, <2>5
<1> QED
  BY <1>1, <1>2

\* What of the journal in memory every step keeps in this scope.
LEMMA RevokeMemory ==
  ASSUME Inv, KindsKept, RevokeInv, RevokeScope, Roles, [Next]_vars
  PROVE  /\ Authorised(mem')
         /\ \A t \in Ids(mem'.nodes) : KeepsIssuer(mem'.nodes[t])
         /\ \/ Restart
            \/ \A d : IssuersOf(mem.nodes, d) \subseteq IssuersOf(mem'.nodes, d)
<1> DEFINE Goal ==
      /\ Authorised(mem')
      /\ \A t \in Ids(mem'.nodes) : KeepsIssuer(mem'.nodes[t])
      /\ \/ Restart
         \/ \A d : IssuersOf(mem.nodes, d) \subseteq IssuersOf(mem'.nodes, d)
<1>1. \A g \in Copies \cup {EmptyGraph} :
        Authorised(g) /\ \A t \in Ids(g.nodes) : KeepsIssuer(g.nodes[t])
  BY EmptyGraphIds DEF RevokeInv, Authorised, Revokes
<1>2. CASE mem' = mem
  BY <1>1, <1>2, Known
<1>3. CASE Restart
  <2>1. mem' \in Copies \cup {EmptyGraph}
    BY <1>3, Known DEF Restart
  <2> QED
    BY <1>1, <1>3, <2>1
<1>4. ASSUME NEW w \in Worker, Replace(w) \/ Clear(w) \/ Substitute(w)
      PROVE  FALSE
  BY <1>4, StoreAssumption
     DEF Replace, Clear, Substitute, Attack, Start, Roles, RoleOf, OpsAt,
         RevokeScope
<1>5. ASSUME NEW w \in Worker, AppendAccepts(w)
      PROVE  Goal
  <2>1. PICK t \in Tx \ Ids(mem.nodes), body \in Body : Adds(w, t, body)
    BY <1>5, AddIn
  <2>2. \A d : IssuersOf(mem.nodes, d) \subseteq IssuersOf(mem'.nodes, d)
    BY <1>5, AppendKeepsIssuers
  <2>3. job[w].op # "issue" =>
          job[w].draft.issuer \in IssuersOf(mem.nodes, job[w].draft.doc)
    BY <1>5 DEF AppendAccepts, RevokeInv
  <2>4. Authorised(mem')
    BY <1>1, <1>5, <2>3, AppendAuthorised, Known
  <2>5. \A u \in Ids(mem'.nodes) : KeepsIssuer(mem'.nodes[u])
    BY <1>1, <2>1, Known DEF Adds, KeepsIssuer
  <2> QED
    BY <2>2, <2>4, <2>5
<1>6. ASSUME NEW w \in Worker, Forge(w) \/ Restore(w)
      PROVE  Goal
  <2>1. CASE mem' = mem
    BY <1>2, <2>1
  <2>2. CASE /\ Ids(mem'.nodes) = Ids(mem.nodes)
             /\ \A u \in Ids(mem.nodes) :
                  /\ KindOf(mem'.nodes[u].tx) = KindOf(mem.nodes[u].tx)
                  /\ mem'.nodes[u].tx.issuer = mem.nodes[u].tx.issuer
                  /\ mem'.nodes[u].hash = mem.nodes[u].hash
    <3>1. /\ Revokes(mem'.nodes) = Revokes(mem.nodes)
          /\ \A d : IssuersOf(mem'.nodes, d) = IssuersOf(mem.nodes, d)
      BY <2>2, SameIssuers
    <3>2. Authorised(mem')
      BY <1>1, <2>2, <3>1, Known DEF Authorised, Revokes, KindOf
    <3>3. \A t \in Ids(mem'.nodes) : KeepsIssuer(mem'.nodes[t])
      BY <1>1, <2>2, Known DEF KeepsIssuer
    <3> QED
      BY <3>1, <3>2, <3>3
  <2> QED
    BY <1>6, <2>1, <2>2, RevokePuts
<1> HIDE DEF Goal
<1>7. Goal
  BY <1>2, <1>3, <1>4, <1>5, <1>6, StepMoves DEF MemoryFollows, Goal
<1> QED
  BY <1>7 DEF Goal

\* Every step keeps revokes by the issuer.
LEMMA RevokeStep ==
  ASSUME Inv, KindsKept, RevokeInv, RevokeScope, Roles, [Next]_vars
  PROVE  RevokeInv'
<1>1. CopiesFollow /\ BackupsFollow /\ DraftsFollow
  BY StepMoves
<1>2. \A g \in Copies \cup {mem', EmptyGraph} :
        Authorised(g) /\ \A t \in Ids(g.nodes) : KeepsIssuer(g.nodes[t])
  BY RevokeMemory, EmptyGraphIds DEF RevokeInv, Authorised, Revokes
<1>3. \A g \in Copies' :
        Authorised(g) /\ \A t \in Ids(g.nodes) : KeepsIssuer(g.nodes[t])
  BY <1>1, <1>2 DEF CopiesFollow
<1>4. ASSUME NEW w \in Worker, HasBackup(job'[w])
      PROVE  KeepsIssuer(job'[w].backup)
  BY <1>1, <1>2, <1>4, Known DEF BackupsFollow, RevokeInv
<1>5. ASSUME NEW w \in Worker, job'[w].pc = "append", job'[w].op # "issue"
      PROVE  job'[w].draft.issuer \in IssuersOf(mem'.nodes, job'[w].draft.doc)
  <2>1. job'[w].draft = job[w].draft /\ (CheckPasses(w) \/ job'[w] = job[w])
    BY <1>1, <1>5 DEF DraftsFollow
  <2>2. CASE CheckPasses(w)
    BY <2>1, <2>2 DEF CheckPasses
  <2>3. CASE job'[w] = job[w]
    <3>1. job[w].draft.issuer \in IssuersOf(mem.nodes, job[w].draft.doc)
      BY <1>5, <2>3 DEF RevokeInv
    <3>2. ~ Restart
      BY <1>5, IdleShape DEF Restart
    <3> QED
      BY <2>1, <3>1, <3>2, RevokeMemory
  <2> QED
    BY <2>1, <2>2, <2>3
<1> QED
  BY <1>3, <1>4, <1>5 DEF RevokeInv

\* There are no revokes at the start.
LEMMA RevokeInit == Init => RevokeInv
<1> SUFFICES ASSUME Init PROVE RevokeInv
  OBVIOUS
<1>1. /\ Copies = {EmptyGraph}
      /\ \A w \in Worker : job[w].pc = "idle" /\ ~ HasBackup(job[w])
  BY IdleShape DEF Init, Copies, HasBackup
<1> QED
  BY <1>1, EmptyGraphIds DEF RevokeInv, Authorised, Revokes

\* In every copy of the journal a revoke is by a country that may be taken for
\* the issuer, while the requests add to the journal and forge document hashes,
\* whatever writes fail and wherever the process restarts (store.go 141-154,
\* 530-544).
THEOREM RevokeByIssuerAlways ==
  ASSUME RevokeScope
  PROVE  Spec => []RevokeByIssuer
<1> DEFINE I == Inv /\ Roles /\ KindsKept /\ RevokeInv
<1>1. Init => I
  BY InvInit, RolesInit, KindsInit, RevokeInit
<1>2. I /\ [Next]_vars => I'
  BY InvStep, RolesStep, KindsStep, RevokeStep
<1>3. I => RevokeByIssuer
  BY DEF RevokeInv, Authorised, RevokeByIssuer
<1> QED
  BY <1>1, <1>2, <1>3, PTL DEF Spec

-----------------------------------------------------------------------------
(***************************************************************************)
(* The last revoke of a document.                                          *)
(***************************************************************************)

\* The time stamps follow the order of the events.
EventsOrdered(g) ==
  \A i, j \in DOMAIN g.events :
    i <= j => g.nodes[g.events[i].tx].tx.ts <= g.nodes[g.events[j].tx].tx.ts

\* A document that was revoked was issued.
Issued(g) ==
  \A t \in Revokes(g.nodes) : NodesOf(g.nodes, g.nodes[t].tx.doc, "issue") # {}

\* What the ids and the time stamps of nodes are.
LEMMA NodeNumbers ==
  ASSUME NEW n \in NodeMap, NEW t \in Ids(n)
  PROVE  n[t].tx.ts \in Nat /\ t \in Nat /\ t \in Tx
  BY JournalAssumption DEF Ids, NodeMap, Node, Body

\* Of a finite set of ids one is the greatest.
LEMMA GreatestId ==
  ASSUME NEW S, S \subseteq Tx, S # {}
  PROVE  \E m \in S : \A t \in S : t <= m
<1> DEFINE id == [t \in Tx |-> t]
<1>1. id \in [Tx -> Nat] /\ \A t \in Tx : id[t] = t
  BY JournalAssumption
<1> HIDE DEF id
<1>2. \E p \in S : \A q \in S : id[q] <= id[p]
  BY <1>1, DeepestExists
<1> QED
  BY <1>1, <1>2

\* When no transaction of a document is later than one of its revokes, the last
\* one is a revoke.
LEMMA LatestIsRevoke ==
  ASSUME NEW n \in NodeMap, \A t \in Ids(n) : n[t].tx.id = t,
         NEW d, NEW r \in NodesOf(n, d, "revoke"),
         \A u \in ChainTxs(n, d) : n[u].tx.ts <= n[r].tx.ts
  PROVE  n[LatestChainTx(n, d)].tx.action = "revoke"
<1> DEFINE R == {t \in NodesOf(n, d, "revoke") : n[t].tx.ts = n[r].tx.ts}
           chain == ChainTxs(n, d)
           c == LatestChainTx(n, d)
<1>1. /\ r \in R /\ R \subseteq chain
      /\ \A u \in chain : /\ u \in Ids(n)
                          /\ n[u].tx.action \in {"issue", "revoke"}
                          /\ n[u].tx.action = "revoke" =>
                               u \in NodesOf(n, d, "revoke")
  BY DEF ChainTxs, NodesOf
<1>2. \A u \in chain : /\ n[u].tx.id = u /\ u \in Nat /\ u \in Tx
                       /\ n[u].tx.ts \in Nat
                       /\ n[u].tx.ts <= n[r].tx.ts
  BY <1>1, NodeNumbers
<1>3. R \subseteq Tx
  BY <1>1, <1>2
<1>4. \A u \in chain : n[u].tx.action = "revoke" /\ n[u].tx.ts = n[r].tx.ts
                         => u \in R
  BY <1>1
<1>5. \A u \in R : n[u].tx.action = "revoke" /\ n[u].tx.ts = n[r].tx.ts
  BY DEF NodesOf
<1> HIDE DEF R, chain
<1>6. PICK m \in R : \A t \in R : t <= m
  BY <1>1, <1>3, GreatestId
<1>7. ASSUME NEW u \in chain \ {m}
      PROVE  LaterChainNode(n[m], n[u])
  <2>1. CASE n[u].tx.ts # n[r].tx.ts
    <3>1. n[r].tx.ts > n[u].tx.ts
      BY <1>1, <1>2, <2>1
    <3> QED
      BY <3>1, <1>5 DEF LaterChainNode
  <2>2. CASE n[u].tx.ts = n[r].tx.ts /\ n[u].tx.action = "issue"
    BY <2>2, <1>5 DEF LaterChainNode
  <2>3. CASE n[u].tx.ts = n[r].tx.ts /\ n[u].tx.action = "revoke"
    <3>1. u <= m /\ u # m
      BY <1>4, <1>6, <2>3
    <3>2. u \in Nat /\ m \in Nat
      BY <1>1, <1>2
    <3>3. m > u
      BY <3>1, <3>2
    <3>4. n[u].tx.id = u /\ n[m].tx.id = m
      BY <1>1, <1>2
    <3> QED
      BY <2>3, <3>3, <3>4, <1>5 DEF LaterChainNode
  <2> QED
    BY <1>1, <2>1, <2>2, <2>3
<1>8. c \in chain /\ \A u \in chain \ {c} : LaterChainNode(n[c], n[u])
  <2>1. \E t \in chain : \A u \in chain \ {t} : LaterChainNode(n[t], n[u])
    BY <1>1, <1>7
  <2> QED
    BY <2>1 DEF LatestChainTx, chain
<1> HIDE DEF c
<1>9. n[c].tx.action = "revoke"
  <2> SUFFICES ASSUME n[c].tx.action # "revoke" PROVE FALSE
    OBVIOUS
  <2>1. n[r].tx.action = "revoke" /\ r \in chain
    BY <1>1, <1>5
  <2>2. n[c].tx.ts > n[r].tx.ts
    BY <2>1, <1>8 DEF LaterChainNode
  <2>3. n[c].tx.ts <= n[r].tx.ts /\ n[c].tx.ts \in Nat /\ n[r].tx.ts \in Nat
    BY <2>1, <1>2, <1>8
  <2> QED
    BY <2>2, <2>3
<1> QED
  BY <1>9 DEF c

\* An issued document with a revoke no older than any of its transactions is
\* warned of.
LEMMA RevokeIsWarned ==
  ASSUME NEW n \in NodeMap, NEW d, NEW r \in NodesOf(n, d, "revoke"),
         \A u \in ChainTxs(n, d) : n[u].tx.ts <= n[r].tx.ts,
         NodesOf(n, d, "issue") # {}
  PROVE  DocumentRevoked(n, d)
<1> DEFINE issues == NodesOf(n, d, "issue")
           S == {n[t].tx.ts : t \in issues}
<1>1. /\ \A u \in issues : u \in Ids(n) /\ u \in ChainTxs(n, d)
      /\ \A u \in NodesOf(n, d, "revoke") : u \in Ids(n) /\ u \in ChainTxs(n, d)
  BY DEF NodesOf, ChainTxs
<1>2. \A u \in issues : n[u].tx.ts \in Nat
  BY <1>1, NodeNumbers
<1>3. S # {} /\ S \subseteq Nat
  BY <1>2
<1>4. \E x \in S : \A y \in S : x <= y
  <2> HIDE DEF S
  <2> QED
    BY <1>3, LeastExists
<1>5. PICK e \in issues : \A u \in issues : n[e].tx.ts <= n[u].tx.ts
  BY <1>4
<1>6. e \in EarliestIssues(n, d)
  BY <1>5 DEF EarliestIssues
<1>7. r \in LatestRevokes(n, d)
  BY <1>1 DEF LatestRevokes
<1>8. n[e].tx.ts <= n[r].tx.ts
  BY <1>1
<1>9. n[e].tx.ts \in Nat /\ n[r].tx.ts \in Nat
  BY <1>1, NodeNumbers
<1>10. n[r].tx.ts >= n[e].tx.ts
  BY <1>8, <1>9
<1> QED
  BY <1>6, <1>7, <1>10 DEF DocumentRevoked

\* Events are counted.
LEMMA EventIndices ==
  ASSUME NEW g \in Graph
  PROVE  DOMAIN g.events \subseteq Nat
<1>1. g.events \in Seq(GossipEvent)
  BY DEF Graph
<1> QED
  BY <1>1

\* The order of event numbers is total.
LEMMA NotLater ==
  ASSUME NEW i \in Nat, NEW j \in Nat, ~ (j > i)
  PROVE  j <= i
  OBVIOUS

\* The answer of the lookup and of the validation when the last event of a
\* document is its revoke.
LEMMA RevokedIsAnswered ==
  ASSUME NEW g \in Graph, WellFormed(g), EventsOrdered(g),
         NEW i \in DOMAIN g.events, NEW d,
         d = g.nodes[g.events[i].tx].tx.doc,
         g.nodes[g.events[i].tx].tx.action = "revoke",
         \A j \in DOMAIN g.events :
           j > i => g.nodes[g.events[j].tx].tx.doc # d
  PROVE  /\ \A h : VerifyLookup(g.nodes, d, h) = "revoked"
         /\ Issued(g) => DocumentRevoked(g.nodes, d)
<1> DEFINE r == g.events[i].tx
           n == g.nodes
<1>1. n \in NodeMap /\ \A t \in Ids(n) : n[t].tx.id = t
  BY DEF Graph, WellFormed, Sealed
<1>2. r \in Ids(n) /\ r \in NodesOf(n, d, "revoke")
  BY DEF WellFormed, EventsCausal, NodesOf
<1>3. ASSUME NEW u \in ChainTxs(n, d)
      PROVE  n[u].tx.ts <= n[r].tx.ts
  <2>1. n[u].tx.doc = d /\ u \in Ids(n)
    BY DEF ChainTxs, NodesOf
  <2>2. PICK j \in DOMAIN g.events : g.events[j].tx = u
    BY <2>1 DEF WellFormed, EventsCausal
  <2>3. i \in Nat /\ j \in Nat
    BY EventIndices
  <2>4. ~ (j > i)
    BY <2>1, <2>2
  <2>5. j <= i
    BY <2>3, <2>4, NotLater
  <2> QED
    BY <2>2, <2>5 DEF EventsOrdered
<1>4. Issued(g) => NodesOf(n, d, "issue") # {}
  BY <1>2 DEF Issued, Revokes
<1> HIDE DEF n, r
<1>5. n[LatestChainTx(n, d)].tx.action = "revoke"
  BY <1>1, <1>2, <1>3, LatestIsRevoke
<1>6. ChainTxs(n, d) # {}
  BY <1>2 DEF ChainTxs
<1>7. \A h : VerifyLookup(n, d, h) = "revoked"
  BY <1>5, <1>6 DEF VerifyLookup
<1>8. Issued(g) => DocumentRevoked(n, d)
  BY <1>1, <1>2, <1>3, <1>4, RevokeIsWarned
<1> QED
  BY <1>7, <1>8 DEF n

\* What an attack and its roll-back leave of the journal in memory.
SameKinds(g, h) ==
  /\ Ids(h.nodes) = Ids(g.nodes)
  /\ h.events = g.events
  /\ \A t \in Ids(g.nodes) : KindOf(h.nodes[t].tx) = KindOf(g.nodes[t].tx)

\* The attacks and their roll-back leave ids, events, documents, actions and
\* time stamps alone.
LEMMA AttacksKeepKinds ==
  ASSUME Inv, KindsKept, NEW w \in Worker,
         Forge(w) \/ Substitute(w) \/ Restore(w)
  PROVE  SameKinds(mem, mem')
<1>1. CASE Restore(w) /\ job[w].tx \notin Ids(mem.nodes)
  BY <1>1, RestoreWithout DEF SameKinds
<1>2. CASE \/ Forge(w) \/ Substitute(w)
           \/ Restore(w) /\ job[w].tx \in Ids(mem.nodes)
  <2>1. PICK t \in Ids(mem.nodes), node \in Node :
          /\ mem' = PutNode(mem, t, node)
          /\ KindOf(node.tx) = KindOf(mem.nodes[t].tx)
    BY <1>2, PutsInPlace
  <2>2. mem \in Graph
    BY DEF Inv, TypeOK
  <2>3. /\ mem'.nodes[t] = node
        /\ \A u \in Ids(mem.nodes) \ {t} : mem'.nodes[u] = mem.nodes[u]
        /\ Ids(mem'.nodes) = Ids(mem.nodes)
        /\ mem'.events = mem.events
    BY <2>1, <2>2, PutIn
  <2> QED
    BY <2>1, <2>3 DEF SameKinds
<1> QED
  BY <1>1, <1>2

\* Only the demonstration is left out of this scope.
NoDemo == \A w \in Worker : "demo" \notin Offered[w]

OrderedInv == \A g \in Copies : EventsOrdered(g)

\* The order of time stamps needs nothing but the events and the kinds.
LEMMA OrderKept ==
  ASSUME NEW g, NEW h, WellFormed(g), EventsOrdered(g), SameKinds(g, h)
  PROVE  EventsOrdered(h)
<1>1. \A i \in DOMAIN g.events : g.events[i].tx \in Ids(g.nodes)
  BY DEF WellFormed, EventsCausal
<1>2. h.events = g.events
        /\ \A t \in Ids(g.nodes) : h.nodes[t].tx.ts = g.nodes[t].tx.ts
  BY DEF SameKinds, KindOf
<1> QED
  BY <1>1, <1>2 DEF EventsOrdered

\* A node that is added is stamped with the time of the append.
LEMMA AppendInOrder ==
  ASSUME Inv, Roles, KindsKept, NoDemo, EventsOrdered(mem),
         NEW w \in Worker, AppendAccepts(w)
  PROVE  EventsOrdered(mem')
<1>1. PICK t \in Tx \ Ids(mem.nodes), body \in Body : Adds(w, t, body)
  BY AddIn
<1>2. body.ts = clock
  <2>1. job[w].draft \in Draft /\ job[w].draft # None
    BY Known, NoDraftAssumption DEF AppendAccepts, ShapeOf
  <2>2. job[w].draft.ts = 0
    BY <2>1 DEF Roles, RoleOf, RightDraft, NoDemo, AppendAccepts
  <2> QED
    BY <1>1, <2>2 DEF Adds, Complete, NewDraft
<1> DEFINE k == Len(mem.events) + 1
<1>3. Len(mem.events) \in Nat /\ DOMAIN mem.events = 1 .. Len(mem.events)
  <2>1. mem.events \in Seq(GossipEvent)
    BY DEF Inv, TypeOK, Graph
  <2> QED
    BY <2>1
<1>4. \A i \in DOMAIN mem.events : mem.events[i].tx \in Ids(mem.nodes)
  BY Known DEF Inv, CopiesWellFormed, WellFormed, EventsCausal
<1>5. \A u \in Ids(mem.nodes) : mem.nodes[u].tx.ts <= clock
  BY Known DEF KindsKept, KeepsKind
<1>6. clock \in Nat
  BY Known
<1>7. ASSUME NEW i \in DOMAIN mem.events
      PROVE  /\ mem'.nodes[mem'.events[i].tx].tx.ts
                   = mem.nodes[mem.events[i].tx].tx.ts
             /\ mem.nodes[mem.events[i].tx].tx.ts <= clock
  BY <1>1, <1>4, <1>5 DEF Adds
<1>8. mem'.nodes[mem'.events[k].tx].tx.ts = clock
  BY <1>1, <1>2 DEF Adds
<1>9. DOMAIN mem'.events = 1 .. k
  BY <1>1 DEF Adds
<1> HIDE DEF k
<1>10. \A i \in DOMAIN mem'.events : i = k \/ i \in DOMAIN mem.events
  BY <1>3, <1>9 DEF k
<1>11. \A i \in DOMAIN mem.events : ~ (k <= i)
  BY <1>3 DEF k
<1>12. ASSUME NEW i \in DOMAIN mem'.events, NEW j \in DOMAIN mem'.events,
              i <= j
       PROVE  mem'.nodes[mem'.events[i].tx].tx.ts
                <= mem'.nodes[mem'.events[j].tx].tx.ts
  <2>1. CASE i \in DOMAIN mem.events /\ j \in DOMAIN mem.events
    <3>1. mem.nodes[mem.events[i].tx].tx.ts <= mem.nodes[mem.events[j].tx].tx.ts
      BY <1>12, <2>1 DEF EventsOrdered
    <3> QED
      BY <1>7, <2>1, <3>1
  <2>2. CASE i \in DOMAIN mem.events /\ j = k
    BY <1>7, <1>8, <2>2
  <2>3. CASE i = k /\ j = k
    BY <1>6, <1>8, <2>3
  <2> QED
    BY <1>10, <1>11, <1>12, <2>1, <2>2, <2>3
<1> QED
  BY <1>12 DEF EventsOrdered

\* The journal without nodes is in order.
LEMMA EmptyInOrder == EventsOrdered(EmptyGraph)
  BY DEF EventsOrdered, EmptyGraph

\* Every step keeps the time stamps in the order of the events.
LEMMA OrderedStep ==
  ASSUME Inv, Roles, KindsKept, NoDemo, OrderedInv, [Next]_vars
  PROVE  OrderedInv'
<1>1. CopiesFollow
  BY StepMoves
<1>2. mem \in Copies /\ WellFormed(mem) /\ EventsOrdered(mem)
  BY Known DEF Inv, CopiesWellFormed, OrderedInv
<1>3. EventsOrdered(mem')
  <2>1. CASE mem' \in Copies \cup {EmptyGraph}
    BY <2>1, EmptyInOrder DEF OrderedInv
  <2>2. ASSUME NEW w \in Worker, AppendAccepts(w)
        PROVE  EventsOrdered(mem')
    BY <1>2, <2>2, AppendInOrder
  <2>3. ASSUME NEW w \in Worker, Forge(w) \/ Substitute(w) \/ Restore(w)
        PROVE  EventsOrdered(mem')
    BY <1>2, <2>3, AttacksKeepKinds, OrderKept
  <2> QED
    BY <1>1, <2>1, <2>2, <2>3 DEF CopiesFollow
<1>4. \A g \in Copies \cup {mem', EmptyGraph} : EventsOrdered(g)
  BY <1>3, EmptyInOrder DEF OrderedInv
<1> QED
  BY <1>1, <1>4 DEF CopiesFollow, OrderedInv

\* There are no events at the start.
LEMMA OrderedInit == Init => OrderedInv
<1> SUFFICES ASSUME Init PROVE OrderedInv
  OBVIOUS
<1>1. Copies = {EmptyGraph}
  BY IdleShape DEF Init, Copies
<1> QED
  BY <1>1, EmptyInOrder DEF OrderedInv

\* The last event of a document in a copy of the journal is a revoke.
LastIsRevoke(g, i) ==
  /\ g.nodes[g.events[i].tx].tx.action = "revoke"
  /\ \A j \in DOMAIN g.events :
       j > i => g.nodes[g.events[j].tx].tx.doc # g.nodes[g.events[i].tx].tx.doc

\* A document whose last event is a revoke is looked up as revoked.
RevokedLookup ==
  \A g \in Copies : \A i \in DOMAIN g.events :
    LastIsRevoke(g, i) =>
      \A h \in DocHash :
        VerifyLookup(g.nodes, g.nodes[g.events[i].tx].tx.doc, h) = "revoked"

\* The lookup answers "revoked" when the last thing that happened to a document
\* is a revoke, in every copy of the journal and whatever else the requests do,
\* reset, reload, attack, fail to write or restart, as long as nobody asks for
\* the demonstration (store.go 189-199, 677-706).
THEOREM RevokedLookupAlways ==
  ASSUME NoDemo
  PROVE  Spec => []RevokedLookup
<1> DEFINE I == Inv /\ Roles /\ KindsKept /\ OrderedInv
<1>1. Init => I
  BY InvInit, RolesInit, KindsInit, OrderedInit
<1>2. I /\ [Next]_vars => I'
  BY InvStep, RolesStep, KindsStep, OrderedStep
<1>3. I => RevokedLookup
  <2> SUFFICES ASSUME Inv, OrderedInv, NEW g \in Copies,
                      NEW i \in DOMAIN g.events, LastIsRevoke(g, i),
                      NEW h \in DocHash
               PROVE  VerifyLookup(g.nodes, g.nodes[g.events[i].tx].tx.doc, h)
                        = "revoked"
    BY DEF RevokedLookup
  <2>1. g \in Graph /\ WellFormed(g) /\ EventsOrdered(g)
    BY CopiesAreGraphs DEF Inv, CopiesWellFormed, OrderedInv
  <2> QED
    BY <2>1, RevokedIsAnswered DEF LastIsRevoke
<1> QED
  BY <1>1, <1>2, <1>3, PTL DEF Spec

\* Nobody reads the journal back or resets it.
NoReload ==
  \A w \in Worker :
    Offered[w] \subseteq {"issue", "revoke", "demo", "forge", "substitute"}

IssuedInv ==
  /\ \A g \in Copies : Issued(g)
  /\ \A w \in Worker : job[w].pc = "append" /\ job[w].op # "issue" =>
       NodesOf(mem.nodes, job[w].draft.doc, "issue") # {}

\* The issues of a journal are there in the next one.
IssuesStay(g, h) ==
  \A d : NodesOf(g.nodes, d, "issue") \subseteq NodesOf(h.nodes, d, "issue")

\* Same ids, documents and actions: same issues and same revokes.
LEMMA IssuedKept ==
  ASSUME NEW g, NEW h, SameKinds(g, h)
  PROVE  IssuesStay(g, h) /\ (Issued(g) => Issued(h))
<1>1. /\ Ids(h.nodes) = Ids(g.nodes)
      /\ \A t \in Ids(g.nodes) : /\ h.nodes[t].tx.doc = g.nodes[t].tx.doc
                                 /\ h.nodes[t].tx.action = g.nodes[t].tx.action
  BY DEF SameKinds, KindOf
<1>2. \A d : NodesOf(h.nodes, d, "issue") = NodesOf(g.nodes, d, "issue")
  BY <1>1 DEF NodesOf
<1>3. Revokes(h.nodes) = Revokes(g.nodes)
  BY <1>1 DEF Revokes
<1> QED
  BY <1>1, <1>2, <1>3 DEF IssuesStay, Issued, Revokes

\* A revoke is added only where an issue was found.
LEMMA AppendIssued ==
  ASSUME Inv, Roles, IssuedInv, NEW w \in Worker, AppendAccepts(w)
  PROVE  IssuesStay(mem, mem') /\ Issued(mem')
<1>1. PICK t \in Tx \ Ids(mem.nodes), body \in Body : Adds(w, t, body)
  BY AddIn
<1>2. /\ Ids(mem'.nodes) = Ids(mem.nodes) \cup {t}
      /\ \A u \in Ids(mem.nodes) : mem'.nodes[u] = mem.nodes[u]
      /\ mem'.nodes[t].tx = body
  BY <1>1 DEF Adds
<1>3. IssuesStay(mem, mem')
  BY <1>2 DEF IssuesStay, NodesOf
<1>4. body.action = "revoke" => NodesOf(mem.nodes, body.doc, "issue") # {}
  <2>1. job[w].pc = "append" /\ job[w].draft # None
    BY Known, NoDraftAssumption DEF AppendAccepts, ShapeOf
  <2>2. body.action = job[w].draft.action /\ body.doc = job[w].draft.doc
    BY <1>1 DEF Adds, Complete, NewDraft
  <2>3. job[w].op = "issue" => body.action = "issue"
    BY <2>1, <2>2 DEF Roles, RoleOf, RightDraft
  <2> QED
    BY <2>1, <2>2, <2>3 DEF IssuedInv
<1>5. Issued(mem)
  BY Known DEF IssuedInv
<1>6. ASSUME NEW u \in Revokes(mem'.nodes)
      PROVE  NodesOf(mem'.nodes, mem'.nodes[u].tx.doc, "issue") # {}
  <2>1. CASE u = t
    <3>1. NodesOf(mem.nodes, body.doc, "issue") # {}
      BY <1>2, <1>4, <1>6, <2>1 DEF Revokes
    <3> QED
      BY <1>2, <1>3, <2>1, <3>1 DEF IssuesStay
  <2>2. CASE u \in Ids(mem.nodes)
    <3>1. mem'.nodes[u] = mem.nodes[u] /\ u \in Revokes(mem.nodes)
      BY <1>2, <1>6, <2>2 DEF Revokes
    <3>2. NodesOf(mem.nodes, mem.nodes[u].tx.doc, "issue") # {}
      BY <1>5, <3>1 DEF Issued
    <3> QED
      BY <1>3, <3>1, <3>2 DEF IssuesStay
  <2> QED
    BY <1>2, <1>6, <2>1, <2>2 DEF Revokes
<1> QED
  BY <1>3, <1>6 DEF Issued

\* What every step keeps of the issues in memory in this scope.
LEMMA IssuesFollow ==
  ASSUME Inv, Roles, KindsKept, NoReload, IssuedInv, [Next]_vars
  PROVE  Issued(mem') /\ (Restart \/ IssuesStay(mem, mem'))
<1>1. \A g \in Copies \cup {EmptyGraph} : Issued(g)
  BY EmptyGraphIds DEF IssuedInv, Issued, Revokes
<1>2. CASE mem' = mem
  BY <1>1, <1>2, Known DEF IssuesStay
<1>3. CASE Restart
  <2>1. mem' \in Copies \cup {EmptyGraph}
    BY <1>3, Known DEF Restart
  <2> QED
    BY <1>1, <1>3, <2>1
<1>4. ASSUME NEW w \in Worker, Replace(w) \/ Clear(w)
      PROVE  FALSE
  BY <1>4 DEF Replace, Clear, Roles, RoleOf, OpsAt, NoReload
<1>5. ASSUME NEW w \in Worker, AppendAccepts(w)
      PROVE  Issued(mem') /\ IssuesStay(mem, mem')
  BY <1>5, AppendIssued
<1>6. ASSUME NEW w \in Worker, Forge(w) \/ Substitute(w) \/ Restore(w)
      PROVE  Issued(mem') /\ IssuesStay(mem, mem')
  BY <1>1, <1>6, AttacksKeepKinds, IssuedKept, Known
<1> QED
  BY <1>2, <1>3, <1>4, <1>5, <1>6, StepMoves DEF MemoryFollows

\* Every step keeps an issue for each revoke.
LEMMA IssuedStep ==
  ASSUME Inv, Roles, KindsKept, NoReload, IssuedInv, [Next]_vars
  PROVE  IssuedInv'
<1>1. CopiesFollow /\ DraftsFollow
  BY StepMoves
<1>2. Issued(mem') /\ (Restart \/ IssuesStay(mem, mem'))
  BY IssuesFollow
<1>3. \A g \in Copies \cup {mem', EmptyGraph} : Issued(g)
  BY <1>2, EmptyGraphIds DEF IssuedInv, Issued, Revokes
<1>4. ASSUME NEW w \in Worker, job'[w].pc = "append", job'[w].op # "issue"
      PROVE  NodesOf(mem'.nodes, job'[w].draft.doc, "issue") # {}
  <2>1. job'[w].draft = job[w].draft /\ (CheckPasses(w) \/ job'[w] = job[w])
    BY <1>1, <1>4 DEF DraftsFollow
  <2>2. CASE CheckPasses(w)
    BY <2>1, <2>2 DEF CheckPasses, IssuersOf, EarliestIssues
  <2>3. CASE job'[w] = job[w]
    <3>1. NodesOf(mem.nodes, job[w].draft.doc, "issue") # {}
      BY <1>4, <2>3 DEF IssuedInv
    <3>2. ~ Restart
      BY <1>4, IdleShape DEF Restart
    <3> QED
      BY <1>2, <2>1, <3>1, <3>2 DEF IssuesStay
  <2> QED
    BY <2>1, <2>2, <2>3
<1> QED
  BY <1>1, <1>3, <1>4 DEF CopiesFollow, IssuedInv

\* There are no revokes at the start.
LEMMA IssuedInit == Init => IssuedInv
<1> SUFFICES ASSUME Init PROVE IssuedInv
  OBVIOUS
<1>1. Copies = {EmptyGraph} /\ \A w \in Worker : job[w].pc = "idle"
  BY IdleShape DEF Init, Copies
<1> QED
  BY <1>1, EmptyGraphIds DEF IssuedInv, Issued, Revokes

\* When the last thing that happened to a document is a revoke, the lookup
\* answers "revoked" and the validation warns of it, while the requests add to
\* the journal and attack it, whatever writes fail and wherever the process
\* restarts (store.go 189-199, 534-567, 677-706).
THEOREM LastRevokeWinsAlways ==
  ASSUME NoDemo, NoReload
  PROVE  Spec => []LastRevokeWins
<1> DEFINE I == Inv /\ Roles /\ KindsKept /\ OrderedInv /\ IssuedInv
<1>1. Init => I
  BY InvInit, RolesInit, KindsInit, OrderedInit, IssuedInit
<1>2. I /\ [Next]_vars => I'
  BY InvStep, RolesStep, KindsStep, OrderedStep, IssuedStep
<1>3. I => LastRevokeWins
  <2> SUFFICES ASSUME Inv, OrderedInv, IssuedInv, NEW g \in Copies,
                      NEW i \in DOMAIN g.events, NEW d,
                      d = g.nodes[g.events[i].tx].tx.doc,
                      g.nodes[g.events[i].tx].tx.action = "revoke",
                      \A j \in DOMAIN g.events :
                        j > i => g.nodes[g.events[j].tx].tx.doc # d
               PROVE  /\ \A h \in DocHash : VerifyLookup(g.nodes, d, h) = "revoked"
                      /\ DocumentRevoked(g.nodes, d)
    BY DEF LastRevokeWins
  <2>1. g \in Graph /\ WellFormed(g) /\ EventsOrdered(g) /\ Issued(g)
    BY CopiesAreGraphs DEF Inv, CopiesWellFormed, OrderedInv, IssuedInv
  <2> QED
    BY <2>1, RevokedIsAnswered
<1> QED
  BY <1>1, <1>2, <1>3, PTL DEF Spec

-----------------------------------------------------------------------------
(***************************************************************************)
(* The attack simulations.                                                 *)
(***************************************************************************)

\* All workers but one only read.
OneWriter ==
  \E a \in Worker :
    \A w \in Worker \ {a} : Offered[w] \subseteq {"validate", "verify"}

\* The content of the node is what was hashed.
Intact(node) == node.tx = node.hash.body

Unforged(g) == \A t \in Ids(g.nodes) : Intact(g.nodes[t])

\* Worker w has changed the node t, and has noticed if it has looked.
Attacks(w, t) ==
  /\ HasBackup(job[w])
  /\ job[w].tx = t
  /\ job[w].pc = "restore" => verdict[w] = "caught"

AttackInv ==
  /\ Unforged(disk)
  /\ \A w \in Worker : Unforged(job[w].copy)
  /\ \A w \in Worker : HasBackup(job[w]) => Intact(job[w].backup)
  /\ \A t \in Ids(mem.nodes) :
       ~ Intact(mem.nodes[t]) => \E w \in Worker : Attacks(w, t)

\* A worker at a step that writes is given more than requests that read.
LEMMA WriterRole ==
  ASSUME NEW w \in Worker, NEW j, RoleOf(w, j),
         j.pc \in PC \ {"idle", "replace", "report"}
  PROVE  ~ (Offered[w] \subseteq {"validate", "verify"})
<1>1. j.op \in OpsAt(j.pc) /\ j.op \in Offered[w]
  BY DEF RoleOf
<1>2. j.op \notin {"validate", "verify"}
  BY <1>1 DEF OpsAt, PC
<1> QED
  BY <1>1, <1>2

\* Only one worker is given more.
LEMMA WritersMeet ==
  ASSUME OneWriter, NEW v \in Worker, NEW w \in Worker,
         ~ (Offered[v] \subseteq {"validate", "verify"}),
         ~ (Offered[w] \subseteq {"validate", "verify"})
  PROVE  v = w
  BY DEF OneWriter

\* Who attacks is alone with the journal.
LEMMA NobodyElseAttacks ==
  ASSUME Inv, OneWriter, Roles, AttackInv, NEW w \in Worker,
         job[w].pc \notin {"idle", "replace", "report"}
  PROVE  /\ \A t \in Ids(mem.nodes) : ~ Intact(mem.nodes[t]) => Attacks(w, t)
         /\ ~ HasBackup(job[w]) => Unforged(mem)
<1>1. \A v \in Worker : job[v].pc \in PC
  BY Known DEF Job
<1>2. \A v \in Worker : RoleOf(v, job[v])
  BY DEF Roles
<1>3. ~ (Offered[w] \subseteq {"validate", "verify"})
  BY <1>1, <1>2, WriterRole
<1>4. ASSUME NEW v \in Worker, HasBackup(job[v])
      PROVE  v = w
  BY <1>1, <1>2, <1>3, <1>4, WriterRole, WritersMeet DEF HasBackup
<1> QED
  BY <1>4 DEF AttackInv, Attacks, Unforged

\* A step of a worker that has no backup before it nor after it, and forges
\* nothing.
LEMMA HonestMove ==
  ASSUME Inv, AttackInv, NEW w \in Worker, NEW j,
         job' = [job EXCEPT ![w] = j],
         ~ HasBackup(job[w]), ~ HasBackup(j),
         Unforged(disk'), Unforged(j.copy),
         \A v \in Worker \ {w} : verdict'[v] = verdict[v],
         \A t \in Ids(mem'.nodes) :
           ~ Intact(mem'.nodes[t]) => t \in Ids(mem.nodes) /\ ~ Intact(mem.nodes[t])
  PROVE  AttackInv'
<1>1. job'[w] = j /\ \A v \in Worker \ {w} : job'[v] = job[v]
  BY DEF Inv, TypeOK
<1>2. \A v \in Worker : Unforged(job'[v].copy)
  BY <1>1 DEF AttackInv
<1>3. \A v \in Worker : HasBackup(job'[v]) => Intact(job'[v].backup)
  BY <1>1 DEF AttackInv
<1>4. ASSUME NEW t \in Ids(mem'.nodes), ~ Intact(mem'.nodes[t])
      PROVE  \E v \in Worker : Attacks(v, t)'
  <2>1. PICK v \in Worker : Attacks(v, t)
    BY <1>4 DEF AttackInv
  <2>2. v # w
    BY <2>1 DEF Attacks
  <2>3. job'[v] = job[v] /\ verdict'[v] = verdict[v]
    BY <1>1, <2>2
  <2>4. Attacks(v, t)'
    BY <2>1, <2>3 DEF Attacks
  <2> QED
    BY <2>4
<1> QED
  BY <1>2, <1>3, <1>4 DEF AttackInv

\* The journal without nodes has no forged ones.
LEMMA EmptyUnforged == Unforged(EmptyGraph)
  BY EmptyGraphIds DEF Unforged

\* The end of a request that leaves the journal alone.
LEMMA HonestFinish ==
  ASSUME Inv, AttackInv, NEW w \in Worker, Finish(w), ~ HasBackup(job[w]),
         mem' = mem, Unforged(disk'),
         \A v \in Worker \ {w} : verdict'[v] = verdict[v]
  PROVE  AttackInv'
<1>1. ~ HasBackup(Idle) /\ Unforged(Idle.copy)
  BY IdleShape, EmptyUnforged DEF HasBackup
<1> QED
  BY <1>1, HonestMove DEF Finish

\* A step that only moves the program counter.
LEMMA HonestGoto ==
  ASSUME Inv, AttackInv, NEW w \in Worker, NEW pc \in PC, Goto(w, pc),
         ~ HasBackup(job[w]), pc \notin {"inspect", "restore"},
         UNCHANGED <<mem, disk, verdict>>
  PROVE  AttackInv'
<1> DEFINE j == [job[w] EXCEPT !.pc = pc]
<1>1. /\ j \in Job
      /\ job' = [job EXCEPT ![w] = j]
      /\ j.pc = pc /\ j.copy = job[w].copy /\ j.draft = job[w].draft
      /\ j.tx = job[w].tx /\ j.backup = job[w].backup
  BY GotoLocals
<1> HIDE DEF j
<1>2. ~ HasBackup(j) /\ Unforged(j.copy) /\ Unforged(disk')
  BY <1>1 DEF HasBackup, AttackInv
<1> QED
  BY <1>1, <1>2, HonestMove

\* The start of a request other than an attack.
LEMMA HonestStart ==
  ASSUME Inv, AttackInv, NEW w \in Worker, NEW o, NEW j, Start(w, o, j),
         ~ HasBackup(j), Unforged(j.copy), UNCHANGED <<mem, disk>>
  PROVE  AttackInv'
<1>1. \A v \in Worker \ {w} : verdict'[v] = verdict[v]
  BY Known DEF Start
<1>2. ~ HasBackup(job[w]) /\ Unforged(disk')
  BY DEF Start, HasBackup, AttackInv
<1>3. job' = [job EXCEPT ![w] = j] /\ mem' = mem
  BY DEF Start
<1> QED
  BY <1>1, <1>2, <1>3, HonestMove

\* The change a simulation makes.
LEMMA AttackBegins ==
  ASSUME Inv, OneWriter, Roles, Roles', AttackInv, NEW w \in Worker,
         NEW o, NEW t \in Ids(mem.nodes), NEW node \in Node,
         Attack(w, o, t, node)
  PROVE  AttackInv'
<1> DEFINE j == Tampering(o, t, mem.nodes[t])
<1>1. /\ job' = [job EXCEPT ![w] = j]
      /\ mem' = PutNode(mem, t, node) /\ disk' = disk
  BY DEF Attack, Start
<1>2. /\ j.pc = "inspect" /\ j.tx = t /\ j.backup = mem.nodes[t]
      /\ j.copy = EmptyGraph
  BY DEF Tampering, Locals
<1> HIDE DEF j
<1>3. job'[w] = j /\ \A v \in Worker \ {w} : job'[v] = job[v]
  BY <1>1 DEF Inv, TypeOK
<1>4. Unforged(mem)
  <2>1. ASSUME NEW v \in Worker, HasBackup(job[v])
        PROVE  FALSE
    <3>1. v # w
      BY <2>1 DEF Attack, Start, HasBackup
    <3>2. RoleOf(v, job[v]) /\ RoleOf(w, j)
      BY <1>3 DEF Roles
    <3>3. v = w
      BY <1>2, <2>1, <3>2, WriterRole, WritersMeet DEF HasBackup, PC
    <3> QED
      BY <3>1, <3>3
  <2> QED
    BY <2>1 DEF AttackInv, Attacks, Unforged
<1>5. /\ mem'.nodes[t] = node
      /\ \A u \in Ids(mem.nodes) \ {t} : mem'.nodes[u] = mem.nodes[u]
      /\ Ids(mem'.nodes) = Ids(mem.nodes)
  BY <1>1, PutIn DEF Inv, TypeOK
<1>6. Attacks(w, t)'
  BY <1>2, <1>3 DEF Attacks, HasBackup
<1>7. \A u \in Ids(mem'.nodes) : ~ Intact(mem'.nodes[u]) => Attacks(w, u)'
  BY <1>4, <1>5, <1>6 DEF Unforged
<1>8. \A v \in Worker : Unforged(job'[v].copy)
  BY <1>2, <1>3, EmptyUnforged DEF AttackInv
<1>9. \A v \in Worker : HasBackup(job'[v]) => Intact(job'[v].backup)
  BY <1>2, <1>3, <1>4 DEF AttackInv, Unforged
<1> QED
  BY <1>1, <1>7, <1>8, <1>9 DEF AttackInv

\* A validation without an error found no forged node.
LEMMA PassIsUnforged ==
  ASSUME NEW g, NEW k, ValidateCanPass(g.nodes, k)
  PROVE  Unforged(g)
<1> SUFFICES ASSUME NEW t \in Ids(g.nodes)
             PROVE  Intact(g.nodes[t])
  BY DEF Unforged
<1>1. NodeIntact(g.nodes, t, k)
  BY DEF ValidateCanPass
<1>2. g.nodes[t].hash = ComputeNodeHash(g.nodes[t].tx, g.nodes[t].parents)
  BY <1>1 DEF NodeIntact
<1>3. \A b, ps : ComputeNodeHash(b, ps).body = b
  BY DEF ComputeNodeHash
<1> QED
  BY <1>2, <1>3 DEF Intact

\* The validation inside an attack finds the forged node if it is still there.
LEMMA InspectFinds ==
  ASSUME Inv, OneWriter, Roles, AttackInv, NEW w \in Worker, Inspect(w)
  PROVE  AttackInv'
<1> DEFINE j == [job[w] EXCEPT !.pc = "restore"]
<1>1. /\ j \in Job
      /\ job' = [job EXCEPT ![w] = j]
      /\ j.pc = "restore" /\ j.copy = job[w].copy /\ j.draft = job[w].draft
      /\ j.tx = job[w].tx /\ j.backup = job[w].backup
  BY GotoLocals DEF Inspect, PC
<1> HIDE DEF j
<1>2. HasBackup(job[w]) /\ mem' = mem /\ disk' = disk
  BY DEF Inspect, HasBackup
<1>3. job'[w] = j /\ \A v \in Worker \ {w} : job'[v] = job[v]
  BY <1>1 DEF Inv, TypeOK
<1>4. \A t \in Ids(mem.nodes) : ~ Intact(mem.nodes[t]) => Attacks(w, t)
  BY NobodyElseAttacks DEF Inspect
<1>5. Unforged(mem) \/ verdict'[w] = "caught"
  BY PassIsUnforged, Known DEF Inspect, Validated
<1>6. \A t \in Ids(mem'.nodes) : ~ Intact(mem'.nodes[t]) => Attacks(w, t)'
  BY <1>1, <1>2, <1>3, <1>4, <1>5 DEF Attacks, HasBackup, Unforged
<1>7. \A v \in Worker : Unforged(job'[v].copy)
  BY <1>1, <1>3 DEF AttackInv
<1>8. \A v \in Worker : HasBackup(job'[v]) => Intact(job'[v].backup)
  BY <1>1, <1>2, <1>3 DEF AttackInv
<1> QED
  BY <1>2, <1>6, <1>7, <1>8 DEF AttackInv

\* The roll-back leaves nothing forged.
LEMMA RestoreUnforged ==
  ASSUME Inv, OneWriter, Roles, AttackInv, NEW w \in Worker, Restore(w)
  PROVE  Unforged(mem')
<1>1. /\ HasBackup(job[w]) /\ job[w].backup \in Node
      /\ Intact(job[w].backup)
  BY Known DEF Restore, HasBackup, ShapeOf, AttackInv
<1>2. \A t \in Ids(mem.nodes) : ~ Intact(mem.nodes[t]) => t = job[w].tx
  BY NobodyElseAttacks DEF Restore, Attacks
<1>3. CASE job[w].tx \in Ids(mem.nodes)
  <2>1. mem' = PutNode(mem, job[w].tx, job[w].backup)
    BY <1>3 DEF Restore, RolledBack
  <2>2. /\ mem'.nodes[job[w].tx] = job[w].backup
        /\ \A u \in Ids(mem.nodes) \ {job[w].tx} : mem'.nodes[u] = mem.nodes[u]
        /\ Ids(mem'.nodes) = Ids(mem.nodes)
    BY <1>1, <1>3, <2>1, PutIn DEF Inv, TypeOK
  <2> QED
    BY <1>1, <1>2, <2>2 DEF Unforged
<1>4. CASE job[w].tx \notin Ids(mem.nodes)
  BY <1>2, <1>4, RestoreWithout DEF Unforged
<1> QED
  BY <1>3, <1>4

\* A node that is added is not forged.
LEMMA AppendIntact ==
  ASSUME Inv, NEW w \in Worker, AppendAccepts(w)
  PROVE  /\ Ids(mem.nodes) \subseteq Ids(mem'.nodes)
         /\ \A t \in Ids(mem'.nodes) :
              \/ t \notin Ids(mem.nodes) /\ Intact(mem'.nodes[t])
              \/ t \in Ids(mem.nodes) /\ mem'.nodes[t] = mem.nodes[t]
<1>1. PICK t \in Tx \ Ids(mem.nodes), body \in Body : Adds(w, t, body)
  BY AddIn
<1> QED
  BY <1>1 DEF Adds, Intact

\* The steps of a request.
LEMMA AttackServe ==
  ASSUME Inv, OneWriter, Roles, AttackInv, NEW w \in Worker, Serve(w)
  PROVE  AttackInv'
<1>1. Unforged(disk) /\ \A v \in Worker : Unforged(job[v].copy)
  BY DEF AttackInv
<1>2. CASE CheckPasses(w)
  BY <1>2, HonestGoto DEF CheckPasses, HasBackup, PC
<1>3. CASE CheckRefuses(w) \/ AppendRefuses(w) \/ WriteFails(w)
  <2>1. /\ Finish(w) /\ ~ HasBackup(job[w]) /\ mem' = mem /\ disk' = disk
        /\ verdict' = verdict
    BY <1>3 DEF CheckRefuses, AppendRefuses, WriteFails, HasBackup
  <2> QED
    BY <1>1, <2>1, HonestFinish
<1>4. CASE AppendAccepts(w)
  <2>1. PICK t : job' = [job EXCEPT ![w] = Persisting(job[w].op, t)]
    BY <1>4 DEF AppendAccepts, AppendNode
  <2> DEFINE j == Persisting(job[w].op, t)
  <2>2. ~ HasBackup(j) /\ Unforged(j.copy) /\ job' = [job EXCEPT ![w] = j]
    BY <2>1, EmptyUnforged DEF Persisting, Locals, HasBackup
  <2> HIDE DEF j
  <2>3. ~ HasBackup(job[w]) /\ Unforged(disk') /\ verdict' = verdict
    BY <1>1, <1>4 DEF AppendAccepts, HasBackup
  <2>4. \A u \in Ids(mem'.nodes) : ~ Intact(mem'.nodes[u]) =>
          u \in Ids(mem.nodes) /\ ~ Intact(mem.nodes[u])
    BY <1>4, AppendIntact
  <2> QED
    BY <2>2, <2>3, <2>4, HonestMove
<1>5. CASE TakeSnapshot(w)
  <2> DEFINE j == [job[w] EXCEPT !.pc = "write", !.copy = mem]
  <2>1. job[w] \in Job
    BY Known
  <2>2. j.pc = "write" /\ j.copy = mem /\ job' = [job EXCEPT ![w] = j]
    BY <1>5, <2>1 DEF TakeSnapshot, Job
  <2> HIDE DEF j
  <2>3. /\ ~ HasBackup(job[w]) /\ mem' = mem /\ disk' = disk
        /\ verdict' = verdict
    BY <1>5 DEF TakeSnapshot, HasBackup
  <2>4. Unforged(mem)
    BY <1>5, <2>3, NobodyElseAttacks DEF TakeSnapshot
  <2>5. ~ HasBackup(j) /\ Unforged(j.copy) /\ Unforged(disk')
    BY <1>1, <2>2, <2>3, <2>4 DEF HasBackup
  <2> QED
    BY <2>2, <2>3, <2>5, HonestMove
<1>6. CASE Write(w)
  <2>1. /\ Finish(w) /\ ~ HasBackup(job[w]) /\ mem' = mem
        /\ Unforged(disk') /\ verdict' = verdict
    BY <1>1, <1>6 DEF Write, HasBackup
  <2> QED
    BY <2>1, HonestFinish
<1>7. CASE Replace(w)
  <2>1. PICK j \in {Idle, Reading("report", "validate", EmptyGraph)} :
          job' = [job EXCEPT ![w] = j]
    BY <1>7 DEF Replace
  <2>2. ~ HasBackup(j) /\ Unforged(j.copy)
    BY IdleShape, EmptyUnforged DEF Reading, Locals, HasBackup
  <2>3. /\ ~ HasBackup(job[w]) /\ Unforged(disk') /\ verdict' = verdict
        /\ Unforged(mem')
    BY <1>1, <1>7 DEF Replace, HasBackup
  <2> QED
    BY <2>1, <2>2, <2>3, HonestMove DEF Unforged
<1>8. CASE Report(w)
  <2>1. /\ Finish(w) /\ ~ HasBackup(job[w]) /\ mem' = mem /\ disk' = disk
        /\ \A v \in Worker \ {w} : verdict'[v] = verdict[v]
    BY <1>8, Known DEF Report, Validated, HasBackup
  <2> QED
    BY <1>1, <2>1, HonestFinish
<1>9. CASE Inspect(w)
  BY <1>9, InspectFinds
<1>10. CASE Restore(w)
  <2>1. Unforged(mem') /\ disk' = disk
    BY <1>10, RestoreUnforged DEF Restore
  <2>2. /\ \A v \in Worker \ {w} : job'[v] = job[v]
        /\ job'[w] = Persisting(job[w].op, NoTx)
    <3>1. job' = [job EXCEPT ![w] = Persisting(job[w].op, NoTx)]
      BY <1>10 DEF Restore
    <3> QED
      BY <3>1 DEF Inv, TypeOK
  <2>3. ~ HasBackup(job'[w]) /\ Unforged(job'[w].copy)
    BY <2>2, EmptyUnforged DEF Persisting, Locals, HasBackup
  <2> QED
    BY <2>1, <2>2, <2>3 DEF AttackInv, Unforged
<1>11. CASE SwapKeys(w)
  BY <1>11, HonestGoto DEF SwapKeys, HasBackup, PC
<1>12. CASE Clear(w)
  <2>1. /\ job' = [job EXCEPT ![w] = Persisting("reset", NoTx)]
        /\ ~ HasBackup(job[w]) /\ mem' = EmptyGraph /\ disk' = disk
        /\ verdict' = verdict
    BY <1>12 DEF Clear, HasBackup
  <2>2. /\ ~ HasBackup(Persisting("reset", NoTx))
        /\ Unforged(Persisting("reset", NoTx).copy)
    BY EmptyUnforged DEF Persisting, Locals, HasBackup
  <2> QED
    BY <1>1, <2>1, <2>2, EmptyGraphIds, HonestMove
<1> QED
  BY <1>2, <1>3, <1>4, <1>5, <1>6, <1>7, <1>8, <1>9, <1>10, <1>11, <1>12
     DEF Serve

\* A new request.
LEMMA AttackAccept ==
  ASSUME Inv, OneWriter, Roles, Roles', AttackInv, NEW w \in Worker, Accept(w)
  PROVE  AttackInv'
<1>1. ASSUME NEW pc \in {"check", "append"}, NEW o, NEW draft, NEW ps,
             Start(w, o, Drafting(pc, o, draft, ps)), UNCHANGED <<mem, disk>>
      PROVE  AttackInv'
  <2>1. /\ ~ HasBackup(Drafting(pc, o, draft, ps))
        /\ Unforged(Drafting(pc, o, draft, ps).copy)
    BY EmptyUnforged DEF Drafting, Locals, HasBackup
  <2> QED
    BY <1>1, <2>1, HonestStart
<1>2. CASE StartIssue(w)
  BY <1>1, <1>2 DEF StartIssue
<1>3. CASE StartRevoke(w)
  BY <1>1, <1>3 DEF StartRevoke
<1>4. CASE StartDemo(w)
  BY <1>1, <1>4 DEF StartDemo
<1>5. CASE StartReload(w)
  <2>1. PICK o : /\ Start(w, o, Reading("replace", o, disk))
                 /\ UNCHANGED <<mem, disk>>
    BY <1>5 DEF StartReload
  <2>2. /\ ~ HasBackup(Reading("replace", o, disk))
        /\ Unforged(Reading("replace", o, disk).copy)
    BY DEF Reading, Locals, HasBackup, AttackInv
  <2> QED
    BY <2>1, <2>2, HonestStart
<1>6. mem.nodes \in NodeMap
  BY DEF Inv, TypeOK, Graph
<1>7. CASE Forge(w)
  <2>1. PICK t \in Ids(mem.nodes), h \in DocHash :
          Attack(w, "forge", t, [mem.nodes[t] EXCEPT !.tx.hash = h])
    BY <1>7 DEF Forge
  <2>2. [mem.nodes[t] EXCEPT !.tx.hash = h] \in Node
    BY <1>6 DEF Ids, NodeMap, Node, Body
  <2> QED
    BY <2>1, <2>2, AttackBegins
<1>8. CASE Substitute(w)
  <2>1. PICK t \in Ids(mem.nodes), c \in Country \cup Foreign :
          Attack(w, "substitute", t, [mem.nodes[t] EXCEPT !.tx.issuer = c])
    BY <1>8 DEF Substitute
  <2>2. [mem.nodes[t] EXCEPT !.tx.issuer = c] \in Node
    BY <1>6 DEF Ids, NodeMap, Node, Body
  <2> QED
    BY <2>1, <2>2, AttackBegins
<1>9. CASE Regenerate(w)
  <2>1. /\ Start(w, "reset", Rekeying("swap", keyFile + 1))
        /\ UNCHANGED <<mem, disk>>
    BY <1>9 DEF Regenerate
  <2>2. /\ ~ HasBackup(Rekeying("swap", keyFile + 1))
        /\ Unforged(Rekeying("swap", keyFile + 1).copy)
    BY EmptyUnforged DEF Rekeying, Locals, HasBackup
  <2> QED
    BY <2>1, <2>2, HonestStart
<1> QED
  BY <1>2, <1>3, <1>4, <1>5, <1>7, <1>8, <1>9 DEF Accept

\* Every step keeps forged nodes under the eyes of their attacker.
LEMMA AttackStep ==
  ASSUME Inv, OneWriter, Roles, AttackInv, [Next]_vars
  PROVE  AttackInv'
<1>1. Roles'
  BY RolesStep
<1>2. CASE Tick
  BY <1>2 DEF Tick, AttackInv, Attacks
<1>3. CASE Restart
  <2>1. /\ mem' \in {disk, EmptyGraph} /\ disk' = disk
        /\ \A w \in Worker : job'[w] = Idle
    BY <1>3 DEF Restart
  <2>2. ~ HasBackup(Idle) /\ Unforged(Idle.copy)
    BY IdleShape, EmptyUnforged DEF HasBackup
  <2> QED
    BY <2>1, <2>2, EmptyUnforged DEF AttackInv, Unforged
<1>4. CASE UNCHANGED vars
  BY <1>4 DEF vars, AttackInv, Attacks
<1> QED
  BY <1>1, <1>2, <1>3, <1>4, AttackServe, AttackAccept DEF Next

\* Nothing is forged at the start.
LEMMA AttackInit == Init => AttackInv
<1> SUFFICES ASSUME Init PROVE AttackInv
  OBVIOUS
<1>1. /\ mem = EmptyGraph /\ disk = EmptyGraph
      /\ \A w \in Worker : job[w] = Idle
  BY DEF Init
<1>2. ~ HasBackup(Idle) /\ Unforged(Idle.copy)
  BY IdleShape, EmptyUnforged DEF HasBackup
<1> QED
  BY <1>1, <1>2, EmptyUnforged DEF AttackInv, Unforged

\* What holds in every reachable state when one worker writes.
LEMMA AttackInvHolds ==
  ASSUME OneWriter
  PROVE  Spec => [](Inv /\ Roles /\ AttackInv)
<1>1. Init => Inv /\ Roles /\ AttackInv
  BY InvInit, RolesInit, AttackInit
<1>2. Inv /\ Roles /\ AttackInv /\ [Next]_vars => (Inv /\ Roles /\ AttackInv)'
  BY InvStep, RolesStep, AttackStep
<1> QED
  BY <1>1, <1>2, PTL DEF Spec

\* The file never holds a node the simulations changed, when they do not
\* overlap with one another or with other requests that write (store.go
\* 708-753).
THEOREM ForgeryNeverSavedAlways ==
  ASSUME OneWriter
  PROVE  Spec => []ForgeryNeverSaved
<1>1. Inv /\ Roles /\ AttackInv => ForgeryNeverSaved
  BY DEF AttackInv, Unforged, Intact, ForgeryNeverSaved, Forged
<1> QED
  BY <1>1, AttackInvHolds, PTL

\* Once no attack is under way nothing in memory is forged, whatever was
\* reloaded, restarted or failed to be written in between (store.go 742-746,
\* 789-793).
THEOREM AttackUndoneAlways ==
  ASSUME OneWriter
  PROVE  Spec => []AttackUndone
<1>1. Inv /\ Roles /\ AttackInv => AttackUndone
  BY DEF AttackInv, Attacks, HasBackup, Intact, AttackUndone, Forged
<1> QED
  BY <1>1, AttackInvHolds, PTL

\* The validation inside a simulation reports the node it changed, unless a
\* reload took the change away before (store.go 740, 787).
THEOREM AttackCaughtAlways ==
  ASSUME OneWriter
  PROVE  Spec => []AttackCaught
<1>1. Inv /\ Roles /\ AttackInv => AttackCaught
  <2> SUFFICES ASSUME Inv, Roles, AttackInv, NEW w \in Worker,
                      job[w].pc = "restore", job[w].tx \in Ids(mem.nodes),
                      mem.nodes[job[w].tx].tx # job[w].backup.tx
               PROVE  verdict[w] = "caught"
    BY DEF AttackCaught
  <2> DEFINE node == mem.nodes[job[w].tx]
  <2>1. HasBackup(job[w]) /\ Intact(job[w].backup)
    BY DEF HasBackup, AttackInv
  <2>2. node.hash = job[w].backup.hash
    BY <2>1, Known DEF Inv, BackupsAgree, SealedAs, Seal
  <2>3. ~ Intact(node)
    BY <2>1, <2>2 DEF Intact
  <2>4. Attacks(w, job[w].tx)
    BY <2>3, NobodyElseAttacks
  <2> QED
    BY <2>4 DEF Attacks
<1> QED
  BY <1>1, AttackInvHolds, PTL

-----------------------------------------------------------------------------
(***************************************************************************)
(* One request at a time: what a reset cleared.                            *)
(***************************************************************************)

OneAtATime == \E a : Worker = {a}

\* The request is about to save the journal.
Storing(j) == j.pc \in {"snapshot", "write"}

\* What a request with locals j that saves the journal saves, when m is in
\* memory.
SavesMemory(j, m) ==
  /\ j.op = "reset" /\ Storing(j) => m = EmptyGraph
  /\ j.pc = "write" => j.copy = m

\* Journal g holds nothing that was cleared, when f became of the ids.
Uncleared(g, f) == \A t \in Ids(g.nodes) : f[t] # "cleared"

ResetInv ==
  /\ \A g \in Copies : Uncleared(g, fate)
  /\ \A w \in Worker : SavesMemory(job[w], mem)

\* The only worker takes the only step.
LEMMA Alone ==
  ASSUME Inv, OneAtATime, NEW w \in Worker, NEW j,
         job' = [job EXCEPT ![w] = j]
  PROVE  \A v \in Worker : v = w /\ job'[v] = j
  BY DEF OneAtATime, Inv, TypeOK

\* The journal without nodes holds nothing that was cleared.
LEMMA EmptyUncleared == \A f : Uncleared(EmptyGraph, f)
  BY EmptyGraphIds DEF Uncleared

\* A step of the worker that clears no id, and brings none back.
LEMMA ResetMove ==
  ASSUME Inv, OneAtATime, ResetInv, CopiesFollow, NEW w \in Worker, NEW j,
         job' = [job EXCEPT ![w] = j], SavesMemory(j, mem'),
         \A t \in Tx : fate'[t] = "cleared" => fate[t] = "cleared",
         Uncleared(mem', fate')
  PROVE  ResetInv'
<1>1. \A v \in Worker : SavesMemory(job'[v], mem')
  BY Alone
<1>2. \A g : Ids(g.nodes) \subseteq Tx
  BY DEF Ids
<1>3. \A g \in Copies \cup {mem', EmptyGraph} : Uncleared(g, fate')
  BY <1>2, EmptyUncleared DEF ResetInv, Uncleared
<1>4. \A g \in Copies' : Uncleared(g, fate')
  BY <1>3 DEF CopiesFollow
<1> QED
  BY <1>1, <1>4 DEF ResetInv

\* A step that leaves the journal in memory and the fates alone, and does not
\* save.
LEMMA ResetPlain ==
  ASSUME Inv, OneAtATime, ResetInv, CopiesFollow, NEW w \in Worker, NEW j,
         job' = [job EXCEPT ![w] = j], ~ Storing(j), fate' = fate,
         mem' \in Copies \cup {EmptyGraph} \/ Ids(mem'.nodes) = Ids(mem.nodes)
  PROVE  ResetInv'
<1>1. SavesMemory(j, mem')
  BY DEF SavesMemory, Storing
<1>2. Uncleared(mem', fate')
  BY EmptyUncleared, Known DEF ResetInv, Uncleared
<1> QED
  BY <1>1, <1>2, ResetMove

\* A write ends the request with the journal in memory in the file.
LEMMA ResetWrite ==
  ASSUME Inv, OneAtATime, ResetInv, CopiesFollow, NEW w \in Worker,
         Write(w) \/ WriteFails(w)
  PROVE  ResetInv'
<1>1. /\ job' = [job EXCEPT ![w] = Idle] /\ mem' = mem
      /\ job[w].pc = "write"
      /\ \/ disk' = job[w].copy /\ fate' = Answered(w, TRUE)
         \/ disk' = disk /\ fate' = Answered(w, FALSE)
  BY DEF Write, WriteFails, Finish
<1>2. ~ Storing(Idle) /\ Idle.copy = EmptyGraph
  BY IdleShape DEF Storing
<1>3. job[w].copy = mem /\ (job[w].op = "reset" => mem = EmptyGraph)
  BY <1>1 DEF ResetInv, SavesMemory, Storing
<1>4. CASE job[w].op = "reset" /\ disk' = job[w].copy
  <2>1. \A v \in Worker : job'[v] = Idle
    BY <1>1, Alone
  <2>2. Copies' = {EmptyGraph}
    BY <1>1, <1>2, <1>3, <1>4, <2>1, Known DEF Copies
  <2>3. \A v \in Worker : SavesMemory(job'[v], mem')
    BY <1>2, <2>1 DEF SavesMemory, Storing
  <2> QED
    BY <2>2, <2>3, EmptyUncleared DEF ResetInv
<1>5. CASE job[w].op # "reset" \/ fate' = Answered(w, FALSE)
  <2>1. \A t \in Tx : fate'[t] = "cleared" => fate[t] = "cleared"
    BY <1>1, <1>5 DEF Answered
  <2>2. SavesMemory(Idle, mem')
    BY <1>2 DEF SavesMemory, Storing
  <2>3. Ids(mem.nodes) \subseteq Tx
    BY DEF Ids
  <2>4. Uncleared(mem', fate')
    BY <1>1, <2>1, <2>3, Known DEF ResetInv, Uncleared
  <2> QED
    BY <1>1, <2>1, <2>2, <2>4, ResetMove
<1> QED
  BY <1>1, <1>4, <1>5

\* The steps of a request.
LEMMA ResetServe ==
  ASSUME Inv, Roles, KindsKept, OneAtATime, ResetInv, CopiesFollow,
         NEW w \in Worker, Serve(w)
  PROVE  ResetInv'
<1>1. ~ Storing(Idle) /\ mem \in Copies /\ job[w] \in Job
  BY IdleShape, Known DEF Storing
<1>2. CASE CheckRefuses(w) \/ AppendRefuses(w) \/ Report(w)
  <2>1. job' = [job EXCEPT ![w] = Idle] /\ mem' = mem /\ fate' = fate
    BY <1>2 DEF CheckRefuses, AppendRefuses, Report, Finish
  <2> QED
    BY <1>1, <2>1, ResetPlain
<1>3. ASSUME NEW pc \in PC, pc \notin {"snapshot", "write"}, Goto(w, pc),
             mem' = mem, fate' = fate
      PROVE  ResetInv'
  <2> DEFINE j == [job[w] EXCEPT !.pc = pc]
  <2>1. job' = [job EXCEPT ![w] = j] /\ j.pc = pc
    BY <1>1, <1>3 DEF Goto, Job
  <2> HIDE DEF j
  <2>2. ~ Storing(j)
    BY <1>3, <2>1 DEF Storing
  <2> QED
    BY <1>1, <1>3, <2>1, <2>2, ResetPlain
<1>4. CASE CheckPasses(w)
  BY <1>3, <1>4 DEF CheckPasses, PC
<1>5. CASE Inspect(w)
  BY <1>3, <1>5 DEF Inspect, PC
<1>6. CASE SwapKeys(w)
  BY <1>3, <1>6 DEF SwapKeys, PC
<1>7. CASE AppendAccepts(w)
  <2>1. PICK t \in Tx \ Ids(mem.nodes), body \in Body : Adds(w, t, body)
    BY <1>7, AddIn
  <2> DEFINE j == Persisting(job[w].op, t)
  <2>2. job' = [job EXCEPT ![w] = j]
    BY <2>1 DEF Adds
  <2>3. job[w].op # "reset"
    BY <1>7 DEF AppendAccepts, Roles, RoleOf, OpsAt
  <2>4. SavesMemory(j, mem')
    BY <2>3 DEF Persisting, Locals, SavesMemory
  <2> HIDE DEF j
  <2>5. /\ fate'[t] = "appended"
        /\ \A u \in Tx \ {t} : fate'[u] = fate[u]
    BY <2>1, Known DEF Adds
  <2>6. Ids(mem.nodes) \subseteq Tx
    BY DEF Ids
  <2>7. \A u \in Ids(mem'.nodes) : u = t \/ u \in Ids(mem.nodes)
    BY <2>1 DEF Adds
  <2>8. Uncleared(mem', fate')
    BY <1>1, <2>5, <2>6, <2>7 DEF ResetInv, Uncleared
  <2> QED
    BY <2>2, <2>4, <2>5, <2>8, ResetMove
<1>8. CASE TakeSnapshot(w)
  <2> DEFINE j == [job[w] EXCEPT !.pc = "write", !.copy = mem]
  <2>1. /\ job' = [job EXCEPT ![w] = j] /\ mem' = mem /\ fate' = fate
        /\ j.copy = mem /\ j.op = job[w].op
    BY <1>1, <1>8 DEF TakeSnapshot, Job
  <2>2. j.op = "reset" => mem = EmptyGraph
    BY <1>8, <2>1 DEF TakeSnapshot, ResetInv, SavesMemory, Storing
  <2> HIDE DEF j
  <2>3. SavesMemory(j, mem')
    BY <2>1, <2>2 DEF SavesMemory
  <2> QED
    BY <1>1, <2>1, <2>3, ResetMove DEF ResetInv
<1>9. CASE Write(w) \/ WriteFails(w)
  BY <1>9, ResetWrite
<1>10. CASE Replace(w)
  <2>1. PICK j \in {Idle, Reading("report", "validate", EmptyGraph)} :
          job' = [job EXCEPT ![w] = j]
    BY <1>10 DEF Replace
  <2>2. ~ Storing(j)
    BY <1>1 DEF Reading, Locals, Storing
  <2>3. mem' \in Copies /\ fate' = fate
    BY <1>10, Known DEF Replace
  <2> QED
    BY <2>1, <2>2, <2>3, ResetPlain
<1>11. CASE Restore(w)
  <2> DEFINE j == Persisting(job[w].op, NoTx)
  <2>1. job' = [job EXCEPT ![w] = j] /\ fate' = fate
    BY <1>11 DEF Restore
  <2>2. job[w].op # "reset"
    BY <1>11 DEF Restore, Roles, RoleOf, OpsAt
  <2>3. SavesMemory(j, mem')
    BY <2>2 DEF Persisting, Locals, SavesMemory
  <2> HIDE DEF j
  <2>4. Ids(mem'.nodes) = Ids(mem.nodes)
    BY <1>11, AttacksKeepKinds DEF SameKinds
  <2>5. Uncleared(mem', fate')
    BY <1>1, <2>1, <2>4 DEF ResetInv, Uncleared
  <2> QED
    BY <2>1, <2>3, <2>5, ResetMove
<1>12. CASE Clear(w)
  <2> DEFINE j == Persisting("reset", NoTx)
  <2>1. job' = [job EXCEPT ![w] = j] /\ mem' = EmptyGraph
    BY <1>12 DEF Clear
  <2>2. SavesMemory(j, mem')
    BY <2>1 DEF Persisting, Locals, SavesMemory
  <2> HIDE DEF j
  <2>3. \A t \in Tx : fate'[t] = "cleared" => fate[t] = "cleared"
    BY <1>12 DEF Clear
  <2> QED
    BY <2>1, <2>2, <2>3, EmptyUncleared, ResetMove
<1> QED
  BY <1>2, <1>4, <1>5, <1>6, <1>7, <1>8, <1>9, <1>10, <1>11, <1>12 DEF Serve

\* A new request.
LEMMA ResetAccept ==
  ASSUME Inv, KindsKept, OneAtATime, ResetInv, CopiesFollow,
         NEW w \in Worker, Accept(w)
  PROVE  ResetInv'
<1>1. ASSUME NEW o, NEW j, Start(w, o, j), ~ Storing(j), fate' = fate,
             mem' = mem \/ Ids(mem'.nodes) = Ids(mem.nodes)
      PROVE  ResetInv'
  BY <1>1, ResetPlain, Known DEF Start
<1>2. \A pc, o, draft, ps : ~ Storing(Drafting(pc, o, draft, ps))
                              \/ pc \in {"snapshot", "write"}
  BY DEF Drafting, Locals, Storing
<1>3. CASE StartIssue(w) \/ StartRevoke(w) \/ StartDemo(w)
  <2>1. PICK pc, o, draft, ps : /\ pc \in {"check", "append"}
                                /\ Start(w, o, Drafting(pc, o, draft, ps))
    BY <1>3 DEF StartIssue, StartRevoke, StartDemo
  <2>2. mem' = mem /\ fate' = fate
    BY <1>3 DEF StartIssue, StartRevoke, StartDemo
  <2> QED
    BY <1>1, <1>2, <2>1, <2>2
<1>4. CASE StartReload(w)
  <2>1. PICK o : Start(w, o, Reading("replace", o, disk))
    BY <1>4 DEF StartReload
  <2>2. ~ Storing(Reading("replace", o, disk)) /\ mem' = mem /\ fate' = fate
    BY <1>4 DEF Reading, Locals, Storing, StartReload
  <2> QED
    BY <1>1, <2>1, <2>2
<1>5. CASE Forge(w) \/ Substitute(w)
  <2>1. PICK o, t, node : Attack(w, o, t, node)
    BY <1>5 DEF Forge, Substitute
  <2>2. ~ Storing(Tampering(o, t, mem.nodes[t]))
    BY DEF Tampering, Locals, Storing
  <2>3. Ids(mem'.nodes) = Ids(mem.nodes)
    BY <1>5, AttacksKeepKinds DEF SameKinds
  <2> QED
    BY <1>1, <2>1, <2>2, <2>3 DEF Attack
<1>6. CASE Regenerate(w)
  <2>1. ~ Storing(Rekeying("swap", keyFile + 1))
    BY DEF Rekeying, Locals, Storing
  <2> QED
    BY <1>1, <1>6, <2>1 DEF Regenerate
<1> QED
  BY <1>3, <1>4, <1>5, <1>6 DEF Accept

\* Every step keeps cleared ids out of all copies.
LEMMA ResetStep ==
  ASSUME Inv, Roles, KindsKept, OneAtATime, ResetInv, [Next]_vars
  PROVE  ResetInv'
<1>1. CopiesFollow
  BY StepMoves
<1>2. CASE Tick \/ UNCHANGED vars
  <2>1. mem' = mem /\ job' = job /\ fate' = fate /\ Copies' = Copies
    BY <1>2 DEF Tick, vars, Copies
  <2> QED
    BY <2>1 DEF ResetInv
<1>3. CASE Restart
  <2>1. /\ mem' \in {disk, EmptyGraph} /\ fate' = fate
        /\ \A w \in Worker : job'[w] = Idle
    BY <1>3 DEF Restart
  <2>2. \A g \in Copies \cup {mem', EmptyGraph} : Uncleared(g, fate')
    BY <2>1, EmptyUncleared, Known DEF ResetInv
  <2>3. \A w \in Worker : SavesMemory(job'[w], mem')
    BY <2>1, IdleShape DEF SavesMemory, Storing
  <2> QED
    BY <1>1, <2>2, <2>3 DEF CopiesFollow, ResetInv
<1> QED
  BY <1>1, <1>2, <1>3, ResetServe, ResetAccept DEF Next

\* Nothing is cleared at the start.
LEMMA ResetInit == Init => ResetInv
<1> SUFFICES ASSUME Init PROVE ResetInv
  OBVIOUS
<1>1. Copies = {EmptyGraph} /\ \A w \in Worker : job[w].pc = "idle"
  BY IdleShape DEF Init, Copies
<1> QED
  BY <1>1, EmptyUncleared DEF ResetInv, SavesMemory, Storing

\* When requests do not overlap, nothing a reset cleared comes back into the
\* file, whatever writes fail and wherever the process restarts (store.go 59-79,
\* server.go 442-455).
THEOREM ResetIsFinalAlways ==
  ASSUME OneAtATime
  PROVE  Spec => []ResetIsFinal
<1> DEFINE I == Inv /\ Roles /\ KindsKept /\ ResetInv
<1>1. Init => I
  BY InvInit, RolesInit, KindsInit, ResetInit
<1>2. I /\ [Next]_vars => I'
  BY InvStep, RolesStep, KindsStep, ResetStep
<1>3. I => ResetIsFinal
  BY Known DEF ResetInv, Uncleared, ResetIsFinal
<1> QED
  BY <1>1, <1>2, <1>3, PTL DEF Spec

-----------------------------------------------------------------------------
(***************************************************************************)
(* One request at a time, without faults: the file and the journal.        *)
(***************************************************************************)

\* The journal in memory is neither under attack nor ahead of the file.
Settled(j) == ~ HasBackup(j) /\ ~ Storing(j)

\* Nothing is forged, and every transaction is by a country that may make it.
Sound(g) ==
  /\ Unforged(g)
  /\ Authorised(g)
  /\ \A t \in Ids(g.nodes) : g.nodes[t].tx.issuer \in Country

\* The journal m in memory and the journal d in the file during a request with
\* the locals j.
FilesOf(j, m, d) ==
  /\ Settled(j) => m = d
  /\ HasBackup(j) =>
       /\ j.tx \in Ids(d.nodes) /\ j.tx \in Ids(m.nodes)
       /\ j.backup = d.nodes[j.tx]
       /\ m = PutNode(d, j.tx, m.nodes[j.tx])
  /\ Storing(j) =>
       /\ Sound(m)
       /\ j.op # "reset" => Ids(d.nodes) \subseteq Ids(m.nodes)
       /\ j.op \in {"issue", "revoke", "demo"} => j.tx \in Ids(m.nodes)
  /\ j.pc = "replace" => j.copy = d
  /\ j.pc = "append" /\ j.op # "issue" =>
       j.draft.issuer \in IssuersOf(d.nodes, j.draft.doc)

\* The keys k in memory and those f in their file.
KeysOf(j, k, f) == IF j.pc = "swap" THEN j.gen = f ELSE k = f

\* A reset that has cleared the journal left no answered id.
AnswersOf(j, f) ==
  j.op = "reset" /\ Storing(j) => \A t \in Tx : f[t] # "answered"

QuietInv ==
  /\ \A w \in Worker : /\ FilesOf(job[w], mem, disk)
                       /\ KeysOf(job[w], keys, keyFile)
                       /\ AnswersOf(job[w], fate)
  /\ Sound(disk)
  /\ \A t \in Tx : fate[t] = "answered" => t \in Ids(disk.nodes)

\* A step of the only worker.
LEMMA QuietMove ==
  ASSUME Inv, OneAtATime, NEW w \in Worker, NEW j,
         job' = [job EXCEPT ![w] = j],
         FilesOf(j, mem', disk'), KeysOf(j, keys', keyFile'),
         AnswersOf(j, fate'), Sound(disk'),
         \A t \in Tx : fate'[t] = "answered" => t \in Ids(disk'.nodes)
  PROVE  QuietInv'
  BY Alone DEF QuietInv

\* What a settled request sees.
LEMMA SettledState ==
  ASSUME QuietInv, NEW w \in Worker, Settled(job[w])
  PROVE  mem = disk
  BY DEF QuietInv, FilesOf

\* A step after which the journal in memory is that in the file, which it left
\* alone, and nobody was answered.
LEMMA QuietSettles ==
  ASSUME Inv, OneAtATime, QuietInv, NEW w \in Worker, NEW j,
         job' = [job EXCEPT ![w] = j], Settled(j),
         mem' = disk, disk' = disk, fate' = fate,
         KeysOf(j, keys', keyFile'),
         j.pc = "replace" => j.copy = disk,
         j.pc = "append" /\ j.op # "issue" =>
           j.draft.issuer \in IssuersOf(disk.nodes, j.draft.doc)
  PROVE  QuietInv'
<1>1. FilesOf(j, mem', disk')
  BY DEF FilesOf, Settled
<1>2. AnswersOf(j, fate')
  BY DEF AnswersOf, Settled
<1>3. Sound(disk') /\ \A t \in Tx : fate'[t] = "answered" => t \in Ids(disk'.nodes)
  BY DEF QuietInv
<1> QED
  BY <1>1, <1>2, <1>3, QuietMove

\* The end of a request that was settled.
LEMMA QuietFinish ==
  ASSUME Inv, OneAtATime, QuietInv, NEW w \in Worker, Settled(job[w]),
         job[w].pc # "swap", Finish(w),
         UNCHANGED <<mem, disk, keys, keyFile, fate>>
  PROVE  QuietInv'
<1>1. Settled(Idle) /\ KeysOf(Idle, keys', keyFile') /\ Idle.pc = "idle"
  BY IdleShape DEF Settled, HasBackup, Storing, KeysOf, QuietInv
<1> QED
  BY <1>1, SettledState, QuietSettles DEF Finish

\* The start of a request other than an attack.
LEMMA QuietStart ==
  ASSUME Inv, OneAtATime, QuietInv, NEW w \in Worker, NEW o, NEW j,
         Start(w, o, j), Settled(j), UNCHANGED <<mem, disk, fate>>,
         KeysOf(j, keys', keyFile'),
         j.pc = "replace" => j.copy = disk,
         j.pc = "append" => j.op = "issue"
  PROVE  QuietInv'
<1>1. job' = [job EXCEPT ![w] = j] /\ Settled(job[w])
  BY DEF Start, Settled, HasBackup, Storing
<1> QED
  BY <1>1, SettledState, QuietSettles

\* The roll-back puts the journal in memory back to that in the file.
LEMMA PutBack ==
  ASSUME NEW d \in Graph, NEW t \in Ids(d.nodes), NEW x
  PROVE  PutNode(PutNode(d, t, x), t, d.nodes[t]) = d
<1> DEFINE n == PutNode(PutNode(d, t, x), t, d.nodes[t])
<1>1. /\ n.nodes = [[d.nodes EXCEPT ![t] = x] EXCEPT ![t] = d.nodes[t]]
      /\ n = [nodes |-> n.nodes, events |-> d.events, votes |-> d.votes]
  BY DEF PutNode
<1>2. d = [nodes |-> d.nodes, events |-> d.events, votes |-> d.votes]
  BY DEF Graph
<1>3. d.nodes \in NodeMap
  BY DEF Graph
<1> HIDE DEF n
<1>4. n.nodes = d.nodes
  BY <1>1, <1>3 DEF NodeMap
<1>5. n = d
  BY <1>1, <1>2, <1>4
<1> QED
  BY <1>5 DEF n

\* The journal without nodes is sound.
LEMMA EmptySound == Sound(EmptyGraph)
  BY EmptyUnforged, EmptyGraphIds DEF Sound, Authorised, Revokes

\* A node that is added to a sound journal leaves it sound.
LEMMA AppendSound ==
  ASSUME Inv, Roles, KindsKept, QuietInv, NEW w \in Worker, AppendAccepts(w)
  PROVE  Sound(mem') /\ Ids(mem.nodes) \subseteq Ids(mem'.nodes)
<1>1. /\ job[w].pc = "append" /\ Settled(job[w])
      /\ job[w].draft.issuer \in Country
  BY DEF AppendAccepts, Acceptable, Settled, HasBackup, Storing
<1>2. mem = disk /\ Sound(mem)
  BY <1>1, SettledState DEF QuietInv
<1>3. Authorised(mem')
  BY <1>1, <1>2, AppendAuthorised DEF Sound, QuietInv, FilesOf
<1>4. PICK t \in Tx \ Ids(mem.nodes), body \in Body : Adds(w, t, body)
  BY AddIn
<1>5. body.issuer = job[w].draft.issuer
  BY <1>4 DEF Adds, Complete, NewDraft
<1>6. /\ Ids(mem'.nodes) = Ids(mem.nodes) \cup {t}
      /\ \A u \in Ids(mem.nodes) : mem'.nodes[u] = mem.nodes[u]
      /\ mem'.nodes[t].tx = body /\ mem'.nodes[t].hash.body = body
  BY <1>4 DEF Adds
<1>7. Unforged(mem')
  BY <1>2, <1>6 DEF Sound, Unforged, Intact
<1>8. \A u \in Ids(mem'.nodes) : mem'.nodes[u].tx.issuer \in Country
  BY <1>1, <1>2, <1>5, <1>6 DEF Sound
<1> QED
  BY <1>3, <1>6, <1>7, <1>8 DEF Sound

\* Adding a transaction.
LEMMA QuietAppend ==
  ASSUME Inv, Roles, KindsKept, OneAtATime, QuietInv, NEW w \in Worker,
         AppendAccepts(w)
  PROVE  QuietInv'
<1>1. PICK t \in Tx \ Ids(mem.nodes), body \in Body : Adds(w, t, body)
  BY AddIn
<1>2. /\ job' = [job EXCEPT ![w] = Persisting(job[w].op, t)]
      /\ t \in Ids(mem'.nodes)
      /\ fate' = [fate EXCEPT ![t] = "appended"]
  BY <1>1 DEF Adds
<1>3. UNCHANGED <<disk, keys, keyFile>>
  BY DEF AppendAccepts
<1>4. mem = disk /\ keys = keyFile
  <2>1. Settled(job[w]) /\ job[w].pc # "swap"
    BY DEF AppendAccepts, Settled, HasBackup, Storing
  <2> QED
    BY <2>1, SettledState DEF QuietInv, KeysOf
<1>5. Sound(mem') /\ Ids(mem.nodes) \subseteq Ids(mem'.nodes)
  BY AppendSound
<1>6. job[w].op # "reset"
  BY DEF AppendAccepts, Roles, RoleOf, OpsAt
<1> DEFINE j == Persisting(job[w].op, t)
<1>7. j.pc = "snapshot" /\ j.tx = t /\ j.op = job[w].op
  BY DEF Persisting, Locals
<1>8. job' = [job EXCEPT ![w] = j]
  BY <1>2
<1> HIDE DEF j
<1>9. FilesOf(j, mem', disk')
  BY <1>2, <1>3, <1>4, <1>5, <1>7 DEF FilesOf, Settled, HasBackup, Storing
<1>10. KeysOf(j, keys', keyFile') /\ AnswersOf(j, fate')
  BY <1>3, <1>4, <1>6, <1>7 DEF KeysOf, AnswersOf
<1>11. ASSUME NEW u \in Tx, fate'[u] = "answered"
       PROVE  u \in Ids(disk'.nodes)
  <2>1. fate[u] = "answered"
    BY <1>2, <1>11, Known
  <2> QED
    BY <1>3, <2>1 DEF QuietInv
<1> QED
  BY <1>3, <1>8, <1>9, <1>10, <1>11, QuietMove DEF QuietInv

\* The write that ends a request.
LEMMA QuietWrite ==
  ASSUME Inv, OneAtATime, ResetInv, QuietInv, NEW w \in Worker, Write(w)
  PROVE  QuietInv'
<1>1. /\ job' = [job EXCEPT ![w] = Idle] /\ mem' = mem
      /\ disk' = job[w].copy /\ fate' = Answered(w, TRUE)
      /\ UNCHANGED <<keys, keyFile>> /\ job[w].pc = "write"
  BY DEF Write, Finish
<1>2. disk' = mem
  BY <1>1 DEF ResetInv, SavesMemory
<1>3. /\ FilesOf(job[w], mem, disk) /\ KeysOf(job[w], keys, keyFile)
      /\ AnswersOf(job[w], fate) /\ Storing(job[w])
  BY <1>1 DEF QuietInv, Storing
<1>4. /\ FilesOf(Idle, mem', disk') /\ KeysOf(Idle, keys', keyFile')
      /\ AnswersOf(Idle, fate')
  BY <1>1, <1>2, <1>3, IdleShape
     DEF FilesOf, KeysOf, AnswersOf, Settled, HasBackup, Storing
<1>5. Sound(disk')
  BY <1>2, <1>3 DEF FilesOf
<1>6. ASSUME NEW t \in Tx, fate'[t] = "answered"
      PROVE  t \in Ids(disk'.nodes)
  <2>1. CASE job[w].op = "reset"
    BY <1>1, <1>3, <1>6, <2>1 DEF Answered, AnswersOf
  <2>2. CASE job[w].op # "reset" /\ fate[t] = "answered"
    BY <1>2, <1>3, <2>2 DEF FilesOf, QuietInv
  <2>3. CASE job[w].op # "reset" /\ fate[t] # "answered"
    <3>1. job[w].op \in {"issue", "revoke", "demo"} /\ t = job[w].tx
      BY <1>1, <1>6, <2>3 DEF Answered
    <3> QED
      BY <1>2, <1>3, <3>1 DEF FilesOf
  <2> QED
    BY <2>1, <2>2, <2>3
<1> QED
  BY <1>1, <1>4, <1>5, <1>6, QuietMove

\* The roll-back of a simulation.
LEMMA QuietRestore ==
  ASSUME Inv, Roles, OneAtATime, QuietInv, NEW w \in Worker, Restore(w)
  PROVE  QuietInv'
<1> DEFINE t == job[w].tx
           j == Persisting(job[w].op, NoTx)
<1>1. /\ job' = [job EXCEPT ![w] = j] /\ mem' = RolledBack(w)
      /\ UNCHANGED <<disk, keys, keyFile, fate>>
      /\ HasBackup(job[w]) /\ job[w].pc = "restore"
  BY DEF Restore, HasBackup
<1>2. /\ t \in Ids(disk.nodes) /\ t \in Ids(mem.nodes)
      /\ job[w].backup = disk.nodes[t]
      /\ mem = PutNode(disk, t, mem.nodes[t]) /\ keys = keyFile
  BY <1>1 DEF QuietInv, FilesOf, KeysOf
<1>3. mem' = PutNode(mem, t, disk.nodes[t])
  BY <1>1, <1>2 DEF RolledBack
<1>4. mem' = disk
  <2>1. disk \in Graph
    BY DEF Inv, TypeOK
  <2>2. PutNode(PutNode(disk, t, mem.nodes[t]), t, disk.nodes[t]) = disk
    BY <1>2, <2>1, PutBack
  <2> QED
    BY <1>2, <1>3, <2>2
<1>5. /\ j.pc = "snapshot" /\ j.op = job[w].op
      /\ j.op \in {"forge", "substitute"}
  BY <1>1 DEF Persisting, Locals, Roles, RoleOf, OpsAt
<1> HIDE DEF j, t
<1>6. Sound(disk)
  BY DEF QuietInv
<1>7. FilesOf(j, mem', disk')
  BY <1>1, <1>4, <1>5, <1>6 DEF FilesOf, Settled, HasBackup, Storing
<1>8. KeysOf(j, keys', keyFile') /\ AnswersOf(j, fate')
  BY <1>1, <1>2, <1>5 DEF KeysOf, AnswersOf
<1> QED
  BY <1>1, <1>7, <1>8, QuietMove DEF QuietInv

\* The change a simulation makes.
LEMMA QuietAttack ==
  ASSUME Inv, OneAtATime, QuietInv, NEW w \in Worker, NEW o,
         NEW t \in Ids(mem.nodes), NEW node \in Node, Attack(w, o, t, node)
  PROVE  QuietInv'
<1> DEFINE j == Tampering(o, t, mem.nodes[t])
<1>1. /\ job' = [job EXCEPT ![w] = j] /\ mem' = PutNode(mem, t, node)
      /\ UNCHANGED <<disk, keys, keyFile, fate>> /\ job[w].pc = "idle"
  BY DEF Attack, Start
<1>2. mem = disk /\ keys = keyFile
  <2>1. Settled(job[w])
    BY <1>1 DEF Settled, HasBackup, Storing
  <2> QED
    BY <1>1, <2>1, SettledState DEF QuietInv, KeysOf
<1>3. mem'.nodes[t] = node /\ Ids(mem'.nodes) = Ids(mem.nodes)
  BY <1>1, PutIn DEF Inv, TypeOK
<1>4. j.pc = "inspect" /\ j.tx = t /\ j.backup = mem.nodes[t]
  BY DEF Tampering, Locals
<1> HIDE DEF j
<1>5. FilesOf(j, mem', disk')
  BY <1>1, <1>2, <1>3, <1>4 DEF FilesOf, Settled, HasBackup, Storing
<1>6. KeysOf(j, keys', keyFile') /\ AnswersOf(j, fate')
  BY <1>1, <1>2, <1>4 DEF KeysOf, AnswersOf, Storing
<1> QED
  BY <1>1, <1>5, <1>6, QuietMove DEF QuietInv

\* A step that only moves the program counter within the attack, or takes the
\* copy to be saved.
LEMMA QuietOn ==
  ASSUME Inv, OneAtATime, QuietInv, NEW w \in Worker,
         Inspect(w) \/ TakeSnapshot(w)
  PROVE  QuietInv'
<1>1. job[w] \in Job
  BY Known
<1>2. UNCHANGED <<mem, disk, keys, keyFile, fate>>
  BY DEF Inspect, TakeSnapshot
<1>3. PICK j : /\ job' = [job EXCEPT ![w] = j]
               /\ j.op = job[w].op /\ j.tx = job[w].tx
               /\ j.backup = job[w].backup
               /\ \/ job[w].pc = "inspect" /\ j.pc = "restore"
                  \/ job[w].pc = "snapshot" /\ j.pc = "write"
  <2>1. CASE Inspect(w)
    <3> DEFINE i == [job[w] EXCEPT !.pc = "restore"]
    <3>1. /\ job' = [job EXCEPT ![w] = i]
          /\ i.op = job[w].op /\ i.tx = job[w].tx
          /\ i.backup = job[w].backup /\ i.pc = "restore"
      BY <1>1, <2>1 DEF Inspect, Goto, Job
    <3> HIDE DEF i
    <3> QED
      BY <2>1, <3>1 DEF Inspect
  <2>2. CASE TakeSnapshot(w)
    <3> DEFINE i == [job[w] EXCEPT !.pc = "write", !.copy = mem]
    <3>1. /\ job' = [job EXCEPT ![w] = i]
          /\ i.op = job[w].op /\ i.tx = job[w].tx
          /\ i.backup = job[w].backup /\ i.pc = "write"
      BY <1>1, <2>2 DEF TakeSnapshot, Job
    <3> HIDE DEF i
    <3> QED
      BY <2>2, <3>1 DEF TakeSnapshot
  <2> QED
    BY <2>1, <2>2
<1>4. /\ FilesOf(job[w], mem, disk) /\ KeysOf(job[w], keys, keyFile)
      /\ AnswersOf(job[w], fate)
  BY DEF QuietInv
<1>5. FilesOf(j, mem', disk')
  BY <1>2, <1>3, <1>4 DEF FilesOf, Settled, HasBackup, Storing
<1>6. KeysOf(j, keys', keyFile') /\ AnswersOf(j, fate')
  BY <1>2, <1>3, <1>4 DEF KeysOf, AnswersOf, Storing
<1> QED
  BY <1>2, <1>3, <1>5, <1>6, QuietMove DEF QuietInv

\* A reset empties the journal.
LEMMA QuietClear ==
  ASSUME Inv, OneAtATime, QuietInv, NEW w \in Worker, Clear(w)
  PROVE  QuietInv'
<1> DEFINE j == Persisting("reset", NoTx)
<1>1. /\ job' = [job EXCEPT ![w] = j] /\ mem' = EmptyGraph
      /\ UNCHANGED <<disk, keys, keyFile>> /\ job[w].pc = "clear"
      /\ fate' = [t \in Tx |-> IF t \in Ids(mem.nodes) THEN "clearing"
                                                       ELSE fate[t]]
  BY DEF Clear
<1>2. mem = disk /\ keys = keyFile
  <2>1. Settled(job[w])
    BY <1>1 DEF Settled, HasBackup, Storing
  <2> QED
    BY <1>1, <2>1, SettledState DEF QuietInv, KeysOf
<1>3. \A t \in Tx : fate'[t] # "answered"
  BY <1>1, <1>2 DEF QuietInv
<1>4. j.pc = "snapshot" /\ j.op = "reset"
  BY DEF Persisting, Locals
<1> HIDE DEF j
<1>5. FilesOf(j, mem', disk')
  BY <1>1, <1>4, EmptySound DEF FilesOf, Settled, HasBackup, Storing
<1>6. KeysOf(j, keys', keyFile') /\ AnswersOf(j, fate')
  BY <1>1, <1>2, <1>3, <1>4 DEF KeysOf, AnswersOf
<1> QED
  BY <1>1, <1>3, <1>5, <1>6, QuietMove DEF QuietInv

\* The steps of a request.
LEMMA QuietServe ==
  ASSUME Inv, Roles, KindsKept, OneAtATime, ~ FaultyIO, ResetInv, QuietInv,
         NEW w \in Worker, Serve(w)
  PROVE  QuietInv'
<1>1. /\ job[w] \in Job
      /\ FilesOf(job[w], mem, disk) /\ KeysOf(job[w], keys, keyFile)
  BY Known DEF QuietInv
<1>2. CASE CheckRefuses(w) \/ AppendRefuses(w) \/ Report(w)
  <2>1. /\ Settled(job[w]) /\ job[w].pc # "swap" /\ Finish(w)
        /\ UNCHANGED <<mem, disk, keys, keyFile, fate>>
    BY <1>2 DEF CheckRefuses, AppendRefuses, Report, Settled, HasBackup, Storing
  <2> QED
    BY <2>1, QuietFinish
<1>3. CASE CheckPasses(w)
  <2> DEFINE j == [job[w] EXCEPT !.pc = "append"]
  <2>1. /\ job' = [job EXCEPT ![w] = j] /\ j.pc = "append"
        /\ j.draft = job[w].draft
    BY <1>1, <1>3 DEF CheckPasses, Goto, Job
  <2> HIDE DEF j
  <2>2. /\ UNCHANGED <<mem, disk, keys, keyFile, fate>>
        /\ job[w].pc = "check" /\ Settled(job[w]) /\ Settled(j)
        /\ job[w].draft.issuer \in IssuersOf(mem.nodes, job[w].draft.doc)
    BY <1>3, <2>1 DEF CheckPasses, Settled, HasBackup, Storing
  <2>3. mem = disk /\ KeysOf(j, keys', keyFile')
    BY <1>1, <2>1, <2>2, SettledState DEF KeysOf
  <2> QED
    BY <2>1, <2>2, <2>3, QuietSettles
<1>4. CASE AppendAccepts(w)
  BY <1>4, QuietAppend
<1>5. CASE TakeSnapshot(w) \/ Inspect(w)
  BY <1>5, QuietOn
<1>6. CASE Write(w)
  BY <1>6, QuietWrite
<1>7. CASE Replace(w)
  <2>1. PICK j \in {Idle, Reading("report", "validate", EmptyGraph)} :
          job' = [job EXCEPT ![w] = j]
    BY <1>7 DEF Replace
  <2>2. j.pc \in {"idle", "report"}
    BY IdleShape DEF Reading, Locals
  <2>3. /\ UNCHANGED <<disk, keys, keyFile, fate>>
        /\ job[w].pc = "replace" /\ mem' = job[w].copy
    BY <1>7 DEF Replace
  <2>4. mem' = disk /\ Settled(j) /\ KeysOf(j, keys', keyFile')
    BY <1>1, <2>2, <2>3 DEF FilesOf, KeysOf, Settled, HasBackup, Storing
  <2> QED
    BY <2>1, <2>2, <2>3, <2>4, QuietSettles
<1>8. CASE Restore(w)
  BY <1>8, QuietRestore
<1>9. CASE SwapKeys(w)
  <2> DEFINE j == [job[w] EXCEPT !.pc = "clear"]
  <2>1. job' = [job EXCEPT ![w] = j] /\ j.pc = "clear"
    BY <1>1, <1>9 DEF SwapKeys, Goto, Job
  <2> HIDE DEF j
  <2>2. /\ UNCHANGED <<mem, disk, keyFile, fate>> /\ keys' = job[w].gen
        /\ job[w].pc = "swap" /\ Settled(job[w]) /\ Settled(j)
    BY <1>9, <2>1 DEF SwapKeys, Settled, HasBackup, Storing
  <2>3. mem = disk /\ KeysOf(j, keys', keyFile')
    BY <1>1, <2>1, <2>2, SettledState DEF KeysOf
  <2> QED
    BY <2>1, <2>2, <2>3, QuietSettles
<1>10. CASE Clear(w)
  BY <1>10, QuietClear
<1>11. ~ WriteFails(w)
  BY DEF WriteFails
<1> QED
  BY <1>2, <1>3, <1>4, <1>5, <1>6, <1>7, <1>8, <1>9, <1>10, <1>11 DEF Serve

\* A new request.
LEMMA QuietAccept ==
  ASSUME Inv, OneAtATime, QuietInv, NEW w \in Worker, Accept(w)
  PROVE  QuietInv'
<1>1. job[w].pc = "idle" => keys = keyFile
  BY DEF QuietInv, KeysOf
<1>2. ASSUME NEW pc \in {"check", "append"}, NEW o, NEW draft, NEW ps,
             Start(w, o, Drafting(pc, o, draft, ps)), pc = "append" => o = "issue",
             UNCHANGED <<mem, disk, keys, keyFile, fate>>
      PROVE  QuietInv'
  <2> DEFINE j == Drafting(pc, o, draft, ps)
  <2>1. Start(w, o, j) /\ j.pc = pc /\ j.op = o /\ job[w].pc = "idle"
    BY <1>2 DEF Drafting, Locals, Start
  <2> HIDE DEF j
  <2>2. Settled(j) /\ KeysOf(j, keys', keyFile')
    BY <1>1, <1>2, <2>1 DEF Settled, HasBackup, Storing, KeysOf
  <2> QED
    BY <1>2, <2>1, <2>2, QuietStart
<1>3. CASE StartIssue(w)
  BY <1>2, <1>3 DEF StartIssue
<1>4. CASE StartRevoke(w)
  BY <1>2, <1>4 DEF StartRevoke
<1>5. CASE StartDemo(w)
  BY <1>2, <1>5 DEF StartDemo
<1>6. CASE StartReload(w)
  <2>1. PICK o : /\ Start(w, o, Reading("replace", o, disk))
                 /\ UNCHANGED <<mem, disk, keys, keyFile, fate>>
    BY <1>6 DEF StartReload
  <2> DEFINE j == Reading("replace", o, disk)
  <2>2. Start(w, o, j) /\ j.pc = "replace" /\ j.copy = disk
          /\ job[w].pc = "idle"
    BY <2>1 DEF Reading, Locals, Start
  <2> HIDE DEF j
  <2>3. Settled(j) /\ KeysOf(j, keys', keyFile')
    BY <1>1, <2>1, <2>2 DEF Settled, HasBackup, Storing, KeysOf
  <2> QED
    BY <2>1, <2>2, <2>3, QuietStart
<1>7. mem.nodes \in NodeMap
  BY DEF Inv, TypeOK, Graph
<1>8. CASE Forge(w)
  <2>1. PICK t \in Ids(mem.nodes), h \in DocHash :
          Attack(w, "forge", t, [mem.nodes[t] EXCEPT !.tx.hash = h])
    BY <1>8 DEF Forge
  <2>2. [mem.nodes[t] EXCEPT !.tx.hash = h] \in Node
    BY <1>7 DEF Ids, NodeMap, Node, Body
  <2> QED
    BY <2>1, <2>2, QuietAttack
<1>9. CASE Substitute(w)
  <2>1. PICK t \in Ids(mem.nodes), c \in Country \cup Foreign :
          Attack(w, "substitute", t, [mem.nodes[t] EXCEPT !.tx.issuer = c])
    BY <1>9 DEF Substitute
  <2>2. [mem.nodes[t] EXCEPT !.tx.issuer = c] \in Node
    BY <1>7 DEF Ids, NodeMap, Node, Body
  <2> QED
    BY <2>1, <2>2, QuietAttack
<1>10. CASE Regenerate(w)
  <2> DEFINE j == Rekeying("swap", keyFile + 1)
  <2>1. /\ Start(w, "reset", j) /\ keyFile' = keyFile + 1
        /\ UNCHANGED <<mem, disk, keys, fate>>
    BY <1>10 DEF Regenerate
  <2>2. j.pc = "swap" /\ j.gen = keyFile + 1
    BY DEF Rekeying, Locals
  <2> HIDE DEF j
  <2>3. Settled(j) /\ KeysOf(j, keys', keyFile')
    BY <2>1, <2>2 DEF Settled, HasBackup, Storing, KeysOf
  <2> QED
    BY <2>1, <2>2, <2>3, QuietStart
<1> QED
  BY <1>3, <1>4, <1>5, <1>6, <1>8, <1>9, <1>10 DEF Accept

\* Every step keeps the file and the journal together.
LEMMA QuietNext ==
  ASSUME Inv, Roles, KindsKept, OneAtATime, ~ FaultyIO, ResetInv, QuietInv,
         [Next]_vars
  PROVE  QuietInv'
<1>1. CASE Tick \/ UNCHANGED vars
  <2>1. UNCHANGED <<mem, disk, keys, keyFile, job, fate>>
    BY <1>1 DEF Tick, vars
  <2> QED
    BY <2>1 DEF QuietInv
<1>2. CASE Restart
  <2>1. /\ mem' = disk /\ disk' = disk /\ keys' = keyFile
        /\ keyFile' = keyFile /\ fate' = fate
        /\ \A w \in Worker : job'[w] = Idle
    BY <1>2 DEF Restart
  <2>2. /\ FilesOf(Idle, mem', disk') /\ KeysOf(Idle, keys', keyFile')
        /\ AnswersOf(Idle, fate')
    BY <2>1, IdleShape
       DEF FilesOf, KeysOf, AnswersOf, Settled, HasBackup, Storing
  <2> QED
    BY <2>1, <2>2 DEF QuietInv
<1> QED
  BY <1>1, <1>2, QuietServe, QuietAccept DEF Next

\* At the start both are empty.
LEMMA QuietInit == Init => QuietInv
<1> SUFFICES ASSUME Init PROVE QuietInv
  OBVIOUS
<1>1. /\ mem = EmptyGraph /\ disk = EmptyGraph /\ keys = 0 /\ keyFile = 0
      /\ \A w \in Worker : job[w] = Idle
      /\ \A t \in Tx : fate[t] = "unused"
  BY DEF Init
<1>2. /\ FilesOf(Idle, mem, disk) /\ KeysOf(Idle, keys, keyFile)
      /\ AnswersOf(Idle, fate)
  BY <1>1, IdleShape DEF FilesOf, KeysOf, AnswersOf, Settled, HasBackup, Storing
<1> QED
  BY <1>1, <1>2, EmptySound DEF QuietInv

\* What holds in every reachable state when requests do not overlap and nothing
\* fails but the process.
SequentialInv == Inv /\ Roles /\ KindsKept /\ ResetInv /\ QuietInv

\* It is an invariant.
LEMMA SequentialHolds ==
  ASSUME OneAtATime, ~ FaultyIO
  PROVE  Spec => []SequentialInv
<1>1. Init => SequentialInv
  BY InvInit, RolesInit, KindsInit, ResetInit, QuietInit DEF SequentialInv
<1>2. SequentialInv /\ [Next]_vars => SequentialInv'
  BY InvStep, RolesStep, KindsStep, ResetStep, QuietNext DEF SequentialInv
<1> QED
  BY <1>1, <1>2, PTL DEF Spec

\* A transaction whose client was told that it is accepted is in the file until
\* a reset clears it, wherever the process restarts, when requests do not overlap
\* and writes do not fail (store.go 175-184, server.go 297-312).
THEOREM AnsweredOnDiskAlways ==
  ASSUME OneAtATime, ~ FaultyIO
  PROVE  Spec => []AnsweredOnDisk
<1>1. SequentialInv => AnsweredOnDisk
  BY DEF SequentialInv, QuietInv, AnsweredOnDisk
<1> QED
  BY <1>1, SequentialHolds, PTL

\* A node of a sound and well-formed journal that was signed with the present
\* keys passes the checks of the validation.
LEMMA SoundIsIntact ==
  ASSUME NEW g \in Graph, WellFormed(g), Sound(g), NEW k,
         NEW t \in Ids(g.nodes), g.nodes[t].sig.key = k
  PROVE  NodeIntact(g.nodes, t, k)
<1> DEFINE node == g.nodes[t]
<1>1. node \in Node
  BY DEF Ids, Graph, NodeMap
<1>2. /\ node.hash = [body |-> node.sig.body, parents |-> node.parents]
      /\ KnownParents(g.nodes, node.parents)
  BY DEF WellFormed, Sealed, ComputeNodeHash, ParentsPresent
<1>3. node.tx = node.hash.body /\ node.tx.issuer \in Country
  BY DEF Sound, Unforged, Intact
<1> HIDE DEF node
<1>4. node.sig.body = node.tx
  BY <1>2, <1>3
<1>5. node.sig = [key |-> k, body |-> node.tx]
  <2>1. node.sig \in [key : Nat, body : Body] /\ node.sig.key = k
    BY <1>1 DEF Node, node
  <2> QED
    BY <1>4, <2>1
<1>6. VerifyTransaction(node, k)
  BY <1>3, <1>5 DEF VerifyTransaction
<1>7. node.hash = ComputeNodeHash(node.tx, node.parents)
  BY <1>2, <1>4 DEF ComputeNodeHash
<1> QED
  BY <1>2, <1>6, <1>7 DEF NodeIntact, node

\* A country that issued a document first, with no other beside it, is the one
\* issuer the validation can find.
LEMMA UntiedIssuer ==
  ASSUME NEW nodes, NEW d, NEW c \in IssuersOf(nodes, d), ~ IssuerTied(nodes, d)
  PROVE  IssuersOf(nodes, d) = {c}
  BY DEF IssuerTied

\* Between requests that do not overlap the file is the journal in memory, the
\* key file holds the keys in memory, and the validation cannot report an error
\* unless there are signatures by older keys or a revoke of a document with tied
\* issuers, where it need not; whatever was cut short by a restart before
\* (store.go 37-53, 498-577, server.go 437-451).
THEOREM QuietIsSoundAlways ==
  ASSUME OneAtATime, ~ FaultyIO
  PROVE  Spec => []QuietIsSound
<1>1. SequentialInv => QuietIsSound
  <2> SUFFICES ASSUME SequentialInv, AllIdle
               PROVE  /\ mem = disk
                      /\ keys = keyFile
                      /\ \/ \E t \in Ids(mem.nodes) : mem.nodes[t].sig.key # keys
                         \/ ~ ValidateCanFail(mem.nodes, keys)
                         \/ /\ ValidateCanPass(mem.nodes, keys)
                            /\ \E t \in Revokes(mem.nodes) :
                                 IssuerTied(mem.nodes, mem.nodes[t].tx.doc)
    BY DEF QuietIsSound
  <2>1. PICK w \in Worker : job[w].pc = "idle"
    BY DEF OneAtATime, AllIdle
  <2>2. mem = disk /\ keys = keyFile
    <3>1. Settled(job[w])
      BY <2>1 DEF Settled, HasBackup, Storing
    <3> QED
      BY <2>1, <3>1, SettledState DEF SequentialInv, QuietInv, KeysOf
  <2>3. mem \in Graph /\ WellFormed(mem) /\ Sound(mem)
    BY <2>2, Known DEF SequentialInv, QuietInv, Inv, TypeOK, CopiesWellFormed
  <2>4. ASSUME \A t \in Ids(mem.nodes) : mem.nodes[t].sig.key = keys
        PROVE  \/ ~ ValidateCanFail(mem.nodes, keys)
               \/ /\ ValidateCanPass(mem.nodes, keys)
                  /\ \E t \in Revokes(mem.nodes) :
                       IssuerTied(mem.nodes, mem.nodes[t].tx.doc)
    <3>1. \A t \in Ids(mem.nodes) : NodeIntact(mem.nodes, t, keys)
      BY <2>3, <2>4, SoundIsIntact
    <3>2. \A t \in Revokes(mem.nodes) :
            mem.nodes[t].tx.issuer \in IssuersOf(mem.nodes, mem.nodes[t].tx.doc)
      BY <2>3 DEF Sound, Authorised
    <3>3. ValidateCanPass(mem.nodes, keys)
      BY <3>1, <3>2 DEF ValidateCanPass
    <3>4. CASE \E t \in Revokes(mem.nodes) :
                 IssuerTied(mem.nodes, mem.nodes[t].tx.doc)
      BY <3>3, <3>4
    <3>5. CASE \A t \in Revokes(mem.nodes) :
                 ~ IssuerTied(mem.nodes, mem.nodes[t].tx.doc)
      <4>1. \A t \in Revokes(mem.nodes) :
              IssuersOf(mem.nodes, mem.nodes[t].tx.doc) = {mem.nodes[t].tx.issuer}
        BY <3>2, <3>5, UntiedIssuer
      <4> QED
        BY <3>1, <4>1 DEF ValidateCanFail
    <3> QED
      BY <3>4, <3>5
  <2> QED
    BY <2>2, <2>4
<1> QED
  BY <1>1, SequentialHolds, PTL

\* When requests do not overlap and writes do not fail, only a reset takes a node
\* out of the file (store.go 175-184, persistence.go 186-205).
THEOREM FileNeverShrinksAlways ==
  ASSUME OneAtATime, ~ FaultyIO
  PROVE  Spec => FileNeverShrinks
<1>1. SequentialInv /\ [Next]_vars =>
        [(\A w \in Worker : job[w].op # "reset")
           => Ids(disk.nodes) \subseteq Ids(disk'.nodes)]_vars
  <2> SUFFICES ASSUME SequentialInv, [Next]_vars,
                      \A w \in Worker : job[w].op # "reset"
               PROVE  Ids(disk.nodes) \subseteq Ids(disk'.nodes)
    OBVIOUS
  <2>1. ASSUME NEW w \in Worker, Write(w)
        PROVE  Ids(disk.nodes) \subseteq Ids(disk'.nodes)
    <3>1. disk' = mem /\ Storing(job[w])
      BY <2>1 DEF Write, SequentialInv, ResetInv, SavesMemory, Storing
    <3> QED
      BY <3>1 DEF SequentialInv, QuietInv, FilesOf
  <2>2. ASSUME NEW w \in Worker, Serve(w), ~ Write(w)
        PROVE  disk' = disk
    BY <2>2
       DEF Serve, CheckPasses, CheckRefuses, AppendAccepts, AppendRefuses,
           TakeSnapshot, WriteFails, Replace, Report, Inspect, Restore, SwapKeys,
           Clear
  <2>3. ASSUME NEW w \in Worker, Accept(w)
        PROVE  disk' = disk
    BY <2>3
       DEF Accept, StartIssue, StartRevoke, StartDemo, StartReload, Forge,
           Substitute, Attack, Regenerate
  <2>4. CASE Tick \/ Restart \/ UNCHANGED vars
    BY <2>4 DEF Tick, Restart, vars
  <2> QED
    BY <2>1, <2>2, <2>3, <2>4 DEF Next
<1> QED
  BY <1>1, SequentialHolds, PTL DEF Spec, FileNeverShrinks

=============================================================================
