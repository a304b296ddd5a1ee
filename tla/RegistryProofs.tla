--------------------------- MODULE RegistryProofs ---------------------------
(***************************************************************************)
(* The registry of documents, for any number of requests at once, with     *)
(* failures and restarts: its entries are those of the journal.            *)
(*                                                                         *)
(* A registry that was read long ago may be written at any time, and a     *)
(* journal that was copied long ago may become the file and then the       *)
(* memory.  So the invariant is about every registry and every journal     *)
(* there is, and about what a request between its append and its last      *)
(* write will put into an entry.  A new transaction disturbs none of it    *)
(* because its id is greater than every id there is.                       *)
(***************************************************************************)
EXTENDS Registry, TLAPS, WellFoundedInduction

\* The journals that may become the memory.
Journals == {chain, chainFile} \cup {clerk[w].copy : w \in Worker}

Matching(content) ==
  \A part \in {content.document, content.metadata} :
    part.payload # Absent => part.digest = HashOf[part.payload]

\* The steps of a request whose transaction is in the journal.
Entering == {"copy", "save", "read", "put"}

\* What request k says of document d is what journal c says of its transaction.
OwnFits(k, c) ==
  k.pc \in Entering /\ k.request \in LastAction =>
    \A i \in DOMAIN c :
      c[i].tx = k.tx =>
        /\ c[i].doc = k.doc
        /\ c[i].action = k.request
        /\ k.request = "issue" => c[i].digest = k.content.document.digest

\* What the entries of registry f say is what journal c says of their
\* transactions.
EntriesFit(f, c) ==
  \A d \in Document : f[d] # Absent =>
    \A i \in DOMAIN c :
      c[i].tx = f[d].lastTx =>
        /\ c[i].doc = d
        /\ c[i].action = f[d].lastAction
        /\ f[d].lastAction = "issue" =>
             c[i].digest = f[d].content.document.digest

\* A request has drawn its id, knows its document, and what it issues is
\* consistent.
PlausibleClerk(k) ==
  /\ k.tx <= drawn
  /\ k.pc \in {"check", "append"} => k.request # "reset"
  /\ k.pc \in {"clear", "blank"} => k.request = "reset"
  /\ k.pc # "idle" /\ k.request # "reset" => k.doc \in Document
  /\ k.pc # "idle" /\ k.request = "issue" =>
       k.content \in Content /\ Matching(k.content)

Drawn(f, c) ==
  /\ \A d \in Document : f[d] # Absent => f[d].lastTx <= drawn
  /\ \A i \in DOMAIN c : c[i].tx <= drawn

\* Everything is drawn, and fits every journal.
AllFit ==
  \A c \in Journals :
    /\ \A f \in Registries : EntriesFit(f, c) /\ Drawn(f, c)
    /\ \A w \in Worker : OwnFits(clerk[w], c)

RegistryInv ==
  /\ RegistryTypeOK
  /\ \A w \in Worker : PlausibleClerk(clerk[w])
  /\ PayloadsMatch
  /\ AllFit

-----------------------------------------------------------------------------

\* PayloadsMatch of one registry.
PayloadsIn(f) == \A d \in Document : f[d] # Absent => Matching(f[d].content)

\* The property is that of every registry.
LEMMA PayloadsInAll == PayloadsMatch <=> \A f \in Registries : PayloadsIn(f)
BY DEF PayloadsMatch, PayloadsIn, Matching

\* The sets the invariant is about hold what their types say.
LEMMA RegistryFacts ==
  ASSUME RegistryInv
  PROVE  /\ drawn \in Nat /\ undisturbed \in BOOLEAN /\ inStep \in BOOLEAN
         /\ clerk \in [Worker -> Clerk]
         /\ Journals \subseteq Seq(Entered)
         /\ Registries \subseteq Registered
         /\ chain \in Journals /\ chainFile \in Journals
         /\ docs \in Registries
         /\ \A w \in Worker : /\ clerk[w] \in Clerk
                              /\ clerk[w].copy \in Journals
                              /\ clerk[w].file \in Registries
                              /\ PlausibleClerk(clerk[w])
BY DEF RegistryInv, RegistryTypeOK, Journals, Registries, Clerk

\* Nothing disagrees with a registry without entries.
LEMMA NothingFits ==
  /\ NothingStored \in Registered
  /\ PayloadsIn(NothingStored)
  /\ RegistryInv =>
       \A c \in Journals : EntriesFit(NothingStored, c) /\ Drawn(NothingStored, c)
<1>1. NothingStored \in Registered /\ \A d \in Document : NothingStored[d] = Absent
  BY DEF NothingStored, Registered
<1> QED
  BY <1>1 DEF PayloadsIn, EntriesFit, Drawn, RegistryInv, AllFit, Registries

\* What is left to show of a step of one request that appends no transaction: it
\* may move journals and registries around, and add registry f.
LEMMA ClerkStep ==
  ASSUME RegistryInv, NEW w \in Worker, NEW k \in Clerk,
         clerk' = [clerk EXCEPT ![w] = k],
         chain' \in Journals \cup {<<>>},
         chainFile' \in Journals \cup {<<>>},
         k.copy \in Journals \cup {<<>>},
         NEW f \in Registered, PayloadsIn(f),
         \A c \in Journals : EntriesFit(f, c) /\ Drawn(f, c),
         docs' \in Registries \cup {f},
         k.file \in Registries \cup {f},
         drawn' = drawn, undisturbed' \in BOOLEAN, inStep' \in BOOLEAN,
         PlausibleClerk(k),
         k.pc \in Entering /\ k.request \in LastAction =>
           /\ clerk[w].pc \in Entering
           /\ clerk[w].request = k.request
           /\ clerk[w].doc = k.doc
           /\ clerk[w].content = k.content
           /\ clerk[w].tx = k.tx
  PROVE  RegistryInv'
<1>1. /\ clerk' \in [Worker -> Clerk]
      /\ clerk'[w] = k
      /\ \A v \in Worker \ {w} : clerk'[v] = clerk[v]
  BY RegistryFacts
<1>2. Journals' \subseteq Journals \cup {<<>>}
  <2>1. \A v \in Worker : clerk'[v].copy \in Journals \cup {<<>>}
    BY <1>1, RegistryFacts
  <2> QED
    BY <2>1 DEF Journals
<1>3. Registries' \subseteq Registries \cup {f}
  <2>1. \A v \in Worker : clerk'[v].file \in Registries \cup {f}
    BY <1>1, RegistryFacts
  <2> QED
    BY <2>1 DEF Registries
<1>4. RegistryTypeOK'
  <2>1. Journals \cup {<<>>} \subseteq Seq(Entered)
    <3>1. <<>> \in Seq(Entered)
      OBVIOUS
    <3>2. Journals \subseteq Seq(Entered)
      BY RegistryFacts
    <3> QED
      BY <3>1, <3>2
  <2>2. chain' \in Seq(Entered) /\ chainFile' \in Seq(Entered)
    BY <2>1
  <2>3. docs' \in Registered
    BY RegistryFacts
  <2> QED
    BY <1>1, <2>2, <2>3, RegistryFacts DEF RegistryTypeOK
<1>5. ASSUME NEW v \in Worker
      PROVE  PlausibleClerk(clerk[v])'
  <2>1. PlausibleClerk(clerk'[v])
    BY <1>1, RegistryFacts
  <2> QED
    BY <2>1 DEF PlausibleClerk
<1>6. PayloadsMatch'
  <2>1. \A g \in Registries : PayloadsIn(g)
    BY PayloadsInAll DEF RegistryInv
  <2> QED
    BY <1>3, <2>1 DEF PayloadsMatch, PayloadsIn, Matching
<1>7. ASSUME NEW c \in Journals', NEW g \in Registries'
      PROVE  EntriesFit(g, c) /\ Drawn(g, c)
  <2>1. CASE c \in Journals
    BY <1>3, <2>1 DEF RegistryInv, AllFit
  <2>2. CASE c = <<>>
    <3>1. Drawn(g, chain)
      BY <1>3, RegistryFacts DEF RegistryInv, AllFit
    <3> QED
      BY <2>2, <3>1 DEF EntriesFit, Drawn
  <2> QED
    BY <1>2, <2>1, <2>2
<1>8. ASSUME NEW c \in Journals', NEW v \in Worker
      PROVE  OwnFits(clerk'[v], c)
  <2>1. CASE c \in Journals
    <3>1. OwnFits(clerk[v], c)
      BY <2>1 DEF RegistryInv, AllFit
    <3>2. CASE v = w
      BY <1>1, <3>1, <3>2 DEF OwnFits
    <3>3. CASE v # w
      BY <1>1, <3>1, <3>3
    <3> QED
      BY <3>2, <3>3
  <2>2. CASE c = <<>>
    BY <2>2 DEF OwnFits
  <2> QED
    BY <1>2, <2>1, <2>2
<1>9. AllFit'
  BY <1>7, <1>8 DEF AllFit, EntriesFit, Drawn, OwnFits
<1> QED
  BY <1>4, <1>5, <1>6, <1>9 DEF RegistryInv

-----------------------------------------------------------------------------

LEMMA RegistryInvInit == RegistryInit => RegistryInv
<1> SUFFICES ASSUME RegistryInit PROVE RegistryInv
  OBVIOUS
<1>1. /\ Journals \subseteq {<<>>}
      /\ Registries \subseteq {NothingStored}
      /\ \A w \in Worker : clerk[w] = Unoccupied
  BY DEF RegistryInit, Journals, Registries, Unoccupied
<1>2. Unoccupied \in Clerk
  BY NothingFits DEF Unoccupied, Clerk
<1>3. RegistryTypeOK
  BY <1>2, NothingFits DEF RegistryInit, RegistryTypeOK
<1>4. \A w \in Worker : PlausibleClerk(clerk[w])
  BY <1>1 DEF PlausibleClerk, Unoccupied, RegistryInit
<1>5. PayloadsMatch
  BY <1>1, NothingFits, PayloadsInAll
<1>6. AllFit
  BY <1>1 DEF AllFit, EntriesFit, Drawn, OwnFits, Unoccupied, NothingStored,
              Entering
<1> QED
  BY <1>3, <1>4, <1>5, <1>6 DEF RegistryInv

\* A request ends, with its registry, or none, in the file.
LEMMA LeaveStep ==
  ASSUME RegistryInv, NEW w \in Worker, Leave(w), chain' = chain,
         chainFile' \in Journals,
         docs' \in Registries \cup {NothingStored},
         drawn' = drawn, undisturbed' \in BOOLEAN, inStep' \in BOOLEAN
  PROVE  RegistryInv'
<1>1. Unoccupied \in Clerk
  BY NothingFits DEF Unoccupied, Clerk
<1>2. PlausibleClerk(Unoccupied)
  BY RegistryFacts DEF PlausibleClerk, Unoccupied
<1>3. /\ Unoccupied.copy = <<>>
      /\ Unoccupied.file = NothingStored
      /\ Unoccupied.pc \notin Entering
  BY DEF Unoccupied, Entering
<1>4. clerk' = [clerk EXCEPT ![w] = Unoccupied]
  BY DEF Leave
<1> HIDE DEF Unoccupied, NothingStored
<1> QED
  BY <1>1, <1>2, <1>3, <1>4, NothingFits, RegistryFacts, ClerkStep

\* A request goes on, with a journal in memory or in the file that was one
\* before.
LEMMA ProceedStep ==
  ASSUME RegistryInv, NEW w \in Worker, NEW pc, Proceed(w, pc),
         pc \in {"append", "copy", "save", "read", "blank"},
         clerk[w].pc # "idle",
         pc = "append" => clerk[w].pc = "check",
         pc = "blank" => clerk[w].request = "reset",
         pc \in Entering /\ clerk[w].request \in LastAction =>
           clerk[w].pc \in Entering,
         chain' \in Journals \cup {<<>>}, chainFile' \in Journals,
         docs' = docs,
         drawn' = drawn, undisturbed' \in BOOLEAN, inStep' \in BOOLEAN
  PROVE  RegistryInv'
<1> DEFINE k == [clerk[w] EXCEPT !.pc = pc]
<1>1. /\ k \in Clerk
      /\ k.pc = pc
      /\ k.request = clerk[w].request /\ k.doc = clerk[w].doc
      /\ k.content = clerk[w].content /\ k.tx = clerk[w].tx
      /\ k.copy = clerk[w].copy /\ k.file = clerk[w].file
  BY RegistryFacts DEF Clerk
<1>2. clerk' = [clerk EXCEPT ![w] = k]
  BY RegistryFacts DEF Proceed
<1> HIDE DEF k
<1>3. PlausibleClerk(k)
  BY <1>1, RegistryFacts DEF PlausibleClerk
<1> QED
  BY <1>1, <1>2, <1>3, NothingFits, RegistryFacts, ClerkStep

\* A request takes a free worker.
LEMMA EngageStep ==
  ASSUME RegistryInv, NEW w \in Worker, NEW pc, NEW request, NEW d, NEW content,
         Engage(w, pc, request, d, content),
         \/ /\ pc = "append" /\ request = "issue" /\ d \in Document
            /\ content \in Content /\ Matching(content)
         \/ /\ pc = "check" /\ request \in {"revoke", "demo"}
            /\ d \in Document /\ content = Absent
         \/ pc = "clear" /\ request = "reset" /\ d = Absent /\ content = Absent
  PROVE  RegistryInv'
<1> DEFINE k == [Unoccupied EXCEPT !.pc = pc, !.request = request,
                                   !.doc = d, !.content = content]
<1>1. /\ k \in Clerk
      /\ k.pc = pc /\ k.request = request /\ k.doc = d /\ k.content = content
      /\ k.tx = 0 /\ k.copy = <<>> /\ k.file = NothingStored
  <2>1. /\ Unoccupied \in Clerk
        /\ Unoccupied.tx = 0 /\ Unoccupied.copy = <<>>
        /\ Unoccupied.file = NothingStored
    BY NothingFits DEF Unoccupied, Clerk
  <2>2. /\ pc \in {"append", "check", "clear"}
        /\ request \in LastAction \cup {"demo", "reset"}
        /\ d \in Document \cup {Absent} /\ content \in Content \cup {Absent}
    BY DEF LastAction
  <2> HIDE DEF Unoccupied, NothingStored
  <2> QED
    BY <2>1, <2>2 DEF Clerk
<1>2. clerk' = [clerk EXCEPT ![w] = k]
  BY DEF Engage
<1>3. /\ chain' = chain /\ chainFile' = chainFile /\ docs' = docs
      /\ drawn' = drawn /\ undisturbed' \in BOOLEAN /\ inStep' \in BOOLEAN
  BY RegistryFacts DEF Engage, OthersIdle
<1> HIDE DEF k
<1>4. PlausibleClerk(k) /\ k.pc \notin Entering
  BY <1>1, RegistryFacts DEF PlausibleClerk, Entering
<1> QED
  BY <1>1, <1>2, <1>3, <1>4, NothingFits, RegistryFacts, ClerkStep

\* What is applied of an issue is consistent: a digest is that of the payload
\* beside it.
LEMMA AppliedMatching ==
  ASSUME NEW content \in Content, Applicable(content)
  PROVE  Applied(content) \in Content /\ Matching(Applied(content))
<1>1. ASSUME NEW part \in Part, Consistent(part)
      PROVE  /\ Hashed(part) \in Part
             /\ Hashed(part).payload # Absent =>
                  Hashed(part).digest = HashOf[Hashed(part).payload]
  BY <1>1, RegistryAssumption DEF Part, Consistent, Hashed
<1> QED
  BY <1>1 DEF Content, Applicable, Applied, Matching

\* A registry that is read and changed in one entry, by a request whose
\* transaction is in the journal.
LEMMA ReadStep ==
  ASSUME RegistryInv, NEW w \in Worker, NEW f \in Registered,
         clerk[w].pc = "read", clerk[w].request \in LastAction,
         clerk' = [clerk EXCEPT ![w].pc = "put", ![w].file = f],
         UNCHANGED <<chain, chainFile, docs, drawn>>,
         undisturbed' \in BOOLEAN, inStep' \in BOOLEAN,
         NEW g \in Registries \cup {NothingStored},
         \A d \in Document \ {clerk[w].doc} : f[d] = g[d],
         f[clerk[w].doc] # Absent,
         f[clerk[w].doc].lastTx = clerk[w].tx,
         f[clerk[w].doc].lastAction = clerk[w].request,
         Matching(f[clerk[w].doc].content),
         clerk[w].request = "issue" =>
           f[clerk[w].doc].content = clerk[w].content
  PROVE  RegistryInv'
<1> DEFINE k == [clerk[w] EXCEPT !.pc = "put", !.file = f]
<1>1. /\ k \in Clerk
      /\ k.pc = "put" /\ k.file = f
      /\ k.request = clerk[w].request /\ k.doc = clerk[w].doc
      /\ k.content = clerk[w].content /\ k.tx = clerk[w].tx
      /\ k.copy = clerk[w].copy
  BY RegistryFacts DEF Clerk
<1>2. clerk' = [clerk EXCEPT ![w] = k]
  BY RegistryFacts
<1> HIDE DEF k
<1>3. PlausibleClerk(k)
  BY <1>1, RegistryFacts DEF PlausibleClerk, LastAction
<1>4. PayloadsIn(g)
  BY PayloadsInAll, NothingFits DEF RegistryInv
<1>5. PayloadsIn(f)
  BY <1>4 DEF PayloadsIn
<1>6. ASSUME NEW c \in Journals
      PROVE  EntriesFit(f, c) /\ Drawn(f, c)
  <2>1. EntriesFit(g, c) /\ Drawn(g, c)
    BY NothingFits DEF RegistryInv, AllFit
  <2>2. OwnFits(clerk[w], c) /\ PlausibleClerk(clerk[w])
    BY RegistryFacts DEF RegistryInv, AllFit
  <2>3. Drawn(f, c)
    BY <2>1, <2>2 DEF Drawn, PlausibleClerk
  <2>4. EntriesFit(f, c)
    BY <2>1, <2>2 DEF EntriesFit, OwnFits, Entering
  <2> QED
    BY <2>3, <2>4
<1>7. "put" \in Entering /\ "read" \in Entering
  BY DEF Entering
<1> QED
  BY <1>1, <1>2, <1>3, <1>5, <1>6, <1>7, RegistryFacts, ClerkStep

LEMMA RequestStep ==
  ASSUME RegistryInv, NEW w \in Worker,
         RequestIssue(w) \/ RequestRevoke(w) \/ RequestDemo(w) \/ RequestReset(w)
  PROVE  RegistryInv'
<1>1. CASE RequestIssue(w)
  <2>1. PICK d \in Document, content \in Sent :
          Applicable(content) /\ Engage(w, "append", "issue", d, Applied(content))
    BY <1>1 DEF RequestIssue
  <2>2. Applied(content) \in Content /\ Matching(Applied(content))
    BY <2>1, AppliedMatching, RegistryAssumption
  <2> QED
    BY <2>1, <2>2, EngageStep
<1>2. CASE RequestRevoke(w)
  BY <1>2, EngageStep DEF RequestRevoke
<1>3. CASE RequestDemo(w)
  BY <1>3, EngageStep DEF RequestDemo
<1>4. CASE RequestReset(w)
  BY <1>4, EngageStep DEF RequestReset
<1> QED
  BY <1>1, <1>2, <1>3, <1>4

\* The steps that only move a request on.
LEMMA JournalStep ==
  ASSUME RegistryInv, NEW w \in Worker,
         CheckIssued(w) \/ ClearChain(w) \/ SaveChain(w) \/ SaveChainFails(w)
  PROVE  RegistryInv'
<1>1. CASE CheckIssued(w)
  <2>1. CASE Leave(w)
    BY <1>1, <2>1, RegistryFacts, LeaveStep DEF CheckIssued
  <2>2. CASE Proceed(w, "append")
    BY <1>1, <2>2, RegistryFacts, ProceedStep DEF CheckIssued, Entering
  <2> QED
    BY <1>1, <2>1, <2>2 DEF CheckIssued
<1>2. CASE ClearChain(w)
  <2>1. clerk[w].request \notin LastAction
    BY <1>2, RegistryFacts DEF ClearChain, PlausibleClerk, LastAction
  <2> QED
    BY <1>2, <2>1, RegistryFacts, ProceedStep DEF ClearChain
<1>3. ASSUME AfterSave(w) \/ Leave(w), clerk[w].pc = "save",
             chain' = chain, chainFile' \in Journals, docs' = docs,
             drawn' = drawn, undisturbed' \in BOOLEAN, inStep' \in BOOLEAN
      PROVE  RegistryInv'
  <2>1. CASE Leave(w)
    BY <1>3, <2>1, RegistryFacts, LeaveStep
  <2>2. ASSUME NEW pc \in {"read", "blank"}, Proceed(w, pc),
               pc = "blank" => clerk[w].request = "reset"
        PROVE  RegistryInv'
    BY <1>3, <2>2, RegistryFacts, ProceedStep DEF Entering
  <2> QED
    BY <1>3, <2>1, <2>2 DEF AfterSave
<1>4. CASE SaveChain(w)
  BY <1>3, <1>4, RegistryFacts DEF SaveChain
<1>5. CASE SaveChainFails(w)
  BY <1>3, <1>5, RegistryFacts DEF SaveChainFails, Trouble
<1> QED
  BY <1>1, <1>2, <1>4, <1>5

LEMMA CopyChainStep ==
  ASSUME RegistryInv, NEW w \in Worker, CopyChain(w)
  PROVE  RegistryInv'
<1> DEFINE k == [clerk[w] EXCEPT !.pc = "save", !.copy = chain]
<1>1. /\ k \in Clerk
      /\ k.pc = "save" /\ k.copy = chain
      /\ k.request = clerk[w].request /\ k.doc = clerk[w].doc
      /\ k.content = clerk[w].content /\ k.tx = clerk[w].tx
      /\ k.file = clerk[w].file
  BY RegistryFacts DEF Clerk
<1>2. clerk' = [clerk EXCEPT ![w] = k]
  BY RegistryFacts DEF CopyChain
<1> HIDE DEF k
<1>3. PlausibleClerk(k)
  BY <1>1, RegistryFacts DEF PlausibleClerk, CopyChain
<1>4. k.pc \in Entering /\ clerk[w].pc \in Entering
  BY <1>1 DEF Entering, CopyChain
<1>5. UNCHANGED <<chain, chainFile, docs, drawn, undisturbed, inStep>>
  BY DEF CopyChain
<1> QED
  BY <1>1, <1>2, <1>3, <1>4, <1>5, NothingFits, RegistryFacts, ClerkStep

\* The steps that read and write the registry.
LEMMA DocumentsStep ==
  ASSUME RegistryInv, NEW w \in Worker,
         \/ ReadForIssue(w) \/ ReadForRevoke(w) \/ PutDocs(w) \/ PutDocsFails(w)
         \/ BlankDocs(w) \/ BlankDocsFails(w)
  PROVE  RegistryInv'
<1>1. CASE ReadForIssue(w)
  <2>1. clerk[w].content \in Content /\ Matching(clerk[w].content)
        /\ clerk[w].doc \in Document /\ clerk[w].tx \in Nat
    BY <1>1, RegistryFacts DEF ReadForIssue, PlausibleClerk, Clerk
  <2>2. PICK g \in {docs, NothingStored} :
          /\ clerk' = [clerk EXCEPT ![w].pc = "put",
                                    ![w].file = Upserted(w, g)]
          /\ undisturbed' \in BOOLEAN /\ inStep' \in BOOLEAN
    BY <1>1, RegistryFacts DEF ReadForIssue, Trouble
  <2> DEFINE f == Upserted(w, g)
  <2>3. g \in Registered /\ g \in Registries \cup {NothingStored}
    BY NothingFits, RegistryFacts
  <2>4. /\ f \in Registered
        /\ \A d \in Document \ {clerk[w].doc} : f[d] = g[d]
        /\ f[clerk[w].doc] = [content |-> clerk[w].content,
                              lastTx |-> clerk[w].tx, lastAction |-> "issue"]
        /\ f[clerk[w].doc] \in Stored
    BY <2>1, <2>3 DEF Upserted, Registered, Stored, LastAction
  <2>5. /\ f[clerk[w].doc] # Absent
        /\ f[clerk[w].doc].content = clerk[w].content
        /\ f[clerk[w].doc].lastTx = clerk[w].tx
        /\ f[clerk[w].doc].lastAction = "issue"
    BY <2>4, RegistryAbsentAssumption
  <2> HIDE DEF f
  <2>6. "issue" \in LastAction
    BY DEF LastAction
  <2>7. /\ clerk[w].pc = "read" /\ clerk[w].request = "issue"
        /\ UNCHANGED <<chain, chainFile, docs, drawn>>
    BY <1>1 DEF ReadForIssue
  <2>8. clerk' = [clerk EXCEPT ![w].pc = "put", ![w].file = f]
    BY <2>2 DEF f
  <2>9. /\ f \in Registered
        /\ \A d \in Document \ {clerk[w].doc} : f[d] = g[d]
        /\ Matching(f[clerk[w].doc].content)
        /\ clerk[w].request \in LastAction
        /\ f[clerk[w].doc].lastAction = clerk[w].request
    BY <2>1, <2>4, <2>5, <2>6, <2>7
  <2>10. undisturbed' \in BOOLEAN /\ inStep' \in BOOLEAN
    BY <2>2
  <2> QED
    BY <2>3, <2>5, <2>7, <2>8, <2>9, <2>10, ReadStep
<1>2. CASE ReadForRevoke(w)
  <2>1. CASE Leave(w)
    BY <1>2, <2>1, RegistryFacts, LeaveStep DEF ReadForRevoke, Trouble
  <2>2. CASE ~ Leave(w)
    <3> DEFINE d == clerk[w].doc
               f == Marked(w, docs)
    <3>1. /\ clerk[w].pc = "read" /\ clerk[w].request = "revoke"
          /\ docs[d] # Absent
          /\ clerk' = [clerk EXCEPT ![w].pc = "put", ![w].file = f]
          /\ UNCHANGED <<chain, chainFile, docs, drawn, undisturbed, inStep>>
      BY <1>2, <2>2 DEF ReadForRevoke
    <3>2. d \in Document /\ clerk[w].tx \in Nat
      BY <3>1, RegistryFacts DEF PlausibleClerk, Clerk
    <3>3. docs \in Registered /\ docs[d] \in Stored /\ PayloadsIn(docs)
      BY <3>1, <3>2, RegistryFacts, PayloadsInAll DEF Registered, RegistryInv
    <3>4. Matching(docs[d].content)
      BY <3>1, <3>2, <3>3 DEF PayloadsIn
    <3> DEFINE e == [docs[d] EXCEPT !.lastTx = clerk[w].tx,
                                    !.lastAction = "revoke"]
    <3>5. /\ e \in Stored /\ e.content = docs[d].content
          /\ e.lastTx = clerk[w].tx /\ e.lastAction = "revoke"
      BY <3>2, <3>3 DEF Stored, LastAction
    <3>6. f = [docs EXCEPT ![d] = e]
      BY <3>2, <3>3 DEF Marked, Registered
    <3> HIDE DEF e, f, d
    <3>7. /\ f \in Registered
          /\ \A c \in Document \ {d} : f[c] = docs[c]
          /\ f[d] = e
      BY <3>2, <3>3, <3>5, <3>6 DEF Registered
    <3>8. f[d] # Absent /\ "revoke" \in LastAction
      BY <3>5, <3>7, RegistryAbsentAssumption DEF LastAction
    <3>9. d = clerk[w].doc
      BY DEF d
    <3> QED
      BY <3>1, <3>4, <3>5, <3>7, <3>8, <3>9, RegistryFacts, ReadStep
  <2> QED
    BY <2>1, <2>2
<1>3. CASE PutDocs(w)
  BY <1>3, RegistryFacts, LeaveStep DEF PutDocs
<1>4. CASE PutDocsFails(w)
  BY <1>4, RegistryFacts, LeaveStep DEF PutDocsFails, Trouble
<1>5. CASE BlankDocs(w)
  BY <1>5, RegistryFacts, LeaveStep DEF BlankDocs
<1>6. CASE BlankDocsFails(w)
  BY <1>6, RegistryFacts, LeaveStep DEF BlankDocsFails, Trouble
<1> QED
  BY <1>1, <1>2, <1>3, <1>4, <1>5, <1>6

-----------------------------------------------------------------------------

\* A transaction with a new id is about nothing that is known.
LEMMA EnterTxStep ==
  ASSUME RegistryInv, NEW w \in Worker, EnterTx(w)
  PROVE  RegistryInv'
<1> DEFINE k == [clerk[w] EXCEPT !.pc = "copy", !.tx = drawn + 1]
           t == [tx |-> drawn + 1, doc |-> clerk[w].doc,
                 action |-> ActionOf(clerk[w].request),
                 digest |-> DigestOf(clerk[w].content)]
           longer == Append(chain, t)
<1>1. /\ clerk[w].pc = "append" /\ PlausibleClerk(clerk[w]) /\ clerk[w] \in Clerk
      /\ drawn \in Nat /\ drawn' = drawn + 1
      /\ chain' = longer /\ chainFile' = chainFile /\ docs' = docs
      /\ undisturbed' = undisturbed /\ undisturbed \in BOOLEAN
      /\ inStep' \in BOOLEAN
  BY RegistryFacts DEF EnterTx
<1>2. /\ k \in Clerk
      /\ k.pc = "copy" /\ k.tx = drawn + 1
      /\ k.request = clerk[w].request /\ k.doc = clerk[w].doc
      /\ k.content = clerk[w].content
      /\ k.copy = clerk[w].copy /\ k.file = clerk[w].file
  <2>1. drawn + 1 \in Nat
    BY <1>1
  <2>2. clerk[w] \in Clerk
    BY <1>1
  <2> QED
    BY <2>1, <2>2 DEF Clerk
<1>3. clerk' = [clerk EXCEPT ![w] = k]
  BY RegistryFacts DEF EnterTx
<1>4. /\ t \in Entered
      /\ t.tx = drawn + 1 /\ t.doc = clerk[w].doc
      /\ clerk[w].request \in LastAction => t.action = clerk[w].request
      /\ clerk[w].request = "issue" => t.digest = clerk[w].content.document.digest
  <2>1. clerk[w].doc \in Document
    BY <1>1 DEF PlausibleClerk
  <2>2. ActionOf(clerk[w].request) \in LastAction
    BY DEF ActionOf, LastAction
  <2>3. DigestOf(clerk[w].content) \in Digest \cup {Absent}
    BY <1>1 DEF DigestOf, Clerk, Content, Part
  <2>4. clerk[w].request \in LastAction => ActionOf(clerk[w].request) = clerk[w].request
    BY DEF ActionOf, LastAction
  <2>5. clerk[w].request = "issue" =>
          DigestOf(clerk[w].content) = clerk[w].content.document.digest
    BY <1>1, RegistryAbsentAssumption DEF DigestOf, PlausibleClerk
  <2> QED
    BY <1>1, <2>1, <2>2, <2>3, <2>4, <2>5 DEF Entered
<1> HIDE DEF k, t
<1>5. /\ chain \in Seq(Entered)
      /\ longer \in Seq(Entered)
      /\ \A i \in DOMAIN longer :
           \/ i \in DOMAIN chain /\ longer[i] = chain[i]
           \/ longer[i] = t
  BY <1>4, RegistryFacts
<1> HIDE DEF longer
<1>6. /\ clerk' \in [Worker -> Clerk]
      /\ clerk'[w] = k
      /\ \A v \in Worker \ {w} : clerk'[v] = clerk[v]
  BY <1>2, <1>3, RegistryFacts
<1>7. Journals' \subseteq Journals \cup {longer}
  <2>1. \A v \in Worker : clerk'[v].copy = clerk[v].copy
    BY <1>2, <1>6
  <2> QED
    BY <1>1, <2>1 DEF Journals
<1>8. Registries' = Registries
  <2>1. \A v \in Worker : clerk'[v].file = clerk[v].file
    BY <1>2, <1>6
  <2> QED
    BY <1>1, <2>1 DEF Registries
<1>9. RegistryTypeOK'
  BY <1>1, <1>5, <1>6 DEF RegistryTypeOK, RegistryInv
<1>10. ASSUME NEW v \in Worker
       PROVE  PlausibleClerk(clerk[v])'
  <2>1. CASE v = w
    BY <1>1, <1>2, <1>6, <2>1 DEF PlausibleClerk
  <2>2. CASE v # w
    <3>1. clerk'[v] = clerk[v] /\ PlausibleClerk(clerk[v]) /\ clerk[v].tx \in Nat
      BY <1>6, <2>2, RegistryFacts DEF Clerk
    <3> QED
      BY <1>1, <3>1 DEF PlausibleClerk
  <2> QED
    BY <2>1, <2>2
<1>11. PayloadsMatch'
  <2>1. \A g \in Registries : PayloadsIn(g)
    BY PayloadsInAll DEF RegistryInv
  <2> QED
    BY <1>8, <2>1 DEF PayloadsMatch, PayloadsIn, Matching
<1>12. ASSUME NEW c \in Journals
       PROVE  /\ c \in Seq(Entered)
              /\ \A i \in DOMAIN c : c[i].tx <= drawn /\ c[i].tx \in Nat
  <2>1. c \in Seq(Entered) /\ Drawn(docs, c)
    BY RegistryFacts DEF RegistryInv, AllFit
  <2>2. \A i \in DOMAIN c : c[i] \in Entered
    BY <2>1
  <2> QED
    BY <2>1, <2>2 DEF Drawn, Entered
<1>13. ASSUME NEW c \in Journals', NEW g \in Registries
       PROVE  /\ EntriesFit(g, c)
              /\ \A d \in Document : g[d] # Absent => g[d].lastTx <= drawn + 1
              /\ \A i \in DOMAIN c : c[i].tx <= drawn + 1
  <2>1. \A d \in Document :
          g[d] # Absent => g[d].lastTx \in Nat /\ g[d].lastTx <= drawn
    <3>1. g \in Registered /\ Drawn(g, chain)
      BY RegistryFacts DEF RegistryInv, AllFit
    <3> QED
      BY <3>1 DEF Drawn, Registered, Stored
  <2>2. CASE c \in Journals
    <3>1. EntriesFit(g, c)
      BY <2>2 DEF RegistryInv, AllFit
    <3> QED
      BY <1>1, <1>12, <2>1, <2>2, <3>1
  <2>3. CASE c = longer
    <3>1. EntriesFit(g, chain) /\ chain \in Journals
      BY RegistryFacts DEF RegistryInv, AllFit
    <3>2. \A i \in DOMAIN c : c[i].tx <= drawn + 1
      BY <1>1, <1>4, <1>5, <1>12, <2>3, <3>1
    <3>3. EntriesFit(g, c)
      BY <1>1, <1>4, <1>5, <2>1, <2>3, <3>1 DEF EntriesFit
    <3> QED
      BY <1>1, <2>1, <3>2, <3>3
  <2> QED
    BY <1>7, <2>2, <2>3
<1>14. ASSUME NEW c \in Journals', NEW v \in Worker
       PROVE  OwnFits(clerk'[v], c)
  <2>1. CASE c \in Journals
    <3>1. CASE v = w
      BY <1>1, <1>2, <1>6, <1>12, <2>1, <3>1 DEF OwnFits
    <3>2. CASE v # w
      BY <1>6, <2>1, <3>2 DEF RegistryInv, AllFit
    <3> QED
      BY <3>1, <3>2
  <2>2. CASE c = longer
    <3>1. chain \in Journals
      BY RegistryFacts
    <3>2. CASE v = w
      BY <1>1, <1>2, <1>4, <1>5, <1>6, <1>12, <2>2, <3>1, <3>2 DEF OwnFits
    <3>3. CASE v # w
      <4>1. /\ OwnFits(clerk[v], chain) /\ clerk'[v] = clerk[v]
            /\ clerk[v].tx <= drawn /\ clerk[v].tx \in Nat
        BY <1>6, <3>1, <3>3, RegistryFacts
        DEF RegistryInv, AllFit, PlausibleClerk, Clerk
      <4> QED
        BY <1>1, <1>4, <1>5, <2>2, <4>1 DEF OwnFits
    <3> QED
      BY <3>2, <3>3
  <2> QED
    BY <1>7, <2>1, <2>2
<1>15. AllFit'
  BY <1>1, <1>8, <1>13, <1>14 DEF AllFit, EntriesFit, Drawn, OwnFits
<1> QED
  BY <1>9, <1>10, <1>11, <1>15 DEF RegistryInv

LEMMA RestartStep == RegistryInv /\ RestartRegistry => RegistryInv'
<1> SUFFICES ASSUME RegistryInv, RestartRegistry PROVE RegistryInv'
  OBVIOUS
<1>1. /\ chain' \in Journals \cup {<<>>} /\ chainFile' = chainFile
      /\ docs' = docs /\ drawn' = drawn
      /\ undisturbed' \in BOOLEAN /\ inStep' \in BOOLEAN
      /\ \A w \in Worker : clerk'[w] = Unoccupied
      /\ clerk' = [w \in Worker |-> Unoccupied]
  BY RegistryFacts DEF RestartRegistry, NoneBusy
<1>2. /\ Unoccupied \in Clerk
      /\ Unoccupied.copy = <<>> /\ Unoccupied.file = NothingStored
      /\ Unoccupied.pc = "idle" /\ Unoccupied.tx = 0
  BY NothingFits DEF Unoccupied, Clerk
<1> HIDE DEF Unoccupied, NothingStored
<1>3. Journals' \subseteq Journals \cup {<<>>}
  BY <1>1, <1>2, RegistryFacts DEF Journals
<1>4. Registries' \subseteq Registries \cup {NothingStored}
  BY <1>1, <1>2 DEF Registries
<1>5. RegistryTypeOK'
  <2>1. <<>> \in Seq(Entered)
    OBVIOUS
  <2>2. chain' \in Seq(Entered) /\ chainFile' \in Seq(Entered)
    BY <1>1, <2>1, RegistryFacts
  <2>3. clerk' \in [Worker -> Clerk]
    BY <1>1, <1>2
  <2> QED
    BY <1>1, <2>2, <2>3, RegistryFacts DEF RegistryTypeOK
<1>6. \A w \in Worker : PlausibleClerk(clerk[w])'
  <2>1. PlausibleClerk(Unoccupied)
    BY <1>2, RegistryFacts DEF PlausibleClerk
  <2> QED
    BY <1>1, <2>1 DEF PlausibleClerk
<1>7. PayloadsMatch'
  <2>1. \A g \in Registries \cup {NothingStored} : PayloadsIn(g)
    BY PayloadsInAll, NothingFits DEF RegistryInv
  <2> QED
    BY <1>4, <2>1 DEF PayloadsMatch, PayloadsIn, Matching
<1>8. ASSUME NEW c \in Journals', NEW g \in Registries'
      PROVE  EntriesFit(g, c) /\ Drawn(g, c)
  <2>1. CASE c \in Journals
    BY <1>4, <2>1, NothingFits DEF RegistryInv, AllFit
  <2>2. CASE c = <<>>
    <3>1. Drawn(g, chain)
      BY <1>4, NothingFits, RegistryFacts DEF RegistryInv, AllFit
    <3> QED
      BY <2>2, <3>1 DEF EntriesFit, Drawn
  <2> QED
    BY <1>3, <2>1, <2>2
<1>9. \A c \in Journals', w \in Worker : OwnFits(clerk'[w], c)
  BY <1>1, <1>2 DEF OwnFits, Entering
<1>10. AllFit'
  BY <1>1, <1>8, <1>9 DEF AllFit, EntriesFit, Drawn, OwnFits
<1> QED
  BY <1>5, <1>6, <1>7, <1>10 DEF RegistryInv

LEMMA RegistryInvNext ==
  RegistryInv /\ [RegistryNext]_registryVars => RegistryInv'
<1> SUFFICES ASSUME RegistryInv, [RegistryNext]_registryVars PROVE RegistryInv'
  OBVIOUS
<1>1. CASE UNCHANGED registryVars
  BY <1>1 DEF registryVars, RegistryInv, RegistryTypeOK, PlausibleClerk,
              PayloadsMatch, Registries, AllFit, Journals, EntriesFit, Drawn,
              OwnFits
<1>2. CASE RestartRegistry
  BY <1>2, RestartStep
<1>3. ASSUME NEW w \in Worker,
             \/ RequestIssue(w) \/ RequestRevoke(w) \/ RequestDemo(w)
             \/ RequestReset(w)
      PROVE  RegistryInv'
  BY <1>3, RequestStep
<1>4. ASSUME NEW w \in Worker,
             CheckIssued(w) \/ ClearChain(w) \/ SaveChain(w) \/ SaveChainFails(w)
      PROVE  RegistryInv'
  BY <1>4, JournalStep
<1>5. ASSUME NEW w \in Worker, EnterTx(w) \/ CopyChain(w)
      PROVE  RegistryInv'
  BY <1>5, EnterTxStep, CopyChainStep
<1>6. ASSUME NEW w \in Worker,
             \/ ReadForIssue(w) \/ ReadForRevoke(w) \/ PutDocs(w)
             \/ PutDocsFails(w) \/ BlankDocs(w) \/ BlankDocsFails(w)
      PROVE  RegistryInv'
  BY <1>6, DocumentsStep
<1> QED
  BY <1>1, <1>2, <1>3, <1>4, <1>5, <1>6 DEF RegistryNext

LEMMA RegistryInvAlways == RegistrySpec => []RegistryInv
BY RegistryInvInit, RegistryInvNext, PTL DEF RegistrySpec

-----------------------------------------------------------------------------

\* The journal and the registry hold only transactions and entries, and every
\* request is at one of its steps (documents.go, server.go).
THEOREM RegistryTypeCorrect == RegistrySpec => []RegistryTypeOK
<1>1. RegistryInv => RegistryTypeOK
  BY DEF RegistryInv
<1> QED
  BY <1>1, RegistryInvAlways, PTL

\* In every registry that is in the file or will be written, a digest is that of
\* the payload beside it: UpsertDocument replaces a whole entry and
\* UpsertDocumentLastAction keeps a whole content, so that requests that overlap
\* and fail lose entries but never mix them (documents.go 12-53).
THEOREM PayloadsMatchAlways == RegistrySpec => []PayloadsMatch
<1>1. RegistryInv => PayloadsMatch
  BY DEF RegistryInv
<1> QED
  BY <1>1, RegistryInvAlways, PTL

\* An entry never contradicts the transaction it names, whatever is lost: a
\* journal or a registry may come back that is long outdated, but no id is drawn
\* again, so that the transaction of an id is the same in all of them
\* (server.go 297-311, 371-376).
THEOREM EntryNamesTxAlways == RegistrySpec => []EntryNamesTx
<1>1. RegistryInv => EntryNamesTx
  BY RegistryFacts DEF RegistryInv, AllFit, EntriesFit, EntryNamesTx
<1> QED
  BY <1>1, RegistryInvAlways, PTL

-----------------------------------------------------------------------------
(***************************************************************************)
(* The registry is a view of the journal as long as requests come one at a *)
(* time and nothing goes wrong, and from the next reset on again.          *)
(*                                                                         *)
(* What can be derived from a journal is stated of any sequence, with a    *)
(* lemma on what one more transaction adds to it.  The invariant says how  *)
(* far the only request has come: between its append and its last write    *)
(* the registry is not a view, but the registry it is about to write is.   *)
(***************************************************************************)

\* Derived, of any journal c.
About(c, d, actions) == {i \in DOMAIN c : c[i].doc = d /\ c[i].action \in actions}

Greatest(S) == CHOOSE i \in S : \A j \in S : j <= i

DerivedIn(c, d) ==
  IF About(c, d, {"issue"}) = {}
    THEN Absent
    ELSE [digest     |-> c[Greatest(About(c, d, {"issue"}))].digest,
          lastTx     |-> c[Greatest(About(c, d, LastAction))].tx,
          lastAction |-> c[Greatest(About(c, d, LastAction))].action]

\* What an entry says of its document.
SummaryOf(e) ==
  IF e = Absent
    THEN Absent
    ELSE [digest     |-> e.content.document.digest,
          lastTx     |-> e.lastTx,
          lastAction |-> e.lastAction]

\* Registry f is what can be derived from journal c.
View(c, f) == \A d \in Document : DerivedIn(c, d) = SummaryOf(f[d])

\* Registry f as request k will leave it.
Updated(k, f) ==
  IF k.request = "issue"
    THEN [f EXCEPT ![k.doc] = [content    |-> k.content,
                               lastTx     |-> k.tx,
                               lastAction |-> "issue"]]
    ELSE [f EXCEPT ![k.doc].lastTx = k.tx,
                   ![k.doc].lastAction = "revoke"]

AtMostOne ==
  \A w, v \in Worker : clerk[w].pc # "idle" /\ clerk[v].pc # "idle" => w = v

\* How far the only request has come, if nothing went wrong before: c is the
\* journal in memory, s the one in the file, f the registry.
InStepWith(k, c, s, f) ==
  /\ k.pc \in {"check", "append"} => View(c, f) /\ s = c
  /\ k.pc = "append" /\ k.request # "issue" => DerivedIn(c, k.doc) # Absent
  /\ k.pc \in Entering /\ k.request # "reset" => k.request \in LastAction
  /\ k.pc \in {"copy", "save", "read"} /\ k.request # "reset" =>
       /\ View(c, Updated(k, f))
       /\ k.request = "revoke" => f[k.doc] # Absent
  /\ k.pc = "save" => k.copy = c
  /\ k.pc \in {"read", "put"} => s = c
  /\ k.pc = "put" => View(c, k.file)

\* How far a reset without company has come, whatever went wrong before.
Emptying(k, c, s) ==
  k.request = "reset" =>
    /\ k.pc \in {"copy", "save", "blank"} => c = <<>>
    /\ k.pc = "save" => k.copy = <<>>
    /\ k.pc = "blank" => s = <<>>

ViewInv ==
  /\ inStep => undisturbed
  /\ undisturbed => AtMostOne
  /\ undisturbed => \A w \in Worker : Emptying(clerk[w], chain, chainFile)
  /\ inStep /\ NoneBusy(clerk) => View(chain, docs) /\ chainFile = chain
  /\ inStep => \A w \in Worker : InStepWith(clerk[w], chain, chainFile, docs)

-----------------------------------------------------------------------------

\* A set of positions of a journal that is not empty has a greatest.
LEMMA GreatestExists ==
  ASSUME NEW n \in Nat, NEW S, S \subseteq 1 .. n, S # {}
  PROVE  Greatest(S) \in S /\ \A j \in S : j <= Greatest(S)
<1> DEFINE T == {n - i : i \in S}
           R == OpToRel(<, Nat)
<1>1. \A i \in S : i \in Int /\ i <= n
  OBVIOUS
<1>2. T \subseteq Nat /\ T # {}
  <2>1. \A i \in S : n - i \in Nat
    BY <1>1
  <2>2. T \subseteq Nat
    BY <2>1, Zenon
  <2>3. PICK i : i \in S
    OBVIOUS
  <2>4. n - i \in T
    BY <2>3
  <2> QED
    BY <2>2, <2>4
<1>3. IsWellFoundedOn(R, Nat)
  BY NatLessThanWellFounded
<1> HIDE DEF R
<1>4. PICK x \in T : \A y \in T : ~ (<<y, x>> \in R)
  <2> HIDE DEF T
  <2> QED
    BY <1>2, <1>3, WFMin
<1>5. \A y \in T : ~ (y < x)
  BY <1>2, <1>4 DEF R, OpToRel
<1>6. PICK i \in S : x = n - i
  BY Zenon
<1>7. \A j \in S : ~ (n - j < n - i)
  BY <1>5, <1>6
<1>8. \E g \in S : \A j \in S : j <= g
  BY <1>1, <1>7
<1> QED
  BY <1>8 DEF Greatest

\* Of several positions the greatest is the only one that no other exceeds.
LEMMA GreatestIs ==
  ASSUME NEW n \in Nat, NEW S, S \subseteq 1 .. n, NEW g \in S, \A j \in S : j <= g
  PROVE  Greatest(S) = g
<1>1. Greatest(S) \in S /\ \A j \in S : j <= Greatest(S)
  BY GreatestExists
<1>2. Greatest(S) \in 1 .. n /\ g \in 1 .. n
  BY <1>1
<1>3. Greatest(S) <= g /\ g <= Greatest(S)
  BY <1>1
<1> HIDE DEF Greatest
<1> QED
  BY <1>2, <1>3

\* Nothing can be derived from an empty journal.
LEMMA DerivedFromNothing == \A d : DerivedIn(<<>>, d) = Absent
BY DEF DerivedIn, About

\* The last issue and the last transaction of an issued document are in the
\* journal.
LEMMA DerivedFacts ==
  ASSUME NEW c \in Seq(Entered), NEW d, NEW actions
  PROVE  /\ About(c, d, actions) \subseteq 1 .. Len(c)
         /\ About(c, d, actions) # {} =>
              Greatest(About(c, d, actions)) \in About(c, d, actions)
<1>1. About(c, d, actions) \subseteq 1 .. Len(c) /\ Len(c) \in Nat
  BY DEF About
<1> QED
  BY <1>1, GreatestExists

\* An issued document is not absent.
LEMMA DerivedIssued ==
  ASSUME NEW c \in Seq(Entered), NEW d
  PROVE  DerivedIn(c, d) = Absent <=> About(c, d, {"issue"}) = {}
<1>1. CASE About(c, d, {"issue"}) # {}
  <2> DEFINE i == Greatest(About(c, d, {"issue"}))
             l == Greatest(About(c, d, LastAction))
  <2>1. i \in DOMAIN c
    BY <1>1, DerivedFacts
  <2>2. About(c, d, LastAction) # {}
    BY <1>1 DEF About, LastAction
  <2>3. l \in DOMAIN c
    BY <2>2, DerivedFacts
  <2>4. c[i] \in Entered /\ c[l] \in Entered
    BY <2>1, <2>3
  <2>5. DerivedIn(c, d) = [digest |-> c[i].digest, lastTx |-> c[l].tx,
                           lastAction |-> c[l].action]
    BY <1>1 DEF DerivedIn
  <2> HIDE DEF i, l
  <2>6. DerivedIn(c, d) \in Summary
    BY <2>4, <2>5 DEF Entered, Summary
  <2> QED
    BY <1>1, <2>6, RegistryAbsentAssumption
<1>2. CASE About(c, d, {"issue"}) = {}
  BY <1>2 DEF DerivedIn
<1> QED
  BY <1>1, <1>2

\* What one more transaction adds: nothing to other documents, to an issued
\* document its digest and itself, to a revoked one itself.
LEMMA DerivedAppend ==
  ASSUME NEW c \in Seq(Entered), NEW t \in Entered, NEW d
  PROVE  /\ t.doc # d => DerivedIn(Append(c, t), d) = DerivedIn(c, d)
         /\ t.doc = d /\ t.action = "issue" =>
              DerivedIn(Append(c, t), d) =
                [digest |-> t.digest, lastTx |-> t.tx, lastAction |-> "issue"]
         /\ t.doc = d /\ t.action = "revoke" /\ DerivedIn(c, d) # Absent =>
              DerivedIn(Append(c, t), d) =
                [digest |-> DerivedIn(c, d).digest, lastTx |-> t.tx,
                 lastAction |-> "revoke"]
<1> DEFINE longer == Append(c, t)
           n == Len(c) + 1
<1>1. /\ longer \in Seq(Entered) /\ n \in Nat /\ n \in DOMAIN longer
      /\ DOMAIN longer = 1 .. n /\ DOMAIN c = 1 .. Len(c) /\ Len(c) \in Nat
      /\ longer[n] = t
      /\ \A i \in DOMAIN c : longer[i] = c[i]
  OBVIOUS
<1> HIDE DEF longer
<1>2. ASSUME NEW actions, t.doc # d \/ t.action \notin actions
      PROVE  About(longer, d, actions) = About(c, d, actions)
  BY <1>1, <1>2 DEF About
<1>3. ASSUME NEW actions, t.doc = d, t.action \in actions
      PROVE  /\ About(longer, d, actions) # {}
             /\ Greatest(About(longer, d, actions)) = n
  <2>1. n \in About(longer, d, actions)
    BY <1>1, <1>3 DEF About
  <2>2. /\ About(longer, d, actions) \subseteq 1 .. n
        /\ \A j \in About(longer, d, actions) : j <= n
    BY <1>1 DEF About
  <2> HIDE DEF n
  <2> QED
    BY <1>1, <2>1, <2>2, GreatestIs
<1>4. ASSUME NEW actions, About(c, d, actions) # {}
      PROVE  longer[Greatest(About(c, d, actions))] = c[Greatest(About(c, d, actions))]
  BY <1>1, <1>4, DerivedFacts
<1>5. CASE t.doc # d
  <2>1. \A actions : About(longer, d, actions) = About(c, d, actions)
    BY <1>2, <1>5
  <2>2. About(c, d, {"issue"}) # {} => About(c, d, LastAction) # {}
    BY DEF About, LastAction
  <2>3. DerivedIn(longer, d) = DerivedIn(c, d)
    BY <1>4, <2>1, <2>2 DEF DerivedIn
  <2> QED
    BY <1>5, <2>3 DEF longer
<1>6. CASE t.doc = d /\ t.action = "issue"
  <2>1. t.action \in {"issue"} /\ t.action \in LastAction
    BY <1>6 DEF LastAction
  <2>2. DerivedIn(longer, d) =
          [digest |-> t.digest, lastTx |-> t.tx, lastAction |-> "issue"]
    BY <1>1, <1>3, <1>6, <2>1 DEF DerivedIn
  <2> QED
    BY <1>6, <2>2 DEF longer
<1>7. CASE t.doc = d /\ t.action = "revoke"
  <2>1. t.action \notin {"issue"} /\ t.action \in LastAction
    BY <1>7 DEF LastAction
  <2>2. ASSUME DerivedIn(c, d) # Absent
        PROVE  DerivedIn(longer, d) =
                 [digest |-> DerivedIn(c, d).digest, lastTx |-> t.tx,
                  lastAction |-> "revoke"]
    <3>1. About(c, d, {"issue"}) # {}
      BY <2>2, DerivedIssued
    <3>2. About(longer, d, {"issue"}) = About(c, d, {"issue"})
      BY <1>2, <2>1
    <3>3. longer[Greatest(About(c, d, {"issue"}))] = c[Greatest(About(c, d, {"issue"}))]
      BY <1>4, <3>1
    <3>4. Greatest(About(longer, d, LastAction)) = n
      BY <1>3, <1>7, <2>1
    <3> QED
      BY <1>1, <1>7, <3>1, <3>2, <3>3, <3>4 DEF DerivedIn
  <2> QED
    BY <1>7, <2>2 DEF longer
<1>8. t.action \in {"issue", "revoke"}
  BY DEF Entered, LastAction
<1> QED
  BY <1>5, <1>6, <1>7

-----------------------------------------------------------------------------

LEMMA ViewInvInit == RegistryInit => ViewInv
<1> SUFFICES ASSUME RegistryInit PROVE ViewInv
  OBVIOUS
<1>1. View(<<>>, NothingStored)
  BY DerivedFromNothing DEF View, SummaryOf, NothingStored
<1>2. \A w \in Worker : clerk[w] = Unoccupied
  BY DEF RegistryInit
<1> QED
  BY <1>1, <1>2
  DEF RegistryInit, ViewInv, AtMostOne, Emptying, InStepWith, Unoccupied, Entering

\* A step of the only request: the requests at rest are not concerned.
LEMMA OnlyStep ==
  ASSUME RegistryInv, NEW w \in Worker, NEW k,
         clerk' = [clerk EXCEPT ![w] = k],
         inStep' => undisturbed',
         undisturbed' => OthersIdle(clerk, w),
         undisturbed' => Emptying(k, chain', chainFile'),
         inStep' => InStepWith(k, chain', chainFile', docs'),
         inStep' /\ k.pc = "idle" => View(chain', docs') /\ chainFile' = chain'
  PROVE  ViewInv'
<1>1. clerk'[w] = k /\ \A v \in Worker \ {w} : clerk'[v] = clerk[v]
  BY RegistryFacts
<1>2. undisturbed' => \A v \in Worker \ {w} : clerk'[v].pc = "idle"
  BY <1>1 DEF OthersIdle
<1>3. (undisturbed => AtMostOne)'
  BY <1>2 DEF AtMostOne
<1>4. (undisturbed => \A v \in Worker : Emptying(clerk[v], chain, chainFile))'
  <2>1. ASSUME NEW v \in Worker, clerk'[v].pc = "idle"
        PROVE  Emptying(clerk'[v], chain', chainFile')
    BY <2>1 DEF Emptying
  <2> QED
    BY <1>1, <1>2, <2>1 DEF Emptying
<1>5. (inStep => \A v \in Worker : InStepWith(clerk[v], chain, chainFile, docs))'
  <2>1. ASSUME NEW v \in Worker, clerk'[v].pc = "idle"
        PROVE  InStepWith(clerk'[v], chain', chainFile', docs')
    BY <2>1 DEF InStepWith, Entering
  <2>2. inStep' => \A v \in Worker : InStepWith(clerk'[v], chain', chainFile', docs')
    BY <1>1, <1>2, <2>1
  <2> QED
    BY <2>2 DEF InStepWith, View, Updated
<1>6. (inStep /\ NoneBusy(clerk) => View(chain, docs) /\ chainFile = chain)'
  BY <1>1 DEF NoneBusy, View
<1> QED
  BY <1>3, <1>4, <1>5, <1>6 DEF ViewInv

\* What is known before a step of the only request.
LEMMA OnlyFacts ==
  ASSUME ViewInv, NEW w \in Worker, clerk[w].pc # "idle"
  PROVE  /\ inStep => undisturbed
         /\ undisturbed => OthersIdle(clerk, w)
         /\ undisturbed => Emptying(clerk[w], chain, chainFile)
         /\ inStep => InStepWith(clerk[w], chain, chainFile, docs)
BY DEF ViewInv, AtMostOne, OthersIdle

\* After trouble nothing is claimed.
LEMMA TroubleStep == Trouble => ViewInv'
BY DEF Trouble, ViewInv

LEMMA EngageInStep ==
  ASSUME RegistryInv, ViewInv, NEW w \in Worker,
         NEW pc, NEW request, NEW d, NEW content,
         Engage(w, pc, request, d, content),
         \/ pc = "append" /\ request = "issue"
         \/ pc = "check"
         \/ pc = "clear" /\ request = "reset"
  PROVE  ViewInv'
<1> DEFINE k == [Unoccupied EXCEPT !.pc = pc, !.request = request,
                                   !.doc = d, !.content = content]
<1>1. k.pc = pc /\ k.request = request
  BY DEF Unoccupied
<1>2. clerk' = [clerk EXCEPT ![w] = k]
  BY DEF Engage
<1> HIDE DEF k
<1>3. /\ clerk[w].pc = "idle"
      /\ undisturbed' = OthersIdle(clerk, w)
      /\ inStep' = (inStep /\ OthersIdle(clerk, w))
      /\ chain' = chain /\ chainFile' = chainFile /\ docs' = docs
  BY DEF Engage
<1>4. Emptying(k, chain', chainFile')
  BY <1>1 DEF Emptying
<1>5. inStep' => View(chain, docs) /\ chainFile = chain
  BY <1>3 DEF ViewInv, NoneBusy, OthersIdle
<1>6. inStep' => InStepWith(k, chain', chainFile', docs')
  BY <1>1, <1>3, <1>5 DEF InStepWith, Entering
<1> QED
  BY <1>1, <1>2, <1>3, <1>4, <1>6, OnlyStep

LEMMA RequestInStep ==
  ASSUME RegistryInv, ViewInv, NEW w \in Worker,
         RequestIssue(w) \/ RequestRevoke(w) \/ RequestDemo(w) \/ RequestReset(w)
  PROVE  ViewInv'
BY EngageInStep DEF RequestIssue, RequestRevoke, RequestDemo, RequestReset

\* A request ends: the registry is a view, or was known not to be.
LEMMA LeaveInStep ==
  ASSUME RegistryInv, ViewInv, NEW w \in Worker, Leave(w), clerk[w].pc # "idle",
         inStep' => undisturbed', undisturbed' => undisturbed,
         inStep' => View(chain', docs') /\ chainFile' = chain'
  PROVE  ViewInv'
<1>1. clerk' = [clerk EXCEPT ![w] = Unoccupied]
  BY DEF Leave
<1>2. Unoccupied.pc = "idle"
  BY DEF Unoccupied
<1> HIDE DEF Unoccupied
<1>3. Emptying(Unoccupied, chain', chainFile')
  BY <1>2 DEF Emptying
<1>4. InStepWith(Unoccupied, chain', chainFile', docs')
  BY <1>2 DEF InStepWith, Entering
<1> QED
  BY <1>1, <1>2, <1>3, <1>4, OnlyFacts, OnlyStep

\* A request goes on.
LEMMA ProceedInStep ==
  ASSUME RegistryInv, ViewInv, NEW w \in Worker, NEW pc, Proceed(w, pc),
         clerk[w].pc # "idle", pc # "idle",
         inStep' = inStep, undisturbed' = undisturbed,
         undisturbed =>
           Emptying([clerk[w] EXCEPT !.pc = pc], chain', chainFile'),
         inStep =>
           InStepWith([clerk[w] EXCEPT !.pc = pc], chain', chainFile', docs')
  PROVE  ViewInv'
<1> DEFINE k == [clerk[w] EXCEPT !.pc = pc]
<1>1. k.pc = pc
  BY RegistryFacts DEF Clerk
<1>2. clerk' = [clerk EXCEPT ![w] = k]
  BY RegistryFacts DEF Proceed
<1>3. /\ undisturbed => Emptying(k, chain', chainFile')
      /\ inStep => InStepWith(k, chain', chainFile', docs')
  OBVIOUS
<1> HIDE DEF k
<1> QED
  BY <1>1, <1>2, <1>3, OnlyFacts, OnlyStep

\* The request of w at another step.
LEMMA ProceedFacts ==
  ASSUME RegistryInv, NEW w \in Worker, NEW pc
  PROVE  LET k == [clerk[w] EXCEPT !.pc = pc] IN
         /\ k.pc = pc
         /\ k.request = clerk[w].request /\ k.doc = clerk[w].doc
         /\ k.content = clerk[w].content /\ k.tx = clerk[w].tx
         /\ k.copy = clerk[w].copy /\ k.file = clerk[w].file
         /\ \A f : Updated(k, f) = Updated(clerk[w], f)
<1> DEFINE k == [clerk[w] EXCEPT !.pc = pc]
<1>1. /\ k.pc = pc
      /\ k.request = clerk[w].request /\ k.doc = clerk[w].doc
      /\ k.content = clerk[w].content /\ k.tx = clerk[w].tx
      /\ k.copy = clerk[w].copy /\ k.file = clerk[w].file
  BY RegistryFacts DEF Clerk
<1>2. \A f : Updated(k, f) = Updated(clerk[w], f)
  <2> HIDE DEF k
  <2> QED
    BY <1>1 DEF Updated
<1> QED
  BY <1>1, <1>2

\* What is in the journal of a document that is issued.
LEMMA IssuedDerived ==
  ASSUME NEW d, Issued(d), chain \in Seq(Entered)
  PROVE  DerivedIn(chain, d) # Absent
BY DerivedIssued DEF Issued, About

\* The steps up to the journal file.
LEMMA JournalInStep ==
  ASSUME RegistryInv, ViewInv, NEW w \in Worker,
         CheckIssued(w) \/ ClearChain(w) \/ SaveChain(w) \/ SaveChainFails(w)
  PROVE  ViewInv'
<1>1. CASE CheckIssued(w)
  <2>1. /\ clerk[w].pc = "check"
        /\ UNCHANGED <<chain, chainFile, docs, drawn, undisturbed, inStep>>
    BY <1>1 DEF CheckIssued
  <2>2. inStep => View(chain, docs) /\ chainFile = chain
    BY <2>1, OnlyFacts DEF InStepWith
  <2>3. CASE Leave(w)
    BY <2>1, <2>2, <2>3, LeaveInStep, OnlyFacts
  <2>4. CASE Proceed(w, "append") /\ Issued(clerk[w].doc)
    <3> DEFINE k == [clerk[w] EXCEPT !.pc = "append"]
    <3>1. k.pc = "append" /\ k.doc = clerk[w].doc
      BY ProceedFacts
    <3>2. DerivedIn(chain, clerk[w].doc) # Absent
      BY <2>4, IssuedDerived, RegistryFacts
    <3> HIDE DEF k
    <3>3. Emptying(k, chain', chainFile')
      BY <3>1 DEF Emptying
    <3>4. inStep => InStepWith(k, chain', chainFile', docs')
      BY <2>1, <2>2, <3>1, <3>2 DEF InStepWith, Entering
    <3> QED
      BY <2>1, <2>4, <3>3, <3>4, ProceedInStep DEF k
  <2> QED
    BY <1>1, <2>3, <2>4 DEF CheckIssued
<1>2. CASE ClearChain(w)
  <2>1. /\ clerk[w].pc = "clear" /\ clerk[w].request = "reset"
        /\ chain' = <<>> /\ Proceed(w, "copy")
        /\ UNCHANGED <<undisturbed, inStep>>
    BY <1>2, RegistryFacts DEF ClearChain, PlausibleClerk
  <2> DEFINE k == [clerk[w] EXCEPT !.pc = "copy"]
  <2>2. k.pc = "copy" /\ k.request = "reset"
    BY <2>1, ProceedFacts
  <2> HIDE DEF k
  <2>3. Emptying(k, chain', chainFile') /\ InStepWith(k, chain', chainFile', docs')
    BY <2>1, <2>2 DEF Emptying, InStepWith
  <2> QED
    BY <2>1, <2>3, ProceedInStep DEF k
<1>3. CASE SaveChain(w)
  <2>1. /\ clerk[w].pc = "save" /\ chainFile' = clerk[w].copy
        /\ UNCHANGED <<chain, docs, drawn, undisturbed, inStep>>
    BY <1>3 DEF SaveChain
  <2>2. inStep => InStepWith(clerk[w], chain, chainFile, docs)
    BY <2>1, OnlyFacts
  <2>3. CASE clerk[w].request = "reset" /\ Proceed(w, "blank")
    <3> DEFINE k == [clerk[w] EXCEPT !.pc = "blank"]
    <3>1. k.pc = "blank" /\ k.request = "reset"
      BY <2>3, ProceedFacts
    <3>2. undisturbed => chain = <<>> /\ clerk[w].copy = <<>>
      BY <2>1, <2>3, OnlyFacts DEF Emptying
    <3> HIDE DEF k
    <3>3. undisturbed => Emptying(k, chain', chainFile')
      BY <2>1, <3>1, <3>2 DEF Emptying
    <3>4. InStepWith(k, chain', chainFile', docs')
      BY <3>1 DEF InStepWith
    <3> QED
      BY <2>1, <2>3, <3>3, <3>4, ProceedInStep DEF k
  <2>4. CASE clerk[w].request = "demo" /\ Leave(w)
    <3>1. ~ inStep
      BY <2>1, <2>2, <2>4 DEF InStepWith, Entering, LastAction
    <3> QED
      BY <2>1, <2>4, <3>1, LeaveInStep
  <2>5. CASE clerk[w].request \in LastAction /\ Proceed(w, "read")
    <3> DEFINE k == [clerk[w] EXCEPT !.pc = "read"]
    <3>1. /\ k.pc = "read" /\ k.request = clerk[w].request
          /\ k.doc = clerk[w].doc /\ Updated(k, docs) = Updated(clerk[w], docs)
          /\ clerk[w].request # "reset" /\ clerk[w].request \in LastAction
      BY <2>5, ProceedFacts DEF LastAction
    <3> HIDE DEF k
    <3>2. Emptying(k, chain', chainFile')
      BY <3>1 DEF Emptying
    <3>3. inStep => InStepWith(k, chain', chainFile', docs')
      BY <2>1, <2>2, <3>1 DEF InStepWith
    <3> QED
      BY <2>1, <2>5, <3>2, <3>3, ProceedInStep DEF k
  <2> QED
    BY <1>3, <2>3, <2>4, <2>5 DEF SaveChain, AfterSave
<1>4. CASE SaveChainFails(w)
  BY <1>4, TroubleStep DEF SaveChainFails
<1> QED
  BY <1>1, <1>2, <1>3, <1>4

LEMMA CopyChainInStep ==
  ASSUME RegistryInv, ViewInv, NEW w \in Worker, CopyChain(w)
  PROVE  ViewInv'
<1> DEFINE k == [clerk[w] EXCEPT !.pc = "save", !.copy = chain]
<1>1. /\ k.pc = "save" /\ k.copy = chain
      /\ k.request = clerk[w].request /\ k.doc = clerk[w].doc
      /\ k.content = clerk[w].content /\ k.tx = clerk[w].tx
  BY RegistryFacts DEF Clerk
<1>2. clerk' = [clerk EXCEPT ![w] = k]
  BY RegistryFacts DEF CopyChain
<1>3. /\ clerk[w].pc = "copy"
      /\ UNCHANGED <<chain, chainFile, docs, drawn, undisturbed, inStep>>
  BY DEF CopyChain
<1> HIDE DEF k
<1>4. Updated(k, docs) = Updated(clerk[w], docs)
  BY <1>1 DEF Updated
<1>5. undisturbed => Emptying(k, chain', chainFile')
  BY <1>1, <1>3, OnlyFacts DEF Emptying
<1>6. inStep => InStepWith(k, chain', chainFile', docs')
  BY <1>1, <1>3, <1>4, OnlyFacts DEF InStepWith, Entering
<1> QED
  BY <1>1, <1>2, <1>3, <1>5, <1>6, OnlyFacts, OnlyStep

\* With its transaction in the journal, a request knows the registry it will
\* leave to be the view of the journal.
LEMMA ViewAppend ==
  ASSUME NEW c \in Seq(Entered), NEW t \in Entered, NEW f \in Registered,
         NEW k, k.doc \in Document, View(c, f), t.doc = k.doc, t.tx = k.tx,
         \/ /\ k.request = "issue" /\ t.action = "issue"
            /\ t.digest = k.content.document.digest
            /\ k.content \in Content /\ k.tx \in Nat
         \/ /\ k.request # "issue" /\ t.action = "revoke"
            /\ f[k.doc] # Absent
  PROVE  View(Append(c, t), Updated(k, f))
<1> DEFINE g == Updated(k, f)
<1>1. ASSUME NEW d \in Document, d # k.doc
      PROVE  DerivedIn(Append(c, t), d) = SummaryOf(g[d])
  <2>1. g[d] = f[d]
    BY <1>1 DEF Updated, Registered
  <2> QED
    BY <1>1, <2>1, DerivedAppend DEF View
<1>2. CASE k.request = "issue"
  <2>1. g[k.doc] = [content |-> k.content, lastTx |-> k.tx, lastAction |-> "issue"]
    BY <1>2 DEF Updated, Registered
  <2>2. g[k.doc] \in Stored
    BY <1>2, <2>1 DEF Stored, LastAction
  <2>3. g[k.doc] # Absent
    BY <2>2, RegistryAbsentAssumption
  <2>4. /\ g[k.doc].content = k.content /\ g[k.doc].lastTx = k.tx
        /\ g[k.doc].lastAction = "issue"
    BY <2>1
  <2> HIDE DEF g
  <2>5. SummaryOf(g[k.doc]) =
          [digest |-> t.digest, lastTx |-> t.tx, lastAction |-> "issue"]
    BY <1>2, <2>3, <2>4 DEF SummaryOf
  <2>6. DerivedIn(Append(c, t), k.doc) = SummaryOf(g[k.doc])
    BY <1>2, <2>5, DerivedAppend
  <2> QED
    BY <1>1, <2>6 DEF View, g
<1>3. CASE k.request # "issue"
  <2>1. f[k.doc] \in Stored /\ f[k.doc] # Absent
    BY <1>3 DEF Registered
  <2> DEFINE e == [f[k.doc] EXCEPT !.lastTx = k.tx, !.lastAction = "revoke"]
  <2>2. /\ e \in Stored /\ e.content = f[k.doc].content
        /\ e.lastTx = k.tx /\ e.lastAction = "revoke"
    <3>1. k.tx \in Nat
      BY DEF Entered
    <3> QED
      BY <2>1, <3>1 DEF Stored, LastAction
  <2>3. g[k.doc] = e
    BY <1>3, <2>1 DEF Updated, Registered
  <2>4. g[k.doc] # Absent
    BY <2>2, <2>3, RegistryAbsentAssumption
  <2> HIDE DEF g, e
  <2>5. SummaryOf(g[k.doc]) =
          [digest |-> f[k.doc].content.document.digest, lastTx |-> t.tx,
           lastAction |-> "revoke"]
    BY <2>2, <2>3, <2>4 DEF SummaryOf
  <2>6. DerivedIn(c, k.doc) =
          [digest |-> f[k.doc].content.document.digest,
           lastTx |-> f[k.doc].lastTx, lastAction |-> f[k.doc].lastAction]
    BY <2>1 DEF View, SummaryOf
  <2>7. About(c, k.doc, {"issue"}) # {}
    <3>1. DerivedIn(c, k.doc) \in Summary
      BY <2>1, <2>6 DEF Stored, Summary, Content, Part
    <3> QED
      BY <3>1, DerivedIssued, RegistryAbsentAssumption
  <2>8. DerivedIn(c, k.doc) # Absent
    BY <2>7, DerivedIssued
  <2>9. DerivedIn(Append(c, t), k.doc) =
          [digest |-> DerivedIn(c, k.doc).digest, lastTx |-> t.tx,
           lastAction |-> "revoke"]
    BY <1>3, <2>8, DerivedAppend
  <2>10. DerivedIn(c, k.doc).digest = f[k.doc].content.document.digest
    BY <2>6
  <2>11. DerivedIn(Append(c, t), k.doc) = SummaryOf(g[k.doc])
    BY <2>5, <2>9, <2>10
  <2> QED
    BY <1>1, <2>11 DEF View, g
<1> QED
  BY <1>2, <1>3

LEMMA EnterTxInStep ==
  ASSUME RegistryInv, ViewInv, NEW w \in Worker, EnterTx(w)
  PROVE  ViewInv'
<1> DEFINE k == [clerk[w] EXCEPT !.pc = "copy", !.tx = drawn + 1]
           t == [tx |-> drawn + 1, doc |-> clerk[w].doc,
                 action |-> ActionOf(clerk[w].request),
                 digest |-> DigestOf(clerk[w].content)]
<1>1. /\ clerk[w].pc = "append" /\ PlausibleClerk(clerk[w]) /\ clerk[w] \in Clerk
      /\ drawn + 1 \in Nat /\ chain \in Seq(Entered) /\ docs \in Registered
      /\ chain' = Append(chain, t)
      /\ inStep' = (inStep /\ clerk[w].request # "demo")
      /\ UNCHANGED <<chainFile, docs, undisturbed>>
  BY RegistryFacts DEF EnterTx
<1>2. /\ k.pc = "copy" /\ k.tx = drawn + 1
      /\ k.request = clerk[w].request /\ k.doc = clerk[w].doc
      /\ k.content = clerk[w].content
  <2>1. clerk[w] \in Clerk
    BY <1>1
  <2> QED
    BY <2>1 DEF Clerk
<1>3. clerk' = [clerk EXCEPT ![w] = k]
  BY RegistryFacts DEF EnterTx
<1>4. /\ k.doc \in Document /\ k.request # "reset"
      /\ k.request = "issue" => k.content \in Content
      /\ k.request \in LastAction \cup {"demo", "reset"}
  BY <1>1, <1>2 DEF PlausibleClerk, Clerk
<1>5. t \in Entered
  <2>1. DigestOf(clerk[w].content) \in Digest \cup {Absent}
    BY <1>1 DEF DigestOf, Clerk, Content, Part
  <2>2. ActionOf(clerk[w].request) \in LastAction
    BY DEF ActionOf, LastAction
  <2> QED
    BY <1>1, <1>2, <1>4, <2>1, <2>2 DEF Entered
<1>6. /\ t.tx = k.tx /\ t.doc = k.doc
      /\ k.request = "issue" =>
           t.action = "issue" /\ t.digest = k.content.document.digest
      /\ k.request # "issue" => t.action = "revoke"
  <2>1. k.request = "issue" => k.content # Absent
    BY <1>4, RegistryAbsentAssumption
  <2> HIDE DEF k
  <2> QED
    BY <1>2, <2>1 DEF ActionOf, DigestOf
<1> HIDE DEF k, t
<1>7. ASSUME inStep'
      PROVE  InStepWith(k, chain', chainFile', docs')
  <2>1. /\ InStepWith(clerk[w], chain, chainFile, docs)
        /\ clerk[w].request # "demo"
    BY <1>1, <1>7, OnlyFacts
  <2>2. View(chain, docs)
    BY <1>1, <2>1 DEF InStepWith
  <2>3. k.request # "issue" => docs[k.doc] # Absent
    <3>1. k.request # "issue" => DerivedIn(chain, k.doc) # Absent
      BY <1>1, <1>2, <2>1 DEF InStepWith
    <3> QED
      BY <1>4, <2>2, <3>1 DEF View, SummaryOf
  <2>4. View(Append(chain, t), Updated(k, docs))
    BY <1>1, <1>2, <1>4, <1>5, <1>6, <2>2, <2>3, ViewAppend
  <2> QED
    BY <1>1, <1>2, <1>4, <2>1, <2>3, <2>4 DEF InStepWith, LastAction
<1>8. Emptying(k, chain', chainFile')
  BY <1>4 DEF Emptying
<1> QED
  BY <1>1, <1>3, <1>2, <1>7, <1>8, OnlyFacts, OnlyStep

\* A request holds the registry it will leave.
LEMMA ReadInStep ==
  ASSUME RegistryInv, ViewInv, NEW w \in Worker, NEW f,
         clerk[w].pc = "read", clerk[w].request \in LastAction,
         clerk' = [clerk EXCEPT ![w].pc = "put", ![w].file = f],
         f = Updated(clerk[w], docs),
         UNCHANGED <<chain, chainFile, docs, drawn, undisturbed, inStep>>
  PROVE  ViewInv'
<1> DEFINE k == [clerk[w] EXCEPT !.pc = "put", !.file = f]
<1>1. k.pc = "put" /\ k.file = f /\ k.request = clerk[w].request
  BY RegistryFacts DEF Clerk
<1>2. clerk' = [clerk EXCEPT ![w] = k]
  BY RegistryFacts
<1> HIDE DEF k
<1>3. k.request # "reset" /\ k.request \in LastAction
  BY <1>1 DEF LastAction
<1>4. Emptying(k, chain', chainFile')
  BY <1>3 DEF Emptying
<1>5. inStep => InStepWith(k, chain', chainFile', docs')
  BY <1>1, <1>3, OnlyFacts DEF InStepWith
<1> QED
  BY <1>1, <1>2, <1>4, <1>5, OnlyFacts, OnlyStep

LEMMA DocumentsInStep ==
  ASSUME RegistryInv, ViewInv, NEW w \in Worker,
         \/ ReadForIssue(w) \/ ReadForRevoke(w) \/ PutDocs(w) \/ PutDocsFails(w)
         \/ BlankDocs(w) \/ BlankDocsFails(w)
  PROVE  ViewInv'
<1>1. CASE Trouble
  BY <1>1, TroubleStep
<1>2. CASE ReadForIssue(w) /\ ~ Trouble
  <2>1. /\ clerk[w].pc = "read" /\ clerk[w].request = "issue"
        /\ clerk' = [clerk EXCEPT ![w].pc = "put", ![w].file = Upserted(w, docs)]
        /\ UNCHANGED <<chain, chainFile, docs, drawn, undisturbed, inStep>>
    BY <1>2 DEF ReadForIssue
  <2>2. Upserted(w, docs) = Updated(clerk[w], docs) /\ "issue" \in LastAction
    BY <2>1 DEF Upserted, Updated, LastAction
  <2> QED
    BY <2>1, <2>2, ReadInStep
<1>3. CASE ReadForRevoke(w) /\ ~ Trouble
  <2>1. /\ clerk[w].pc = "read" /\ clerk[w].request = "revoke"
        /\ UNCHANGED <<chain, chainFile, docs, drawn, undisturbed, inStep>>
    BY <1>3 DEF ReadForRevoke
  <2>2. CASE docs[clerk[w].doc] = Absent
    <3>1. ~ inStep
      BY <2>1, <2>2, OnlyFacts DEF InStepWith
    <3>2. Leave(w)
      BY <1>3, <2>2 DEF ReadForRevoke
    <3> QED
      BY <2>1, <3>1, <3>2, LeaveInStep
  <2>3. CASE docs[clerk[w].doc] # Absent
    <3>1. clerk' = [clerk EXCEPT ![w].pc = "put", ![w].file = Marked(w, docs)]
      BY <1>3, <2>3 DEF ReadForRevoke
    <3>2. Marked(w, docs) = Updated(clerk[w], docs) /\ "revoke" \in LastAction
      BY <2>1 DEF Marked, Updated, LastAction
    <3> QED
      BY <2>1, <3>1, <3>2, ReadInStep
  <2> QED
    BY <2>2, <2>3
<1>4. CASE PutDocs(w)
  <2>1. /\ clerk[w].pc = "put" /\ docs' = clerk[w].file /\ Leave(w)
        /\ UNCHANGED <<chain, chainFile, drawn, undisturbed, inStep>>
    BY <1>4 DEF PutDocs
  <2>2. inStep => View(chain, clerk[w].file) /\ chainFile = chain
    BY <2>1, OnlyFacts DEF InStepWith
  <2> QED
    BY <2>1, <2>2, LeaveInStep, OnlyFacts
<1>5. CASE BlankDocs(w)
  <2>1. /\ clerk[w].pc = "blank" /\ clerk[w].request = "reset"
        /\ docs' = NothingStored /\ Leave(w) /\ inStep' = undisturbed
        /\ UNCHANGED <<chain, chainFile, drawn, undisturbed>>
    BY <1>5, RegistryFacts DEF BlankDocs, PlausibleClerk
  <2>2. undisturbed => chain = <<>> /\ chainFile = <<>>
    BY <2>1, OnlyFacts DEF Emptying
  <2>3. View(<<>>, NothingStored)
    BY DerivedFromNothing DEF View, SummaryOf, NothingStored
  <2> QED
    BY <2>1, <2>2, <2>3, LeaveInStep
<1>6. CASE PutDocsFails(w) \/ BlankDocsFails(w)
  BY <1>1, <1>6 DEF PutDocsFails, BlankDocsFails
<1> QED
  BY <1>1, <1>2, <1>3, <1>4, <1>5, <1>6

LEMMA RestartInStep ==
  ASSUME RegistryInv, ViewInv, RestartRegistry
  PROVE  ViewInv'
<1>1. /\ \A w \in Worker : clerk'[w] = Unoccupied
      /\ chainFile' = chainFile /\ docs' = docs
      /\ undisturbed' = (NoneBusy(clerk) /\ chain' = chainFile)
      /\ inStep' = (inStep /\ undisturbed')
  BY DEF RestartRegistry
<1>2. Unoccupied.pc = "idle"
  BY DEF Unoccupied
<1> HIDE DEF Unoccupied
<1>3. inStep' => View(chain', docs') /\ chainFile' = chain'
  BY <1>1 DEF ViewInv
<1>4. \A w \in Worker : /\ Emptying(clerk'[w], chain', chainFile')
                        /\ InStepWith(clerk'[w], chain', chainFile', docs')
  BY <1>1, <1>2 DEF Emptying, InStepWith, Entering
<1>5. AtMostOne'
  BY <1>1, <1>2 DEF AtMostOne
<1> QED
  BY <1>1, <1>3, <1>4, <1>5
  DEF ViewInv, Emptying, InStepWith, View, Updated

LEMMA ViewInvNext ==
  RegistryInv /\ ViewInv /\ [RegistryNext]_registryVars => ViewInv'
<1> SUFFICES ASSUME RegistryInv, ViewInv, [RegistryNext]_registryVars
             PROVE  ViewInv'
  OBVIOUS
<1>1. CASE UNCHANGED registryVars
  BY <1>1 DEF registryVars, ViewInv, AtMostOne, Emptying, InStepWith, NoneBusy,
              View, Updated
<1>2. CASE RestartRegistry
  BY <1>2, RestartInStep
<1>3. ASSUME NEW w \in Worker,
             \/ RequestIssue(w) \/ RequestRevoke(w) \/ RequestDemo(w)
             \/ RequestReset(w)
      PROVE  ViewInv'
  BY <1>3, RequestInStep
<1>4. ASSUME NEW w \in Worker,
             CheckIssued(w) \/ ClearChain(w) \/ SaveChain(w) \/ SaveChainFails(w)
      PROVE  ViewInv'
  BY <1>4, JournalInStep
<1>5. ASSUME NEW w \in Worker, EnterTx(w) \/ CopyChain(w)
      PROVE  ViewInv'
  BY <1>5, EnterTxInStep, CopyChainInStep
<1>6. ASSUME NEW w \in Worker,
             \/ ReadForIssue(w) \/ ReadForRevoke(w) \/ PutDocs(w)
             \/ PutDocsFails(w) \/ BlankDocs(w) \/ BlankDocsFails(w)
      PROVE  ViewInv'
  BY <1>6, DocumentsInStep
<1> QED
  BY <1>1, <1>2, <1>3, <1>4, <1>5, <1>6 DEF RegistryNext

-----------------------------------------------------------------------------

\* For any number of requests: while they come one at a time and nothing goes
\* wrong, and from the end of the next reset without company on, every entry of
\* documents.json is the summary the journal gives of its document, and there
\* are no others (server.go 302-311, 371-378, 446; documents.go 12-53).
THEOREM RegistryIsViewAlways == RegistrySpec => []RegistryIsView
<1>1. \A d : Derived(d) = DerivedIn(chain, d)
  BY DEF Derived, DerivedIn, About, Greatest
<1>2. ViewInv => RegistryIsView
  BY <1>1 DEF ViewInv, View, SummaryOf, RegistryIsView
<1> QED
  BY <1>2, ViewInvInit, ViewInvNext, RegistryInvAlways, PTL DEF RegistrySpec

=============================================================================
