------------------------------ MODULE Registry ------------------------------
(***************************************************************************)
(* The registry of documents (documents.json) beside the journal: an issue *)
(* or a revoke is appended and saved first, then the registry is read,     *)
(* changed and written back, in two critical sections of the database:     *)
(*                                                                         *)
(*   issue    (hashes) -> append -> copy -> save -> read -> put            *)
(*   revoke   check -> append -> copy -> save -> read -> put               *)
(*   demo     check -> append -> copy -> save                              *)
(*   reset    clear -> copy -> save -> blank                               *)
(*                                                                         *)
(* The journal is abstracted to the sequence of its transactions, with     *)
(* what a document of the registry shares with them.  A refused request    *)
(* changes nothing and has no action unless it is refused half-way.  A     *)
(* demonstration of an illegal revoke (demo) is one that is accepted when  *)
(* the country it names is the issuer after all; the registry is not told. *)
(***************************************************************************)
EXTENDS Handlers

CONSTANTS
  Document,    \* document ids
  Payload,     \* JSON payloads, of documents and of metadata
  Digest,      \* hashes
  HashOf,      \* HashOf[p]: HashCanonicalJSON of payload p
  Absent,      \* no payload, no hash, no entry, no transaction
  Sent,        \* the bodies clients may send with an issue
  MaxTx,       \* bound: no request starts after so many transactions,
  MaxBeside    \* and none beside another after so many

Part == [digest : Digest \cup {Absent}, payload : Payload \cup {Absent}]

\* What a client says of a document and of its metadata.
Content == [document : Part, metadata : Part]

ASSUME RegistryAssumption ==
  /\ HashOf \in [Payload -> Digest]
  /\ Absent \notin Payload \cup Digest
  /\ Sent \subseteq Content
  /\ MaxTx \in Nat
  /\ MaxBeside \in Nat

LastAction == {"issue", "revoke"}

\* A transaction of the journal: a revoke has no digest of the document.
Entered == [tx : Nat, doc : Document, action : LastAction,
            digest : Digest \cup {Absent}]

\* An entry of documents.json: the content is stored as it was applied.
Stored == [content : Content, lastTx : Nat, lastAction : LastAction]

\* What the journal has to say of a document.
Summary == [digest : Digest \cup {Absent}, lastTx : Nat, lastAction : LastAction]

ASSUME RegistryAbsentAssumption ==
  Absent \notin Stored /\ Absent \notin Content /\ Absent \notin Summary

Registered == [Document -> Stored \cup {Absent}]

NothingStored == [d \in Document |-> Absent]

VARIABLES
  chain,       \* the transactions of the journal in memory, in order
  chainFile,   \* those in nodes.json
  docs,        \* documents.json
  clerk,       \* clerk[w]: where worker w is, and its locals
  drawn,       \* history: the last transaction id drawn
  undisturbed, \* history: the last request to start had nobody beside it
  inStep       \* history: since the last reset without trouble no two requests
               \* overlapped, nothing failed, no request was cut short and no
               \* demonstration was accepted

registryVars ==
  <<chain, chainFile, docs, clerk, drawn, undisturbed, inStep>>

Clerk == [pc      : {"idle", "check", "append", "clear", "copy", "save", "read",
                     "put", "blank"},
          request : LastAction \cup {"demo", "reset"},
          doc     : Document \cup {Absent},
          content : Content \cup {Absent},
          tx      : Nat,                      \* the transaction appended
          copy    : Seq(Entered),             \* the journal to save
          file    : Registered]               \* the registry to write

Unoccupied ==
  [pc |-> "idle", request |-> "reset", doc |-> Absent, content |-> Absent,
   tx |-> 0, copy |-> <<>>, file |-> NothingStored]

\* The journal holds transactions, the registry entries, every request is at one
\* of its steps.
RegistryTypeOK ==
  /\ chain \in Seq(Entered)
  /\ chainFile \in Seq(Entered)
  /\ docs \in Registered
  /\ clerk \in [Worker -> Clerk]
  /\ drawn \in Nat
  /\ undisturbed \in BOOLEAN
  /\ inStep \in BOOLEAN

RegistryInit ==
  /\ chain = <<>>
  /\ chainFile = <<>>
  /\ docs = NothingStored
  /\ clerk = [w \in Worker |-> Unoccupied]
  /\ drawn = 0
  /\ undisturbed = TRUE
  /\ inStep = TRUE

-----------------------------------------------------------------------------
(***************************************************************************)
(* The hashes of a request.                                                *)
(***************************************************************************)

\* Mutant of Consistent: the digest the client sent is taken on trust.
ConsistentAlways(part) == TRUE

\* A digest that is sent with a payload must be that of the payload.
Consistent(part) ==
  part.digest # Absent /\ part.payload # Absent
    => part.digest = HashOf[part.payload]

\* A payload without a digest is hashed.
Hashed(part) ==
  IF part.digest = Absent /\ part.payload # Absent
    THEN [part EXCEPT !.digest = HashOf[part.payload]]
    ELSE part

\* A document needs a digest or a payload, its metadata may have neither.
Applicable(content) ==
  /\ content.document.digest # Absent \/ content.document.payload # Absent
  /\ Consistent(content.document)
  /\ Consistent(content.metadata)

Applied(content) ==
  [document |-> Hashed(content.document), metadata |-> Hashed(content.metadata)]

-----------------------------------------------------------------------------
(***************************************************************************)
(* The steps of a request.                                                 *)
(***************************************************************************)

Engage(w, pc, request, d, content) ==
  /\ clerk[w].pc = "idle"
  /\ drawn < IF OthersIdle(clerk, w) THEN MaxTx ELSE MaxBeside
  /\ clerk' = [clerk EXCEPT ![w] =
                 [Unoccupied EXCEPT !.pc = pc, !.request = request,
                                    !.doc = d, !.content = content]]
  /\ undisturbed' = OthersIdle(clerk, w)
  /\ inStep' = (inStep /\ OthersIdle(clerk, w))
  /\ UNCHANGED <<chain, chainFile, docs, drawn>>

RequestIssue(w) ==
  \E d \in Document, content \in Sent :
    /\ Applicable(content)
    /\ Engage(w, "append", "issue", d, Applied(content))

RequestRevoke(w) ==
  \E d \in Document : Engage(w, "check", "revoke", d, Absent)

RequestDemo(w) ==
  \E d \in Document : Engage(w, "check", "demo", d, Absent)

RequestReset(w) == Engage(w, "clear", "reset", Absent, Absent)

Proceed(w, pc) == clerk' = [clerk EXCEPT ![w].pc = pc]

Leave(w) == clerk' = [clerk EXCEPT ![w] = Unoccupied]

Trouble == undisturbed' = FALSE /\ inStep' = FALSE

Issued(d) ==
  \E i \in DOMAIN chain : chain[i].doc = d /\ chain[i].action = "issue"

CheckIssued(w) ==
  /\ clerk[w].pc = "check"
  /\ IF Issued(clerk[w].doc) THEN Proceed(w, "append") ELSE Leave(w)
  /\ UNCHANGED <<chain, chainFile, docs, drawn, undisturbed, inStep>>

ActionOf(request) == IF request = "issue" THEN "issue" ELSE "revoke"

\* The digest a transaction is appended with.
DigestOf(content) ==
  IF content = Absent THEN Absent ELSE content.document.digest

EnterTx(w) ==
  /\ clerk[w].pc = "append"
  /\ chain' = Append(chain, [tx |-> drawn + 1, doc |-> clerk[w].doc,
                             action |-> ActionOf(clerk[w].request),
                             digest |-> DigestOf(clerk[w].content)])
  /\ drawn' = drawn + 1
  /\ clerk' = [clerk EXCEPT ![w].pc = "copy", ![w].tx = drawn + 1]
  /\ inStep' = (inStep /\ clerk[w].request # "demo")
  /\ UNCHANGED <<chainFile, docs, undisturbed>>

ClearChain(w) ==
  /\ clerk[w].pc = "clear"
  /\ chain' = <<>>
  /\ Proceed(w, "copy")
  /\ UNCHANGED <<chainFile, docs, drawn, undisturbed, inStep>>

CopyChain(w) ==
  /\ clerk[w].pc = "copy"
  /\ clerk' = [clerk EXCEPT ![w].pc = "save", ![w].copy = chain]
  /\ UNCHANGED <<chain, chainFile, docs, drawn, undisturbed, inStep>>

\* After the journal the registry: a reset empties it, an issue and a revoke
\* read it, a demonstration leaves it alone.
AfterSave(w) ==
  \/ clerk[w].request = "reset"     /\ Proceed(w, "blank")
  \/ clerk[w].request = "demo"      /\ Leave(w)
  \/ clerk[w].request \in LastAction /\ Proceed(w, "read")

SaveChain(w) ==
  /\ clerk[w].pc = "save"
  /\ chainFile' = clerk[w].copy
  /\ AfterSave(w)
  /\ UNCHANGED <<chain, docs, drawn, undisturbed, inStep>>

\* The others go on when the journal is not saved, a reset ends.
SaveChainFails(w) ==
  /\ FaultyIO
  /\ clerk[w].pc = "save"
  /\ IF clerk[w].request = "reset" THEN Leave(w) ELSE AfterSave(w)
  /\ Trouble
  /\ UNCHANGED <<chain, chainFile, docs, drawn>>

\* Mutants of Upserted: the content is forgotten; the entry keeps the content it
\* had.
UpsertedBare(w, file) ==
  [file EXCEPT ![clerk[w].doc] =
     [content |-> Absent, lastTx |-> clerk[w].tx, lastAction |-> "issue"]]

UpsertedInPart(w, file) ==
  [file EXCEPT ![clerk[w].doc] =
     [content    |-> IF @ = Absent THEN clerk[w].content ELSE @.content,
      lastTx     |-> clerk[w].tx,
      lastAction |-> "issue"]]

\* UpsertDocument replaces the whole entry.
Upserted(w, file) ==
  [file EXCEPT ![clerk[w].doc] =
     [content    |-> clerk[w].content,
      lastTx     |-> clerk[w].tx,
      lastAction |-> "issue"]]

\* Mutant of Marked: the transaction stays the issue.
MarkedByAction(w, file) ==
  [file EXCEPT ![clerk[w].doc].lastAction = "revoke"]

\* UpsertDocumentLastAction keeps the content of the entry.
Marked(w, file) ==
  [file EXCEPT ![clerk[w].doc].lastTx = clerk[w].tx,
               ![clerk[w].doc].lastAction = "revoke"]

\* An issue whose read fails starts from an empty registry.
ReadForIssue(w) ==
  /\ clerk[w].pc = "read" /\ clerk[w].request = "issue"
  /\ \/ /\ clerk' = [clerk EXCEPT ![w].pc = "put",
                                  ![w].file = Upserted(w, docs)]
        /\ UNCHANGED <<undisturbed, inStep>>
     \/ /\ FaultyIO
        /\ clerk' = [clerk EXCEPT ![w].pc = "put",
                                  ![w].file = Upserted(w, NothingStored)]
        /\ Trouble
  /\ UNCHANGED <<chain, chainFile, docs, drawn>>

\* A revoke without an entry, or whose read fails, leaves the registry alone.
ReadForRevoke(w) ==
  /\ clerk[w].pc = "read" /\ clerk[w].request = "revoke"
  /\ \/ /\ IF docs[clerk[w].doc] = Absent
             THEN Leave(w)
             ELSE clerk' = [clerk EXCEPT ![w].pc = "put",
                                         ![w].file = Marked(w, docs)]
        /\ UNCHANGED <<undisturbed, inStep>>
     \/ FaultyIO /\ Leave(w) /\ Trouble
  /\ UNCHANGED <<chain, chainFile, docs, drawn>>

PutDocs(w) ==
  /\ clerk[w].pc = "put"
  /\ docs' = clerk[w].file
  /\ Leave(w)
  /\ UNCHANGED <<chain, chainFile, drawn, undisturbed, inStep>>

PutDocsFails(w) ==
  /\ FaultyIO
  /\ clerk[w].pc = "put"
  /\ Leave(w)
  /\ Trouble
  /\ UNCHANGED <<chain, chainFile, docs, drawn>>

BlankDocs(w) ==
  /\ clerk[w].pc = "blank"
  /\ docs' = NothingStored
  /\ Leave(w)
  /\ inStep' = undisturbed
  /\ UNCHANGED <<chain, chainFile, drawn, undisturbed>>

\* The logs, or the registry, cannot be written.
BlankDocsFails(w) ==
  /\ FaultyIO
  /\ clerk[w].pc = "blank"
  /\ Leave(w)
  /\ Trouble
  /\ UNCHANGED <<chain, chainFile, docs, drawn>>

\* The process stops and starts; a journal that cannot be read is empty.
RestartRegistry ==
  /\ chain' \in {chainFile} \cup (IF FaultyIO THEN {<<>>} ELSE {})
  /\ clerk' = [w \in Worker |-> Unoccupied]
  /\ undisturbed' = (NoneBusy(clerk) /\ chain' = chainFile)
  /\ inStep' = (inStep /\ undisturbed')
  /\ UNCHANGED <<chainFile, docs, drawn>>

-----------------------------------------------------------------------------

RegistryNext ==
  \/ \E w \in Worker :
       \/ RequestIssue(w) \/ RequestRevoke(w)
       \/ RequestDemo(w)  \/ RequestReset(w)
       \/ CheckIssued(w)  \/ EnterTx(w)        \/ ClearChain(w)
       \/ CopyChain(w)    \/ SaveChain(w)      \/ SaveChainFails(w)
       \/ ReadForIssue(w) \/ ReadForRevoke(w)
       \/ PutDocs(w)      \/ PutDocsFails(w)
       \/ BlankDocs(w)    \/ BlankDocsFails(w)
  \/ RestartRegistry

RegistrySpec == RegistryInit /\ [][RegistryNext]_registryVars

-----------------------------------------------------------------------------

\* What the registry would hold if it were derived from the journal: of every
\* issued document the digest of its last issue and its last transaction.
Derived(d) ==
  LET about(a) == {i \in DOMAIN chain :
                     chain[i].doc = d /\ chain[i].action \in a}
      last(a)  == CHOOSE i \in about(a) : \A j \in about(a) : j <= i
  IN  IF about({"issue"}) = {}
        THEN Absent
        ELSE [digest     |-> chain[last({"issue"})].digest,
              lastTx     |-> chain[last(LastAction)].tx,
              lastAction |-> chain[last(LastAction)].action]

\* As long as requests come one at a time, none of their reads and writes fails,
\* none is cut short and no demonstration is accepted, the registry says of every
\* document what the journal says, through issues anew, revokes, resets and
\* restarts (documents.go 12-53, server.go 302-311, 376-378, 446;
\* BBSI_HASHCHAIN.md 272).
RegistryIsView ==
  NoneBusy(clerk) /\ inStep =>
    \A d \in Document :
      IF docs[d] = Absent
        THEN Derived(d) = Absent
        ELSE Derived(d) = [digest     |-> docs[d].content.document.digest,
                           lastTx     |-> docs[d].lastTx,
                           lastAction |-> docs[d].lastAction]

\* A registry in the file or about to be written.
Registries == {docs} \cup {clerk[w].file : w \in Worker}

\* A digest is that of the payload beside it, in every entry, whatever requests
\* overlap and fail: an update never mixes two issues (server.go 214-267,
\* documents.go 26-30, 47-49).
PayloadsMatch ==
  \A file \in Registries : \A d \in Document :
    file[d] # Absent =>
      \A part \in {file[d].content.document, file[d].content.metadata} :
        part.payload # Absent => part.digest = HashOf[part.payload]

\* The transaction an entry names is, where the journal has it, one about the
\* same document, with the action and the digest of the entry; ids are never
\* drawn again, whatever overlaps, fails or is lost (server.go 297-311,
\* 371-376).
EntryNamesTx ==
  \A file \in Registries : \A d \in Document :
    file[d] # Absent => \A i \in DOMAIN chain :
      chain[i].tx = file[d].lastTx =>
        /\ chain[i].doc = d
        /\ chain[i].action = file[d].lastAction
        /\ file[d].lastAction = "issue" =>
             chain[i].digest = file[d].content.document.digest

=============================================================================
