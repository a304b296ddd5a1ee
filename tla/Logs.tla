-------------------------------- MODULE Logs --------------------------------
(***************************************************************************)
(* The operation log (Store.opLog and logs.json) and the attack log        *)
(* (Server.attackBuf and attack_logs.json), which are kept in the same way *)
(* with other limits: a message is added to the buffer under its mutex,    *)
(* the buffer is copied under the mutex, the file is written under the     *)
(* mutex of the database.  Requests differ in what they do to the buffer:  *)
(*                                                                         *)
(*   report      messages (operation log)                                  *)
(*   simulation  empty the buffer, then messages (attack log)              *)
(*   reset       empty the buffer (both logs)                              *)
(*                                                                         *)
(* A message is its number: the texts do not matter.                       *)
(***************************************************************************)
EXTENDS Handlers

CONSTANTS
  Limit,       \* entries the buffer may hold: 2000 and 500
  Keep,        \* entries left when it holds more: 1500 and 400
  MaxSteps,    \* bound on the messages of one request
  MaxLogged    \* bound: no request starts after so many messages

ASSUME LogsAssumption ==
  /\ Limit \in Nat
  /\ Keep \in 1 .. Limit
  /\ MaxSteps \in Nat
  /\ MaxLogged \in Nat

VARIABLES
  buffer,      \* the messages in memory
  logFile,     \* the messages in the file
  scribe,      \* scribe[w]: where worker w is, and its locals
  logged,      \* history: the number of the last message
  trail,       \* history: all messages since the buffer was last emptied, or
               \* loaded
  inTurn       \* history: the last request to start had nobody beside it
               \* since, and none of its writes failed

logsVars == <<buffer, logFile, scribe, logged, trail, inTurn>>

Message == Nat

Kind == {"report", "simulation", "reset"}

Scribe == [pc    : {"idle", "empty", "log", "copy", "write"},
           kind  : Kind,
           left  : Nat,              \* messages still to log
           copy  : Seq(Message),     \* what will be written
           since : Nat]              \* history: logged when it started

NotLogging ==
  [pc |-> "idle", kind |-> "report", left |-> 0, copy |-> <<>>, since |-> 0]

\* The buffers and the file hold messages, every request is at a step of it.
LogsTypeOK ==
  /\ buffer \in Seq(Message)
  /\ logFile \in Seq(Message)
  /\ scribe \in [Worker -> Scribe]
  /\ logged \in Nat
  /\ trail \in Seq(Message)
  /\ inTurn \in BOOLEAN

LogsInit ==
  /\ buffer = <<>>
  /\ logFile = <<>>
  /\ scribe = [w \in Worker |-> NotLogging]
  /\ logged = 0
  /\ trail = <<>>
  /\ inTurn = TRUE

-----------------------------------------------------------------------------

BeginLogging(w, kind, pc, n) ==
  /\ scribe[w].pc = "idle"
  /\ logged < MaxLogged
  /\ scribe' = [scribe EXCEPT ![w] =
                  [pc |-> pc, kind |-> kind, left |-> n, copy |-> <<>>,
                   since |-> logged]]
  /\ inTurn' = OthersIdle(scribe, w)
  /\ UNCHANGED <<buffer, logFile, logged, trail>>

StartReport(w) ==
  \E n \in 1 .. MaxSteps : BeginLogging(w, "report", "log", n)

StartSimulation(w) ==
  \E n \in 1 .. MaxSteps : BeginLogging(w, "simulation", "empty", n)

StartLogReset(w) == BeginLogging(w, "reset", "empty", 0)

\* Mutant of EmptyBuffer: the buffer is left as it is.
EmptyNothing(w) ==
  /\ scribe[w].pc = "empty"
  /\ trail' = <<>>
  /\ scribe' = [scribe EXCEPT ![w].pc = "copy"]
  /\ UNCHANGED <<buffer, logFile, logged, inTurn>>

\* Mutant of EmptyBuffer: the file is not written.
EmptyUnsaved(w) ==
  /\ scribe[w].pc = "empty"
  /\ buffer' = <<>>
  /\ trail' = <<>>
  /\ scribe' = [scribe EXCEPT ![w].pc = IF scribe[w].left = 0 THEN "idle"
                                                              ELSE "log"]
  /\ UNCHANGED <<logFile, logged, inTurn>>

EmptyBuffer(w) ==
  /\ scribe[w].pc = "empty"
  /\ buffer' = <<>>
  /\ trail' = <<>>
  /\ scribe' = [scribe EXCEPT ![w].pc = "copy"]
  /\ UNCHANGED <<logFile, logged, inTurn>>

\* Mutants of Cut: the oldest messages are kept; one message too late.
CutNewest(s) == IF Len(s) > Limit THEN SubSeq(s, 1, Keep) ELSE s

CutLate(s) ==
  IF Len(s) > Limit + 1 THEN SubSeq(s, Len(s) - Keep + 1, Len(s)) ELSE s

\* A buffer beyond its limit keeps its newest messages.
Cut(s) == IF Len(s) > Limit THEN SubSeq(s, Len(s) - Keep + 1, Len(s)) ELSE s

LogMessage(w) ==
  /\ scribe[w].pc = "log"
  /\ buffer' = Cut(Append(buffer, logged + 1))
  /\ trail' = Append(trail, logged + 1)
  /\ logged' = logged + 1
  /\ scribe' = [scribe EXCEPT ![w].pc = "copy", ![w].left = @ - 1]
  /\ UNCHANGED <<logFile, inTurn>>

CopyBuffer(w) ==
  /\ scribe[w].pc = "copy"
  /\ scribe' = [scribe EXCEPT ![w].pc = "write", ![w].copy = buffer]
  /\ UNCHANGED <<buffer, logFile, logged, trail, inTurn>>

\* ResetChainAndLogs gives up before the operation log is saved when nodes.json
\* cannot be written.
SkipSave(w) ==
  /\ FaultyIO
  /\ scribe[w].pc = "copy"
  /\ scribe[w].kind = "reset"
  /\ scribe' = [scribe EXCEPT ![w] = NotLogging]
  /\ inTurn' = FALSE
  /\ UNCHANGED <<buffer, logFile, logged, trail>>

\* Mutant of GoOn: one message too many.
GoOnPastEnd(w) ==
  scribe' = [scribe EXCEPT ![w] = IF scribe[w].left < 0
                                    THEN NotLogging
                                    ELSE [@ EXCEPT !.pc = "log",
                                                   !.copy = <<>>]]

\* The next message of the request, or its end.
GoOn(w) ==
  scribe' = [scribe EXCEPT ![w] = IF scribe[w].left = 0
                                    THEN NotLogging
                                    ELSE [@ EXCEPT !.pc = "log",
                                                   !.copy = <<>>]]

WriteLog(w) ==
  /\ scribe[w].pc = "write"
  /\ logFile' = scribe[w].copy
  /\ GoOn(w)
  /\ UNCHANGED <<buffer, logged, trail, inTurn>>

\* Nobody looks at the error.
WriteLogFails(w) ==
  /\ FaultyIO
  /\ scribe[w].pc = "write"
  /\ GoOn(w)
  /\ inTurn' = FALSE
  /\ UNCHANGED <<buffer, logFile, logged, trail>>

\* The process stops and starts: both logs are loaded, or left empty when the
\* file cannot be read.
RestartLogs ==
  /\ buffer' \in {logFile} \cup (IF FaultyIO THEN {<<>>} ELSE {})
  /\ trail' = buffer'
  /\ scribe' = [w \in Worker |-> NotLogging]
  /\ inTurn' = (buffer' = logFile)
  /\ UNCHANGED <<logFile, logged>>

-----------------------------------------------------------------------------

LogsNext ==
  \/ \E w \in Worker :
       \/ StartReport(w) \/ StartSimulation(w) \/ StartLogReset(w)
       \/ EmptyBuffer(w) \/ LogMessage(w)      \/ CopyBuffer(w)
       \/ SkipSave(w)    \/ WriteLog(w)        \/ WriteLogFails(w)
  \/ RestartLogs

LogsSpec == LogsInit /\ [][LogsNext]_logsVars

-----------------------------------------------------------------------------

\* A log is never longer than its limit, in memory, in the file or in a copy
\* that will be written: the start loads the file without cutting it (store.go
\* 81-94, persistence.go 170-184).
LogBounded ==
  /\ Len(buffer) <= Limit
  /\ Len(logFile) <= Limit
  /\ \A w \in Worker : Len(scribe[w].copy) <= Limit

\* Whatever requests overlap, the buffer holds the newest messages in the order
\* they were logged, without a gap, and as many as were to be kept (store.go
\* 84-87, server.go 55-58).
NewestKept ==
  /\ Len(buffer) <= Len(trail)
  /\ Len(buffer) < Keep => Len(buffer) = Len(trail)
  /\ \A i \in 1 .. Len(buffer) :
       buffer[i] = trail[Len(trail) - Len(buffer) + i]

\* The file of a log is its buffer whenever the last request had nobody beside
\* it and its writes succeeded, however many requests before it overlapped,
\* failed or were cut short (store.go 59-94, server.go 43-71).
LogFileFollows == NoneBusy(scribe) /\ inTurn => logFile = buffer

\* While a simulation has nobody beside it the attack log holds its own steps
\* and no other (server.go 537-545, 565-573, 594-601).
OwnSteps ==
  \A w \in Worker :
    ( /\ inTurn
      /\ scribe[w].kind = "simulation"
      /\ scribe[w].pc \in {"log", "copy", "write"} )
    => \A i \in DOMAIN buffer : buffer[i] > scribe[w].since

=============================================================================
