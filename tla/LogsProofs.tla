----------------------------- MODULE LogsProofs -----------------------------
(***************************************************************************)
(* The logs, for every limit, any number of requests at once, failing      *)
(* writes and restarts.                                                    *)
(*                                                                         *)
(* The file can become the buffer (a start) and a copy can become the file *)
(* (a late write), so that the bound is one of all three.  That the file   *)
(* follows the buffer is inductive together with where the only request    *)
(* under way has come to: what it will write is the buffer.                *)
(***************************************************************************)
EXTENDS Logs, SequenceTheorems, TLAPS

\* At most one request is under way.
AtMostOne ==
  \A w, v \in Worker : scribe[w].pc # "idle" /\ scribe[v].pc # "idle" => w = v

\* What a request without company is about to write.
AboutToFollow ==
  /\ AtMostOne
  /\ NoneBusy(scribe) => logFile = buffer
  /\ \A w \in Worker : scribe[w].pc = "write" => scribe[w].copy = buffer

\* No request started in the future, and one that logs has something to log.
ScribesPlausible ==
  \A w \in Worker :
    /\ scribe[w].since <= logged
    /\ scribe[w].pc = "log" => scribe[w].left > 0

LogsInv ==
  /\ LogsTypeOK
  /\ ScribesPlausible
  /\ LogBounded
  /\ NewestKept
  /\ inTurn => AboutToFollow
  /\ OwnSteps

-----------------------------------------------------------------------------

\* What NewestKept says of the buffer and all the messages: it is their end.
EndOf(b, t) ==
  /\ Len(b) <= Len(t)
  /\ \A i \in 1 .. Len(b) : b[i] = t[Len(t) - Len(b) + i]

\* A message at the end of both leaves the one the end of the other.
LEMMA EndOfBothExtended ==
  ASSUME NEW b \in Seq(Message), NEW t \in Seq(Message), NEW m \in Message,
         EndOf(b, t)
  PROVE  EndOf(Append(b, m), Append(t, m))
<1> DEFINE s == Append(b, m)
           u == Append(t, m)
<1>1. /\ Len(b) \in Nat /\ Len(t) \in Nat /\ Len(b) <= Len(t)
      /\ Len(s) = Len(b) + 1 /\ Len(u) = Len(t) + 1
  BY DEF EndOf
<1>2. ASSUME NEW i \in 1 .. Len(s)
      PROVE  s[i] = u[Len(u) - Len(s) + i]
  <2> DEFINE k == Len(t) - Len(b) + i
  <2>1. Len(u) - Len(s) + i = k /\ i \in Int /\ k \in Int
    BY <1>1
  <2>2. CASE i = Len(b) + 1
    <3>1. s[i] = m
      BY <2>2
    <3>2. k = Len(t) + 1
      BY <2>2, <1>1
    <3>3. u[Len(t) + 1] = m
      OBVIOUS
    <3> QED
      BY <2>1, <3>1, <3>2, <3>3
  <2>3. CASE i \in 1 .. Len(b)
    <3>1. s[i] = b[i]
      BY <2>3
    <3>2. b[i] = t[k]
      BY <2>3 DEF EndOf
    <3>3. k \in 1 .. Len(t)
      BY <2>3, <1>1
    <3>4. u[k] = t[k]
      BY <3>3
    <3> QED
      BY <2>1, <3>1, <3>2, <3>4
  <2> QED
    BY <1>1, <2>2, <2>3
<1>3. EndOf(s, u)
  <2> HIDE DEF s, u
  <2> QED
    BY <1>1, <1>2 DEF EndOf
<1> QED
  BY <1>3

\* The end of the end is the end.
LEMMA EndOfEnd ==
  ASSUME NEW c \in Seq(Message), NEW s \in Seq(Message), NEW t \in Seq(Message),
         EndOf(c, s), EndOf(s, t)
  PROVE  EndOf(c, t)
<1>1. /\ Len(c) \in Nat /\ Len(s) \in Nat /\ Len(t) \in Nat
      /\ Len(c) <= Len(s) /\ Len(s) <= Len(t)
  BY DEF EndOf
<1>2. ASSUME NEW i \in 1 .. Len(c)
      PROVE  c[i] = t[Len(t) - Len(c) + i]
  <2> DEFINE k == Len(s) - Len(c) + i
  <2>1. k \in 1 .. Len(s) /\ i \in Int
    BY <1>1
  <2>2. c[i] = s[k]
    BY DEF EndOf
  <2> HIDE DEF k
  <2>3. s[k] = t[Len(t) - Len(s) + k]
    BY <2>1 DEF EndOf
  <2>4. Len(t) - Len(s) + k = Len(t) - Len(c) + i
    BY <1>1, <2>1 DEF k
  <2> QED
    BY <2>2, <2>3, <2>4
<1> QED
  BY <1>1, <1>2 DEF EndOf

\* What is left of a log after a cut: its newest messages, no more than the
\* limit, and all of them or as many as are to be kept.
LEMMA CutKeepsNewest ==
  ASSUME NEW s \in Seq(Message)
  PROVE  /\ Cut(s) \in Seq(Message)
         /\ Len(Cut(s)) <= Limit
         /\ Len(Cut(s)) < Keep => Len(Cut(s)) = Len(s)
         /\ EndOf(Cut(s), s)
<1>1. Limit \in Nat /\ Keep \in 1 .. Limit /\ Len(s) \in Nat
  BY LogsAssumption
<1>2. CASE Len(s) <= Limit
  <2>1. Cut(s) = s
    BY <1>1, <1>2 DEF Cut
  <2>2. EndOf(s, s)
    BY <1>1 DEF EndOf
  <2> QED
    BY <1>1, <1>2, <2>1, <2>2
<1>3. CASE Len(s) > Limit
  <2> DEFINE m == Len(s) - Keep + 1
             n == Len(s)
             c == SubSeq(s, m, n)
  <2>1. m \in 1 .. Len(s) /\ n \in m - 1 .. Len(s) /\ n - m + 1 = Keep
    BY <1>1, <1>3
  <2>2. \A i \in m .. n : s[i] \in Message
    BY <2>1
  <2>3. Cut(s) = c
    BY <1>1, <1>3 DEF Cut
  <2>4. /\ Len(c) = Keep
        /\ c \in Seq(Message)
        /\ \A i \in 1 .. Keep : c[i] = s[m + i - 1]
    BY <2>1, SubSeqProperties
  <2>5. EndOf(c, s)
    <3> HIDE DEF c
    <3>1. ASSUME NEW i \in 1 .. Keep
          PROVE  m + i - 1 = Len(s) - Keep + i
      BY <1>1
    <3> QED
      BY <1>1, <1>3, <2>4, <3>1 DEF EndOf
  <2> QED
    BY <1>1, <1>3, <2>3, <2>4, <2>5
<1> QED
  BY <1>1, <1>2, <1>3

\* A new message at the end of the log, and the cut after it.
LEMMA NewMessageKept ==
  ASSUME NEW b \in Seq(Message), NEW t \in Seq(Message), NEW m \in Message,
         EndOf(b, t), Len(b) < Keep => Len(b) = Len(t)
  PROVE  LET c == Cut(Append(b, m))
             u == Append(t, m)
         IN  /\ c \in Seq(Message) /\ u \in Seq(Message)
             /\ Len(c) <= Limit
             /\ EndOf(c, u)
             /\ Len(c) < Keep => Len(c) = Len(u)
             /\ \A i \in DOMAIN c : c[i] = m \/ \E j \in DOMAIN b : c[i] = b[j]
<1> DEFINE s == Append(b, m)
           c == Cut(s)
           u == Append(t, m)
<1>1. /\ s \in Seq(Message) /\ u \in Seq(Message)
      /\ Len(s) = Len(b) + 1 /\ Len(u) = Len(t) + 1
      /\ Len(b) \in Nat /\ Len(t) \in Nat
  OBVIOUS
<1>2. EndOf(s, u)
  BY EndOfBothExtended
<1>3. /\ c \in Seq(Message)
      /\ Len(c) <= Limit
      /\ Len(c) < Keep => Len(c) = Len(s)
      /\ EndOf(c, s)
  BY <1>1, CutKeepsNewest
<1> HIDE DEF c
<1>4. EndOf(c, u)
  BY <1>1, <1>2, <1>3, EndOfEnd
<1>5. Len(c) < Keep => Len(c) = Len(u)
  BY <1>1, <1>3, LogsAssumption
<1>6. ASSUME NEW i \in DOMAIN c
      PROVE  c[i] = m \/ \E j \in DOMAIN b : c[i] = b[j]
  <2> DEFINE k == Len(s) - Len(c) + i
  <2>1. Len(c) \in Nat /\ i \in 1 .. Len(c) /\ Len(c) <= Len(s)
    BY <1>3 DEF EndOf
  <2>2. k \in 1 .. Len(s) /\ c[i] = s[k]
    <3> HIDE DEF s
    <3>1. Len(s) \in Nat
      BY <1>1
    <3>2. k \in 1 .. Len(s)
      BY <2>1, <3>1
    <3> QED
      BY <1>3, <2>1, <3>2 DEF EndOf
  <2> HIDE DEF k
  <2>3. CASE k = Len(b) + 1
    BY <2>2, <2>3
  <2>4. CASE k \in 1 .. Len(b)
    <3>1. s[k] = b[k] /\ k \in DOMAIN b
      BY <2>4
    <3> QED
      BY <2>2, <3>1
  <2> QED
    BY <1>1, <2>2, <2>3, <2>4
<1>7. c = Cut(Append(b, m)) /\ u = Append(t, m)
  BY DEF c
<1> HIDE DEF s, u
<1> QED
  BY <1>1, <1>3, <1>4, <1>5, <1>6, <1>7

-----------------------------------------------------------------------------

\* The invariant holds in the initial state.
LEMMA LogsInvInit == LogsInit => LogsInv
BY LogsAssumption DEF LogsInit, LogsInv, LogsTypeOK, Scribe, Kind, NotLogging,
   Message, ScribesPlausible, LogBounded, NewestKept, AboutToFollow, AtMostOne,
   NoneBusy, OwnSteps

\* The start of a request keeps the invariant.
LEMMA BeginLoggingKeeps ==
  ASSUME LogsInv, NEW w \in Worker, NEW kind \in Kind,
         NEW pc \in {"empty", "log"}, NEW n \in Nat,
         pc = "log" => n > 0 /\ kind = "report",
         BeginLogging(w, kind, pc, n)
  PROVE  LogsInv'
<1> USE DEF BeginLogging, LogsInv
<1>1. LogsTypeOK'
  BY DEF LogsTypeOK, Scribe, Message, OthersIdle
<1>2. ScribesPlausible'
  BY DEF ScribesPlausible, LogsTypeOK, Scribe
<1>3. LogBounded'
  BY LogsAssumption DEF LogBounded, LogsTypeOK, Scribe
<1>4. NewestKept'
  BY DEF NewestKept
<1>5. inTurn' => \A v \in Worker \ {w} : scribe'[v].pc = "idle"
  BY DEF OthersIdle, LogsTypeOK
<1>6. scribe'[w].pc = pc /\ scribe'[w].kind = kind
  BY DEF LogsTypeOK
<1>7. inTurn' => AboutToFollow'
  BY <1>5, <1>6 DEF AboutToFollow, AtMostOne, NoneBusy
<1>8. OwnSteps'
  BY <1>5, <1>6 DEF OwnSteps
<1> QED
  BY <1>1, <1>2, <1>3, <1>4, <1>7, <1>8

\* Emptying the buffer keeps it.
LEMMA EmptyBufferKeeps ==
  ASSUME LogsInv, NEW w \in Worker, EmptyBuffer(w)
  PROVE  LogsInv'
<1> USE DEF EmptyBuffer, LogsInv
<1>1. LogsTypeOK'
  <2>1. scribe[w] \in Scribe /\ [scribe[w] EXCEPT !.pc = "copy"] \in Scribe
    BY DEF LogsTypeOK, Scribe
  <2> QED
    BY <2>1 DEF LogsTypeOK
<1>2. ScribesPlausible'
  BY DEF ScribesPlausible, LogsTypeOK, Scribe
<1>3. LogBounded'
  BY LogsAssumption DEF LogBounded, LogsTypeOK, Scribe
<1>4. NewestKept'
  BY DEF NewestKept
<1>5. inTurn' => AboutToFollow'
  BY DEF AboutToFollow, AtMostOne, NoneBusy, LogsTypeOK
<1>6. OwnSteps'
  BY DEF OwnSteps
<1> QED
  BY <1>1, <1>2, <1>3, <1>4, <1>5, <1>6

\* A message keeps it: the lemma on the cut says what becomes of the buffer.
LEMMA LogMessageKeeps ==
  ASSUME LogsInv, NEW w \in Worker, LogMessage(w)
  PROVE  LogsInv'
<1> USE DEF LogMessage, LogsInv
<1>1. /\ buffer' \in Seq(Message) /\ trail' \in Seq(Message)
      /\ Len(buffer') <= Limit
      /\ EndOf(buffer', trail')
      /\ Len(buffer') < Keep => Len(buffer') = Len(trail')
      /\ \A i \in DOMAIN buffer' :
           \/ buffer'[i] = logged + 1
           \/ \E j \in DOMAIN buffer : buffer'[i] = buffer[j]
  <2>1. /\ buffer \in Seq(Message) /\ trail \in Seq(Message)
        /\ logged + 1 \in Message
        /\ EndOf(buffer, trail)
        /\ Len(buffer) < Keep => Len(buffer) = Len(trail)
    BY DEF LogsTypeOK, Message, EndOf, NewestKept
  <2> DEFINE c == Cut(Append(buffer, logged + 1))
             u == Append(trail, logged + 1)
  <2>2. buffer' = c /\ trail' = u
    OBVIOUS
  <2>3. /\ c \in Seq(Message) /\ u \in Seq(Message)
        /\ Len(c) <= Limit
        /\ EndOf(c, u)
        /\ Len(c) < Keep => Len(c) = Len(u)
        /\ \A i \in DOMAIN c :
             c[i] = logged + 1 \/ \E j \in DOMAIN buffer : c[i] = buffer[j]
    BY <2>1, NewMessageKept
  <2> HIDE DEF LogsInv, LogMessage, c, u
  <2> QED
    BY <2>2, <2>3
<1>2. LogsTypeOK'
  <2>1. /\ scribe[w] \in Scribe
        /\ [scribe[w] EXCEPT !.pc = "copy", !.left = @ - 1] \in Scribe
    <3>1. scribe[w] \in Scribe /\ scribe[w].left > 0
      BY DEF LogsTypeOK, ScribesPlausible
    <3>2. scribe[w].left \in Nat
      BY <3>1 DEF Scribe
    <3>3. scribe[w].left - 1 \in Nat
      BY <3>1, <3>2
    <3> HIDE DEF LogMessage, LogsInv
    <3> QED
      BY <3>1, <3>3 DEF Scribe
  <2> QED
    BY <1>1, <2>1 DEF LogsTypeOK
<1>3. ScribesPlausible'
  BY DEF ScribesPlausible, LogsTypeOK, Scribe
<1>4. LogBounded'
  BY <1>1 DEF LogBounded, LogsTypeOK, Scribe
<1>5. NewestKept'
  BY <1>1 DEF NewestKept, EndOf
<1>6. inTurn' => AboutToFollow'
  <2>1. \A v \in Worker :
          scribe'[v].pc = IF v = w THEN "copy" ELSE scribe[v].pc
    BY DEF LogsTypeOK, Scribe
  <2>2. inTurn => \A v \in Worker \ {w} : scribe[v].pc = "idle"
    BY DEF AboutToFollow, AtMostOne
  <2>3. inTurn' = inTurn
    OBVIOUS
  <2> HIDE DEF LogMessage, LogsInv
  <2>4. scribe'[w].pc # "idle"
    BY <2>1
  <2>5. inTurn' => AtMostOne'
    BY <2>1, <2>2, <2>3 DEF AtMostOne
  <2>6. ~ NoneBusy(scribe)'
    BY <2>4 DEF NoneBusy
  <2>7. inTurn' => \A v \in Worker : scribe'[v].pc # "write"
    BY <2>1, <2>2, <2>3
  <2> QED
    BY <2>5, <2>6, <2>7 DEF AboutToFollow
<1>7. OwnSteps'
  <2> SUFFICES ASSUME NEW v \in Worker, inTurn,
                      scribe'[v].kind = "simulation",
                      scribe'[v].pc \in {"log", "copy", "write"},
                      NEW i \in DOMAIN buffer'
               PROVE  buffer'[i] > scribe'[v].since
    BY DEF OwnSteps
  <2>1. /\ scribe[v].kind = "simulation"
        /\ scribe[v].pc \in {"log", "copy", "write"}
        /\ scribe'[v].since = scribe[v].since
        /\ scribe[v].since \in Nat /\ scribe[v].since <= logged
        /\ logged \in Nat
    BY DEF LogsTypeOK, Scribe, ScribesPlausible
  <2>2. \A j \in DOMAIN buffer : buffer[j] > scribe[v].since
    BY <2>1 DEF OwnSteps
  <2>3. CASE buffer'[i] = logged + 1
    BY <2>1, <2>3
  <2>4. CASE \E j \in DOMAIN buffer : buffer'[i] = buffer[j]
    BY <2>1, <2>2, <2>4
  <2> QED
    BY <1>1, <2>3, <2>4
<1> QED
  BY <1>2, <1>3, <1>4, <1>5, <1>6, <1>7

\* Copying the buffer keeps it.
LEMMA CopyBufferKeeps ==
  ASSUME LogsInv, NEW w \in Worker, CopyBuffer(w)
  PROVE  LogsInv'
<1> USE DEF CopyBuffer, LogsInv
<1>1. LogsTypeOK'
  BY DEF LogsTypeOK, Scribe
<1>2. ScribesPlausible'
  BY DEF ScribesPlausible, LogsTypeOK, Scribe
<1>3. LogBounded'
  BY DEF LogBounded, LogsTypeOK, Scribe
<1>4. NewestKept'
  BY DEF NewestKept
<1>5. inTurn' => AboutToFollow'
  BY DEF AboutToFollow, AtMostOne, NoneBusy, LogsTypeOK
<1>6. OwnSteps'
  BY DEF OwnSteps, LogsTypeOK
<1> QED
  BY <1>1, <1>2, <1>3, <1>4, <1>5, <1>6

\* A request goes on, or ends, with a new file or the old one: the file may be
\* anything that is not too long, and is the buffer when the request is alone.
LEMMA GoOnKeeps ==
  ASSUME LogsInv, NEW w \in Worker, GoOn(w),
         scribe[w].pc = "write",
         UNCHANGED <<buffer, logged, trail>>,
         logFile' \in {logFile, scribe[w].copy},
         inTurn' \in BOOLEAN,
         inTurn' => inTurn /\ logFile' = scribe[w].copy
  PROVE  LogsInv'
<1> USE DEF GoOn, LogsInv
<1>1. LogsTypeOK'
  <2>1. NotLogging \in Scribe
    BY DEF NotLogging, Scribe, Kind, Message
  <2>2. /\ scribe[w] \in Scribe
        /\ [scribe[w] EXCEPT !.pc = "log", !.copy = <<>>] \in Scribe
    <3>1. scribe[w] \in Scribe /\ <<>> \in Seq(Message)
      BY DEF LogsTypeOK
    <3> HIDE DEF GoOn, LogsInv
    <3> QED
      BY <3>1 DEF Scribe
  <2>3. scribe' \in [Worker -> Scribe]
    BY <2>1, <2>2 DEF LogsTypeOK
  <2>4. scribe[w].copy \in Seq(Message)
    BY <2>2 DEF Scribe
  <2> QED
    BY <2>3, <2>4 DEF LogsTypeOK
<1>2. ScribesPlausible'
  BY DEF ScribesPlausible, LogsTypeOK, Scribe, NotLogging
<1>3. LogBounded'
  <2>1. \A v \in Worker :
          scribe'[v].copy = scribe[v].copy \/ scribe'[v].copy = <<>>
    BY DEF LogsTypeOK, Scribe, NotLogging
  <2> QED
    BY <2>1, LogsAssumption DEF LogBounded
<1>4. NewestKept'
  BY DEF NewestKept
<1>5. inTurn' => AboutToFollow'
  <2>1. /\ \A v \in Worker \ {w} : scribe'[v] = scribe[v]
        /\ scribe'[w].pc \in {"idle", "log"}
    BY DEF LogsTypeOK, Scribe, NotLogging
  <2>2. inTurn => /\ \A v \in Worker \ {w} : scribe[v].pc = "idle"
                  /\ scribe[w].copy = buffer
    BY DEF AboutToFollow, AtMostOne
  <2> QED
    BY <2>1, <2>2 DEF AboutToFollow, AtMostOne, NoneBusy
<1>6. OwnSteps'
  BY DEF OwnSteps, LogsTypeOK, Scribe, NotLogging
<1> QED
  BY <1>1, <1>2, <1>3, <1>4, <1>5, <1>6

\* A reset that gives up keeps it.
LEMMA SkipSaveKeeps ==
  ASSUME LogsInv, NEW w \in Worker, SkipSave(w)
  PROVE  LogsInv'
<1> USE DEF SkipSave, LogsInv
<1>1. LogsTypeOK'
  <2>1. NotLogging \in Scribe
    BY DEF NotLogging, Scribe, Kind, Message
  <2> QED
    BY <2>1 DEF LogsTypeOK
<1>2. ScribesPlausible'
  BY DEF ScribesPlausible, LogsTypeOK, Scribe, NotLogging
<1>3. LogBounded'
  BY LogsAssumption DEF LogBounded, LogsTypeOK, NotLogging
<1>4. NewestKept'
  BY DEF NewestKept
<1>5. OwnSteps'
  BY DEF OwnSteps
<1> QED
  BY <1>1, <1>2, <1>3, <1>4, <1>5

\* A start keeps it: all of the buffer is what was loaded.
LEMMA RestartLogsKeeps ==
  ASSUME LogsInv, RestartLogs
  PROVE  LogsInv'
<1> USE DEF RestartLogs, LogsInv
<1>1. /\ buffer' = logFile \/ buffer' = <<>>
      /\ buffer' \in Seq(Message) /\ trail' = buffer'
      /\ Len(buffer') <= Limit /\ Len(buffer') \in Nat
  <2>1. buffer' = logFile \/ buffer' = <<>>
    OBVIOUS
  <2>2. CASE buffer' = logFile
    BY <2>2 DEF LogsTypeOK, LogBounded
  <2>3. CASE buffer' = <<>>
    BY <2>3, LogsAssumption DEF LogsTypeOK
  <2> QED
    BY <2>1, <2>2, <2>3
<1>2. \A v \in Worker : scribe'[v] = NotLogging
  OBVIOUS
<1>3. LogsTypeOK'
  BY <1>1 DEF LogsTypeOK, Scribe, NotLogging, Message, Kind
<1>4. ScribesPlausible'
  BY <1>2 DEF ScribesPlausible, NotLogging, LogsTypeOK
<1>5. LogBounded'
  BY <1>1, <1>2, LogsAssumption DEF LogBounded, NotLogging
<1>6. NewestKept'
  <2>1. \A i \in 1 .. Len(buffer') : Len(trail') - Len(buffer') + i = i
    BY <1>1
  <2> QED
    BY <1>1, <2>1 DEF NewestKept
<1>7. inTurn' => AboutToFollow'
  BY <1>2 DEF AboutToFollow, AtMostOne, NoneBusy, NotLogging
<1>8. OwnSteps'
  BY <1>2 DEF OwnSteps, NotLogging
<1> QED
  BY <1>3, <1>4, <1>5, <1>6, <1>7, <1>8

\* Every step keeps it.
LEMMA LogsInvNext == LogsInv /\ [LogsNext]_logsVars => LogsInv'
<1> SUFFICES ASSUME LogsInv, [LogsNext]_logsVars
             PROVE  LogsInv'
  OBVIOUS
<1> USE DEF Kind
<1>1. ASSUME NEW w \in Worker, StartReport(w)
      PROVE  LogsInv'
  BY <1>1, BeginLoggingKeeps, LogsAssumption DEF StartReport
<1>2. ASSUME NEW w \in Worker, StartSimulation(w)
      PROVE  LogsInv'
  BY <1>2, BeginLoggingKeeps, LogsAssumption DEF StartSimulation
<1>3. ASSUME NEW w \in Worker, StartLogReset(w)
      PROVE  LogsInv'
  BY <1>3, BeginLoggingKeeps DEF StartLogReset
<1>4. ASSUME NEW w \in Worker, WriteLog(w)
      PROVE  LogsInv'
  BY <1>4, GoOnKeeps DEF WriteLog, LogsInv, LogsTypeOK
<1>5. ASSUME NEW w \in Worker, WriteLogFails(w)
      PROVE  LogsInv'
  BY <1>5, GoOnKeeps DEF WriteLogFails
<1>6. CASE UNCHANGED logsVars
  BY <1>6 DEF logsVars, LogsInv, LogsTypeOK, ScribesPlausible, LogBounded,
     NewestKept, AboutToFollow, AtMostOne, NoneBusy, OwnSteps
<1> QED
  BY <1>1, <1>2, <1>3, <1>4, <1>5, <1>6, EmptyBufferKeeps, LogMessageKeeps,
     CopyBufferKeeps, SkipSaveKeeps, RestartLogsKeeps DEF LogsNext

\* The invariant holds always.
LEMMA LogsInvAlways == LogsSpec => []LogsInv
<1>1. LogsInit => LogsInv
  BY LogsInvInit
<1>2. LogsInv /\ [LogsNext]_logsVars => LogsInv'
  BY LogsInvNext
<1> QED
  BY <1>1, <1>2, PTL DEF LogsSpec

-----------------------------------------------------------------------------

\* Buffers, files and copies are sequences of messages, and every request is at
\* one of its steps (store.go 74-105, server.go 48-77).
THEOREM LogsTypeCorrect == LogsSpec => []LogsTypeOK
<1>1. LogsInv => LogsTypeOK
  BY DEF LogsInv
<1> QED
  BY <1>1, LogsInvAlways, PTL

\* A log is within its limit, in memory, in the file and in every copy that will
\* be written, although the start loads the file without cutting it (store.go
\* 81-94, persistence.go 170-184).
THEOREM LogBoundedAlways == LogsSpec => []LogBounded
<1>1. LogsInv => LogBounded
  BY DEF LogsInv
<1> QED
  BY <1>1, LogsInvAlways, PTL

\* A log keeps its newest messages in order and without a gap, in memory and in
\* the file, whatever requests overlap, fail or are cut short (store.go 81-94,
\* server.go 53-71).
THEOREM LogsKeepTheNewest == LogsSpec => []NewestKept
<1>1. LogsInv => NewestKept
  BY DEF LogsInv
<1> QED
  BY <1>1, LogsInvAlways, PTL

\* The file of a log is its buffer after a request without company and without a
\* failed write, whatever came before.
THEOREM LogFileCatchesUp == LogsSpec => []LogFileFollows
<1>1. LogsInv => LogFileFollows
  BY DEF LogsInv, LogFileFollows, AboutToFollow
<1> QED
  BY <1>1, LogsInvAlways, PTL

\* A simulation without company finds its own steps in the attack log and no
\* other.
THEOREM SimulationsLogAlone == LogsSpec => []OwnSteps
<1>1. LogsInv => OwnSteps
  BY DEF LogsInv
<1> QED
  BY <1>1, LogsInvAlways, PTL

=============================================================================
