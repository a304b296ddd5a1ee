------------------------------ MODULE Handlers ------------------------------
(***************************************************************************)
(* What the components beside the journal have in common.  A worker is the *)
(* goroutine that serves a request; a request is a chain of steps, each    *)
(* what the goroutine does while it holds one lock or makes one call of    *)
(* the system, so the steps of different workers interleave.  A file of    *)
(* the database is read and replaced as a whole under Database.mu.         *)
(***************************************************************************)
EXTENDS Integers, Sequences, FiniteSets

CONSTANTS
  Worker,      \* the goroutines that serve requests
  FaultyIO     \* TRUE: reading or writing a file may fail

ASSUME HandlersAssumption == FaultyIO \in BOOLEAN

\* The locals of a worker say at which step of a request it is.
NoneBusy(jobs) == \A w \in Worker : jobs[w].pc = "idle"

OthersIdle(jobs, w) == \A v \in Worker \ {w} : jobs[v].pc = "idle"

=============================================================================
