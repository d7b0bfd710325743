------------------------------- MODULE Logging -------------------------------
(***************************************************************************)
(* The loggers of src/trading_core/src/logging/ and who holds them.  The   *)
(* factory keeps one logger; a module asks for it once, when it is         *)
(* constructed, and keeps what it got.  Every SpdlogLogger puts its lines  *)
(* into the one queue of the thread pool, whose thread writes them to the  *)
(* sinks; a full queue gives up its oldest line.  A line is its number.    *)
(***************************************************************************)
EXTENDS Integers, Sequences, SequencesExt

CONSTANTS
  Holders,          \* the modules that keep a logger
  AsyncQueueSize,   \* 8192
  MaxLines          \* bound on the lines logged

NoLogger == 0

VARIABLES
  registered,   \* LoggerFactory::logger
  created,      \* the number of SpdlogLoggers there are
  running,      \* how far runApp has got
  held,         \* the logger of each module constructed
  logged,       \* the number of lines logged
  queue,        \* the lines in the queue of the thread pool
  writing,      \* the line its thread has taken, 0 for none
  written       \* the lines in the sinks

vars == <<registered, created, running, held, logged, queue, writing, written>>
lines == <<logged, queue, writing, written>>

Init ==
  /\ registered = NoLogger
  /\ created = 0
  /\ running = "starting"
  /\ held = <<>>
  /\ logged = 0 /\ queue = <<>> /\ writing = 0 /\ written = <<>>

(* LoggerFactory::createLogger(configuration): sinks that cannot be opened *)
(* throw before anything is registered, and runApp gives up.               *)
CreateLogger ==
  /\ running = "starting"
  /\ \/ running' = "constructing" /\ registered' = created + 1 /\ created' = created + 1
     \/ running' = "reported" /\ UNCHANGED <<registered, created>>
  /\ UNCHANGED <<held, lines>>

(* The constructor of a module calls LoggerFactory::getLogger.             *)
ConstructModule(m) ==
  /\ running = "constructing"
  /\ m \notin DOMAIN held
  /\ held' = [n \in DOMAIN held \cup {m} |-> IF n = m THEN registered ELSE held[n]]
  /\ UNCHANGED <<registered, created, running, lines>>

(* A second createLogger: who has a logger keeps it.                       *)
ReplaceLogger ==
  /\ running = "constructing"
  /\ created = 1
  /\ registered' = created + 1
  /\ created' = created + 1
  /\ UNCHANGED <<running, held, lines>>

(* Mutant of Enqueued: async_overflow_policy::discard_new.                 *)
MutantDiscardNew(line) ==
  IF Len(queue) < AsyncQueueSize THEN Append(queue, line) ELSE queue

(* async_overflow_policy::overrun_oldest.                                  *)
Enqueued(line) ==
  IF Len(queue) < AsyncQueueSize THEN Append(queue, line) ELSE Append(Tail(queue), line)

(* A module logs, and never waits.                                         *)
Log(m) ==
  /\ m \in DOMAIN held
  /\ logged < MaxLines
  /\ logged' = logged + 1
  /\ queue' = Enqueued(logged + 1)
  /\ UNCHANGED <<registered, created, running, held, writing, written>>

(* The thread of the pool.                                                 *)
TakeLine ==
  /\ writing = 0
  /\ queue # <<>>
  /\ writing' = Head(queue)
  /\ queue' = Tail(queue)
  /\ UNCHANGED <<registered, created, running, held, logged, written>>

WriteLine ==
  /\ writing # 0
  /\ written' = Append(written, writing)
  /\ writing' = 0
  /\ UNCHANGED <<registered, created, running, held, logged, queue>>

Next ==
  \/ CreateLogger \/ ReplaceLogger
  \/ \E m \in Holders : ConstructModule(m) \/ Log(m)
  \/ TakeLine \/ WriteLine

Spec == Init /\ [][Next]_vars
-----------------------------------------------------------------------------
(* What has got past the queue, and what is in it, oldest first.           *)
Kept == written \o (IF writing = 0 THEN <<>> ELSE <<writing>>) \o queue

(* No module logs through a logger that is not there, lines come out in    *)
(* the order they were logged in, and a line is lost only to as many newer *)
(* ones as the queue holds: those before a failure are always there.       *)
LogIsKept ==
  /\ \A m \in DOMAIN held : held[m] # NoLogger
  /\ \A j, k \in DOMAIN Kept : j < k => Kept[j] < Kept[k]
  /\ \A line \in 1..logged : line > logged - AsyncQueueSize => Contains(Kept, line)
=============================================================================
