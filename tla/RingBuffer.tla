----------------------------- MODULE RingBuffer -----------------------------
(***************************************************************************)
(* The lock-free ring of src/trading_core/src/common/ring_buffer.hpp, for  *)
(* one producer and one consumer thread.  Each owns a cursor and keeps a   *)
(* copy of the other's, which it reads again only when the copy says that  *)
(* there is no room, or no value.                                          *)
(*                                                                         *)
(* A step is what one thread does up to its next access to shared memory.  *)
(* A slot is not atomic: it is filled in two steps and empties in two, and *)
(* holds Garbage in between.  The release store of a cursor and the        *)
(* acquire load of it order the slot accesses around them, so the cursors  *)
(* are read and written here one after the other.  The cursors count up    *)
(* without end, as the 64-bit ones of the code never reach theirs.         *)
(***************************************************************************)
EXTENDS Integers, Sequences

CONSTANTS
  Capacity,    \* number of slots
  MaxValues    \* bound on the values pushed

ASSUME CapacityAssumption == Capacity \in Nat /\ Capacity >= 2
ASSUME MaxValuesAssumption == MaxValues \in Nat

VARIABLES
  buffer,              \* RingBuffer::buffer
  writeCursor,         \* RingBuffer::writeCursor, stored by the producer
  cachedReadCursor,    \* the producer's copy of readCursor
  readCursor,          \* RingBuffer::readCursor, stored by the consumer
  cachedWriteCursor,   \* the consumer's copy of writeCursor
  producer,            \* where the producer is in push or emplace
  consumer,            \* where the consumer is in pop
  taken,               \* the value the consumer has moved out of its slot
  pushed,              \* how the last push ended
  popped               \* what the last pop returned

producerState == <<writeCursor, cachedReadCursor, producer, pushed>>
consumerState == <<readCursor, cachedWriteCursor, consumer, taken, popped>>
vars == <<buffer, producerState, consumerState>>

Garbage == 0   \* a slot that is default, moved from or being written
Values == Nat \ {0}
Slots == 0..(Capacity - 1)

(* seq & kMask, which is fast_modulo of a power of two.                    *)
Slot(seq) == seq % Capacity

Init ==
  /\ buffer = [s \in Slots |-> Garbage]
  /\ writeCursor = 0 /\ cachedReadCursor = 0
  /\ readCursor = 0 /\ cachedWriteCursor = 0
  /\ producer = "outside" /\ consumer = "outside"
  /\ taken = Garbage
  /\ pushed = "none" /\ popped = 0
-----------------------------------------------------------------------------
(* push and emplace.  The n-th value pushed is n; a refused one is tried   *)
(* again or never.                                                         *)
Room(read) == writeCursor - read < Capacity

(* Mutant of StartPush: there is room up to and including the capacity.    *)
MutantOneTooMany ==
  /\ producer = "outside"
  /\ writeCursor < MaxValues
  /\ producer' = IF writeCursor - cachedReadCursor <= Capacity
                 THEN "writing" ELSE "refreshing"
  /\ UNCHANGED <<buffer, writeCursor, cachedReadCursor, pushed, consumerState>>

StartPush ==
  /\ producer = "outside"
  /\ writeCursor < MaxValues
  /\ producer' = IF Room(cachedReadCursor) THEN "writing" ELSE "refreshing"
  /\ UNCHANGED <<buffer, writeCursor, cachedReadCursor, pushed, consumerState>>

RefreshRead ==
  /\ producer = "refreshing"
  /\ cachedReadCursor' = readCursor
  /\ producer' = IF Room(readCursor) THEN "writing" ELSE "outside"
  /\ pushed' = IF Room(readCursor) THEN pushed ELSE "full"
  /\ UNCHANGED <<buffer, writeCursor, consumerState>>

(* The object in the slot is destroyed, or its assignment begins.          *)
BeginWrite ==
  /\ producer = "writing"
  /\ buffer' = [buffer EXCEPT ![Slot(writeCursor)] = Garbage]
  /\ producer' = "filling"
  /\ UNCHANGED <<writeCursor, cachedReadCursor, pushed, consumerState>>

EndWrite ==
  /\ producer = "filling"
  /\ buffer' = [buffer EXCEPT ![Slot(writeCursor)] = writeCursor + 1]
  /\ producer' = "publishing"
  /\ UNCHANGED <<writeCursor, cachedReadCursor, pushed, consumerState>>

Publish ==
  /\ producer = "publishing"
  /\ writeCursor' = writeCursor + 1
  /\ producer' = "outside"
  /\ pushed' = "done"
  /\ UNCHANGED <<buffer, cachedReadCursor, consumerState>>
-----------------------------------------------------------------------------
(* pop.                                                                    *)
StartPop ==
  /\ consumer = "outside"
  /\ consumer' = IF readCursor < cachedWriteCursor THEN "reading" ELSE "refreshing"
  /\ UNCHANGED <<buffer, readCursor, cachedWriteCursor, taken, popped, producerState>>

RefreshWrite ==
  /\ consumer = "refreshing"
  /\ cachedWriteCursor' = writeCursor
  /\ consumer' = IF readCursor < writeCursor THEN "reading" ELSE "outside"
  /\ popped' = IF readCursor < writeCursor THEN popped ELSE 0
  /\ UNCHANGED <<buffer, readCursor, taken, producerState>>

(* Mutant of Move: the read cursor advances before the slot is read.       *)
MutantReleasedEarly ==
  /\ consumer = "reading"
  /\ readCursor' = readCursor + 1
  /\ taken' = buffer[Slot(readCursor)]
  /\ consumer' = "clearing"
  /\ UNCHANGED <<buffer, cachedWriteCursor, popped, producerState>>

(* The value is moved out; the slot keeps what a move leaves behind.       *)
Move ==
  /\ consumer = "reading"
  /\ taken' = buffer[Slot(readCursor)]
  /\ consumer' = "clearing"
  /\ UNCHANGED <<buffer, readCursor, cachedWriteCursor, popped, producerState>>

Clear ==
  /\ consumer = "clearing"
  /\ buffer' = [buffer EXCEPT ![Slot(readCursor)] = Garbage]
  /\ consumer' = "releasing"
  /\ UNCHANGED <<readCursor, cachedWriteCursor, taken, popped, producerState>>

(* The slot is given back.                                                 *)
Release ==
  /\ consumer = "releasing"
  /\ readCursor' = readCursor + 1
  /\ popped' = taken
  /\ consumer' = "outside"
  /\ UNCHANGED <<buffer, cachedWriteCursor, taken, producerState>>
-----------------------------------------------------------------------------
Produce == StartPush \/ RefreshRead \/ BeginWrite \/ EndWrite \/ Publish
Consume == StartPop \/ RefreshWrite \/ Move \/ Clear \/ Release

Next == Produce \/ Consume

Spec == Init /\ [][Next]_vars

(* The consumer polls; the producer may stop anywhere outside a call.      *)
FairSpec == Spec /\ WF_vars(Consume) /\ WF_vars(producer # "outside" /\ Produce)
-----------------------------------------------------------------------------
(* The type invariant.                                                     *)
TypeOK ==
  /\ buffer \in [Slots -> Nat]
  /\ {writeCursor, cachedReadCursor, readCursor, cachedWriteCursor} \subseteq Nat
  /\ producer \in {"outside", "refreshing", "writing", "filling", "publishing"}
  /\ consumer \in {"outside", "refreshing", "reading", "clearing", "releasing"}
  /\ taken \in Nat
  /\ pushed \in {"none", "done", "full"}
  /\ popped \in Nat

Writing == producer \in {"writing", "filling", "publishing"}
Reading == consumer \in {"reading", "clearing", "releasing"}

(* Each copy is behind the cursor it was taken from, and that never lets   *)
(* a thread go further than the other allows: the producer writes only     *)
(* with room left, the consumer reads only what was published, and the     *)
(* two are never in the same slot ("Full when write is exactly N ahead of  *)
(* read").                                                                 *)
SlotsAreOwned ==
  /\ cachedReadCursor <= readCursor /\ readCursor <= cachedWriteCursor
  /\ cachedWriteCursor <= writeCursor /\ writeCursor <= cachedReadCursor + Capacity
  /\ Writing => Room(cachedReadCursor)
  /\ Reading => readCursor < cachedWriteCursor
  /\ Writing /\ Reading => Slot(writeCursor) # Slot(readCursor)

(* What is in the ring: the value being popped counts until its slot is    *)
(* given back.                                                             *)
Pending ==
  [k \in 1..(writeCursor - readCursor) |->
     IF k = 1 /\ consumer \in {"clearing", "releasing"} THEN taken
     ELSE buffer[Slot(readCursor + k - 1)]]

Contract == INSTANCE BoundedQueue WITH accepted <- writeCursor, queue <- Pending

(* The ring is a bounded queue: nothing is lost, repeated, overtaken or    *)
(* read half written, a push is refused only when all slots are in use and *)
(* a pop finds nothing only when all was taken -- although both judge by   *)
(* old copies of the other's cursor.  Every value pushed is popped by a    *)
(* consumer that keeps polling.                                            *)
ImplementsQueue == Contract!FairSpec
=============================================================================
