-------------------------- MODULE BookBuilderProofs --------------------------
(***************************************************************************)
(* Proofs about BookBuilder for every depth, every exchange and every      *)
(* fault.  The sequence numbers of the events dispatched rise; what an     *)
(* event quotes was the exchange's; a best level is given up only for a    *)
(* reason; and as long as the exchange stays within the depth the book is  *)
(* the exchange's at the number it carries, and changes only with an event. *)
(***************************************************************************)
EXTENDS BookBuilder, TLAPS, SequenceTheorems, ArithmeticTheorems

Ranges == {u \in BookUpdates : u.first <= u.last}

(* What the rise of the sequence numbers depends on: every update in the   *)
(* queue covers a range that is not empty, the exchange has numbered the   *)
(* changes it has not sent, and no event is ahead of the book.             *)
NumbersSound ==
  /\ sequence \in Nat
  /\ updates \in Seq(Ranges)
  /\ batch \in Seq(LevelUpdates)
  /\ \E S : market \in Seq(S)
  /\ Len(market) >= 1
  /\ Len(batch) <= MarketSequence
  /\ \E S : events \in Seq(S)
  /\ \A k \in DOMAIN events : events[k].sequence \in Nat
  /\ EventsInOrder
  /\ stage = "starting" => events = <<>>

(* What is left of the queue after one update is taken out, or put in.     *)
LEMMA QueueOf ==
  ASSUME NEW R, NEW q \in Seq(R)
  PROVE  /\ \A u \in R : Append(q, u) \in Seq(R)
         /\ q # <<>> => Head(q) \in R /\ Tail(q) \in Seq(R)
         /\ \A k \in DOMAIN q : q[k] \in R
<1>1. \A u \in R : Append(q, u) \in Seq(R)
  BY AppendProperties
<1>2. q # <<>> => Head(q) \in R /\ Tail(q) \in Seq(R)
  BY HeadTailProperties
<1>3. \A k \in DOMAIN q : q[k] \in R
  BY ElementOfSeq, LenProperties
<1>4. QED
  BY <1>1, <1>2, <1>3

(* Losing an update leaves a queue of the others.                          *)
LEMMA QueueWithout ==
  ASSUME NEW R, NEW q \in Seq(R), NEW k \in DOMAIN q
  PROVE  RemoveAt(q, k) \in Seq(R)
<1>1. /\ k \in 1..Len(q) /\ Len(q) \in Nat
  BY LenProperties
<1>2. SubSeq(q, 1, k - 1) \in Seq(R) /\ SubSeq(q, k + 1, Len(q)) \in Seq(R)
  <2>1. k - 1 \in 0..Len(q) /\ k + 1 \in 1..(Len(q) + 1)
    BY <1>1
  <2>2. QED
    BY <1>1, <2>1, SubSeqProperties
<1>3. QED
  BY <1>2, ConcatProperties DEF RemoveAt

(* A step that leaves the events and the numbers alone keeps them sound.   *)
LEMMA OnlyQueueChanges ==
  ASSUME NumbersSound, updates' \in Seq(Ranges), stage' = stage \/ stage' = "stopped",
         UNCHANGED <<events, sequence, market, batch>>
  PROVE  NumbersSound'
BY DEF NumbersSound, EventsInOrder, MarketSequence

(* No update, no event, and an exchange that has numbered nothing.         *)
LEMMA InitNumbersSound == Init => NumbersSound
<1> SUFFICES ASSUME Init PROVE NumbersSound
  OBVIOUS
<1>1. PICK b \in InitialMarkets : market = <<b>>
  BY DEF Init
<1>2. market \in Seq({b}) /\ Len(market) = 1
  BY <1>1
<1>3. events \in Seq({}) /\ DOMAIN events = {}
  BY DEF Init
<1>4. sequence = 0 /\ updates = <<>> /\ batch = <<>> /\ Len(batch) = 0
  BY DEF Init
<1>5. updates \in Seq(Ranges) /\ batch \in Seq(LevelUpdates)
  BY <1>4
<1>6. QED
  BY <1>2, <1>3, <1>4, <1>5 DEF NumbersSound, EventsInOrder, MarketSequence

(* An applied update leaves the book at the last number of its range,      *)
(* beyond every event so far, and its own event there.                     *)
LEMMA ApplyUpdateSound == NumbersSound /\ ApplyUpdate => NumbersSound'
<1> SUFFICES ASSUME NumbersSound, ApplyUpdate PROVE NumbersSound'
  OBVIOUS
<1> DEFINE update == Head(updates)
           event  == MarketEvent(update.last, BooksAfter(book, update.levels)[Len(update.levels)])
<1>1. /\ updates # <<>> /\ updates' = Tail(updates)
      /\ update.first = sequence + 1
      /\ sequence' = update.last
      /\ events' = Append(events, event)
      /\ UNCHANGED <<market, batch>>
      /\ stage' = "running"
  BY DEF ApplyUpdate, Take, Accepted, SequenceValid
<1>2. update \in Ranges /\ updates' \in Seq(Ranges)
  BY <1>1, QueueOf DEF NumbersSound
<1>3. update.last \in Nat /\ sequence < update.last
  BY <1>1, <1>2 DEF NumbersSound, Ranges, BookUpdates
<1>4. event.sequence = update.last
  BY DEF MarketEvent
<1> HIDE DEF event, update
<1>5. PICK S : events \in Seq(S)
  BY DEF NumbersSound
<1>6. /\ events' \in Seq(S \cup {event})
      /\ Len(events') = Len(events) + 1
      /\ events'[Len(events) + 1] = event
      /\ \A k \in 1..Len(events) : events'[k] = events[k]
      /\ Len(events) \in Nat
  <2>1. events \in Seq(S \cup {event}) /\ event \in S \cup {event}
    BY <1>5
  <2>2. QED
    BY <1>1, <2>1, AppendProperties, LenProperties
<1>7. DOMAIN events = 1..Len(events) /\ DOMAIN events' = 1..(Len(events) + 1)
  BY <1>5, <1>6, LenProperties
<1>8. \A k \in DOMAIN events' : events'[k].sequence \in Nat
  BY <1>3, <1>4, <1>6, <1>7 DEF NumbersSound
<1>9. EventsInOrder'
  <2> SUFFICES ASSUME NEW k \in DOMAIN events'
               PROVE  /\ events'[k].sequence <= sequence'
                      /\ \A j \in 1..(k - 1) : events'[j].sequence < events'[k].sequence
    BY DEF EventsInOrder
  <2>1. \A n \in 1..Len(events) :
          events'[n].sequence \in Nat /\ events'[n].sequence < update.last
    BY <1>3, <1>6, <1>7 DEF NumbersSound, EventsInOrder
  <2>2. CASE k = Len(events) + 1
    BY <1>1, <1>3, <1>4, <1>6, <2>1, <2>2
  <2>3. CASE k # Len(events) + 1
    <3>1. k \in 1..Len(events)
      BY <1>6, <1>7, <2>3
    <3>2. \A j \in 1..(k - 1) : j \in 1..Len(events)
      BY <1>6, <3>1
    <3>3. \A j \in 1..(k - 1) : events[j].sequence < events[k].sequence
      BY <1>7, <3>1 DEF NumbersSound, EventsInOrder
    <3>4. QED
      BY <1>1, <1>3, <1>6, <2>1, <3>1, <3>2, <3>3
  <2>4. QED
    BY <2>2, <2>3
<1>10. QED
  BY <1>1, <1>2, <1>3, <1>6, <1>8, <1>9 DEF NumbersSound, MarketSequence

(* A change of the exchange takes the next number; sending the changes     *)
(* covers exactly the numbers they took.                                   *)
LEMMA ExchangeSound ==
  ASSUME NumbersSound
  PROVE  /\ \A s \in BookSides, p \in Prices, q \in Quantities \cup {0} :
              Change(s, p, q) => NumbersSound'
         /\ Publish => NumbersSound'
<1>1. ASSUME NEW s \in BookSides, NEW p \in Prices, NEW q \in Quantities \cup {0}, Change(s, p, q)
      PROVE  NumbersSound'
  <2>1. PICK S : market \in Seq(S)
    BY DEF NumbersSound
  <2>2. PICK m : market' = Append(market, m)
    BY <1>1 DEF Change
  <2>3. PICK u \in LevelUpdates : batch' = Append(batch, u)
    <3> DEFINE u == [side |-> s, price |-> p, quantity |-> q]
    <3>1. u \in LevelUpdates /\ batch' = Append(batch, u)
      BY <1>1 DEF Change, LevelUpdates
    <3>2. QED
      BY <3>1
  <2>4. batch' \in Seq(LevelUpdates) /\ Len(batch') = Len(batch) + 1 /\ Len(batch) \in Nat
    BY <2>3, AppendProperties, LenProperties DEF NumbersSound
  <2>5. /\ market' \in Seq(S \cup {m}) /\ Len(market') = Len(market) + 1
        /\ Len(market) \in Nat
    <3>1. market \in Seq(S \cup {m}) /\ m \in S \cup {m}
      BY <2>1
    <3>2. QED
      BY <2>2, <3>1, AppendProperties, LenProperties
  <2>6. UNCHANGED <<events, sequence, updates, stage>>
    BY <1>1 DEF Change, builder
  <2>7. QED
    BY <2>4, <2>5, <2>6 DEF NumbersSound, EventsInOrder, MarketSequence
<1>2. ASSUME Publish PROVE NumbersSound'
  <2> DEFINE u == [ours |-> TRUE, first |-> MarketSequence - Len(batch) + 1,
                   last |-> MarketSequence, levels |-> batch]
  <2>1. /\ Len(market) \in Nat /\ Len(batch) \in Nat /\ Len(batch) >= 1
        /\ MarketSequence \in Nat /\ Len(batch) <= MarketSequence
    BY <1>2, LenProperties, EmptySeq DEF Publish, NumbersSound, MarketSequence
  <2>2. u \in Ranges
    BY <2>1 DEF Ranges, BookUpdates, NumbersSound
  <2>3. updates' = Append(updates, u) \/ updates' = updates
    BY <1>2 DEF Publish
  <2>4. updates' \in Seq(Ranges)
    BY <2>2, <2>3, QueueOf DEF NumbersSound
  <2>5. batch' \in Seq(LevelUpdates) /\ Len(batch') = 0
    BY <1>2 DEF Publish
  <2>6. UNCHANGED <<events, sequence, market, stage>>
    BY <1>2 DEF Publish, builder
  <2>7. QED
    BY <2>1, <2>4, <2>5, <2>6 DEF NumbersSound, EventsInOrder, MarketSequence
<1>3. QED
  BY <1>1, <1>2

(* Every step, faults included, keeps the numbers sound.                   *)
LEMMA NextNumbersSound == NumbersSound /\ [Next]_vars => NumbersSound'
<1> SUFFICES ASSUME NumbersSound, [Next]_vars PROVE NumbersSound'
  OBVIOUS
<1>0. updates \in Seq(Ranges) /\ sequence \in Nat
  BY DEF NumbersSound
<1>1. ASSUME ApplySnapshot PROVE NumbersSound'
  <2>1. /\ events = <<>> /\ events' = events
        /\ sequence' = MarketSequence /\ stage' = "running"
        /\ UNCHANGED <<updates, market, batch>>
    BY <1>1 DEF ApplySnapshot, NumbersSound
  <2>2. MarketSequence \in Nat
    BY LenProperties DEF NumbersSound, MarketSequence
  <2>3. EventsInOrder'
    BY <2>1 DEF EventsInOrder
  <2>4. QED
    BY <2>1, <2>2, <2>3 DEF NumbersSound, MarketSequence
<1>2. ASSUME RefuseSnapshot PROVE NumbersSound'
  BY <1>0, <1>2, OnlyQueueChanges DEF RefuseSnapshot
<1>3. ASSUME IgnoreUpdate PROVE NumbersSound'
  BY <1>0, <1>3, QueueOf, OnlyQueueChanges DEF IgnoreUpdate, Take, builder
<1>4. ASSUME AbandonUpdate PROVE NumbersSound'
  BY <1>0, <1>4, QueueOf, OnlyQueueChanges DEF AbandonUpdate, Take
<1>5. ASSUME Subscribe PROVE NumbersSound'
  BY <1>0, <1>5, OnlyQueueChanges DEF Subscribe, builder
<1>6. ASSUME NEW k \in DOMAIN updates, LoseUpdate(k) PROVE NumbersSound'
  BY <1>0, <1>6, QueueWithout, OnlyQueueChanges DEF LoseUpdate, Fault, builder
<1>7. ASSUME NEW k \in DOMAIN updates, RepeatUpdate(k) PROVE NumbersSound'
  BY <1>0, <1>7, QueueOf, OnlyQueueChanges DEF RepeatUpdate, Fault, builder
<1>8. ASSUME ForeignUpdate PROVE NumbersSound'
  <2>1. PICK s \in BookSides, p \in Prices :
          updates' = Append(updates,
            [ours |-> FALSE, first |-> sequence + 1, last |-> sequence + 1,
             levels |-> <<[side |-> s, price |-> p, quantity |-> 0]>>])
    BY <1>8 DEF ForeignUpdate
  <2> DEFINE l == [side |-> s, price |-> p, quantity |-> 0]
             u == [ours |-> FALSE, first |-> sequence + 1, last |-> sequence + 1,
                   levels |-> <<l>>]
  <2>2. <<l>> \in Seq(LevelUpdates)
    <3>1. l \in LevelUpdates
      BY DEF LevelUpdates
    <3> HIDE DEF l
    <3>2. QED
      BY <3>1
  <2>3. u \in Ranges
    BY <1>0, <2>2 DEF Ranges, BookUpdates
  <2>4. updates' \in Seq(Ranges)
    BY <1>0, <2>1, <2>3, QueueOf
  <2>5. QED
    BY <1>8, <2>4, OnlyQueueChanges DEF ForeignUpdate, Fault, builder
<1>9. ASSUME UNCHANGED vars PROVE NumbersSound'
  BY <1>0, <1>9, OnlyQueueChanges DEF vars
<1>10. QED
  BY <1>1, <1>2, <1>3, <1>4, <1>5, <1>6, <1>7, <1>8, <1>9, ApplyUpdateSound, ExchangeSound
     DEF Next, OnBookUpdate, Exchange

(* Whatever is missed, repeated or sent for another instrument, and        *)
(* whatever the depth does to the book: every event carries a higher       *)
(* sequence number than all before it and none that the book has not       *)
(* reached, so a consumer never takes an older top of the book for a newer.*)
THEOREM EventsRise == Spec => []EventsInOrder
<1>1. NumbersSound => EventsInOrder
  BY DEF NumbersSound
<1>2. QED
  BY <1>1, InitNumbersSound, NextNumbersSound, PTL DEF Spec

-----------------------------------------------------------------------------
(* Books of finitely many levels.                                          *)
FiniteBooks == {b \in Books : \A s \in BookSides : IsFiniteSet(DOMAIN b[s])}

(* The quantity a book has at a price.                                     *)
Volume(levels, side, price) == VolumeAt(levels[side], price)

(* The update sets or removes the level at this price.                     *)
Touches(update, side, price) == update.side = side /\ update.price = price

(* What a change makes of the exchange's own book.                         *)
Changed(levels, update) ==
  [levels EXCEPT ![update.side] = IF update.quantity = 0 THEN Without(@, update.price)
                                  ELSE With(@, update.price, update.quantity)]

(* The levels are the changes the exchange made after number n, in order.  *)
Tells(books, levels, n) ==
  /\ n \in Nat /\ n + Len(levels) <= Len(books) - 1
  /\ \A k \in DOMAIN levels :
       /\ books[n + k + 1] = Changed(books[n + k], levels[k])
       /\ books[n + k + 1] # books[n + k]

(* The number of the last change the exchange has sent.                    *)
Published == MarketSequence - Len(batch)

(* What the exchange sends is its story, in ranges that do not overlap.    *)
StorySound ==
  /\ market \in Seq(FiniteBooks) /\ Len(market) >= 1
  /\ batch \in Seq(LevelUpdates) /\ Tells(market, batch, Published)
  /\ updates \in Seq(BookUpdates)
  /\ \A k \in DOMAIN updates : updates[k].ours =>
       /\ Tells(market, updates[k].levels, updates[k].first - 1)
       /\ updates[k].last = updates[k].first - 1 + Len(updates[k].levels)
       /\ updates[k].first <= updates[k].last /\ updates[k].last <= Published
  /\ \A j, k \in DOMAIN updates :
       /\ updates[j].ours /\ updates[k].ours
       /\ updates[j].first = updates[k].first
       => updates[j].last = updates[k].last

(* The book has nothing the exchange did not have at some number from its  *)
(* own one up to `number', which is as far as an update that was abandoned *)
(* may have taken it.                                                      *)
BookedUpTo(number) ==
  /\ \A s \in BookSides, p \in Prices : Volume(book, s, p) # 0 =>
       \E n \in sequence..number : Volume(market[n + 1], s, p) = Volume(book, s, p)
  /\ number # sequence =>
       /\ number <= Published
       /\ \A k \in DOMAIN updates :
            updates[k].ours /\ updates[k].first = sequence + 1 => updates[k].last = number

(* What the book of a running builder has to do with the exchange: it is   *)
(* made of the exchange's levels and, within the depth, is its whole book. *)
BookSound ==
  /\ StorySound
  /\ stage \in {"starting", "running", "stopped"}
  /\ book \in FiniteBooks
  /\ sequence \in 0..MarketSequence
  /\ stage = "starting" => events = <<>>
  /\ stage = "running" => \E number \in sequence..MarketSequence : BookedUpTo(number)
  /\ stage = "running" /\ WithinDepth => book = market[sequence + 1]

(* The levels of a side, with one taken out or set.                        *)
LEMMA LevelsAre ==
  ASSUME NEW x \in Levels
  PROVE  /\ DOMAIN x \subseteq Prices
         /\ \A p \in DOMAIN x : x[p] \in Quantities /\ x[p] \in Nat \ {0}
         /\ x = [p \in DOMAIN x |-> x[p]]
BY QuantitiesAssumption DEF Levels

(* A side without one level: nothing at its price, the rest as it was.     *)
LEMMA WithoutLevel ==
  ASSUME NEW x \in Levels, IsFiniteSet(DOMAIN x), NEW p
  PROVE  /\ Without(x, p) \in Levels /\ IsFiniteSet(DOMAIN Without(x, p))
         /\ \A r : VolumeAt(Without(x, p), r) = IF r = p THEN 0 ELSE VolumeAt(x, r)
<1>1. Without(x, p) \in [DOMAIN x \ {p} -> Quantities] /\ DOMAIN x \ {p} \in SUBSET Prices
  BY LevelsAre DEF Without
<1>2. Without(x, p) \in Levels
  BY <1>1 DEF Levels
<1>3. IsFiniteSet(DOMAIN Without(x, p))
  BY FS_RemoveElement DEF Without
<1>4. ASSUME NEW r PROVE VolumeAt(Without(x, p), r) = IF r = p THEN 0 ELSE VolumeAt(x, r)
  BY DEF VolumeAt, Without
<1>5. QED
  BY <1>2, <1>3, <1>4

(* A side with one level set: its quantity there, the rest as it was.      *)
LEMMA WithLevel ==
  ASSUME NEW x \in Levels, IsFiniteSet(DOMAIN x), NEW p \in Prices, NEW q \in Quantities
  PROVE  /\ With(x, p, q) \in Levels /\ IsFiniteSet(DOMAIN With(x, p, q))
         /\ \A r : VolumeAt(With(x, p, q), r) = IF r = p THEN q ELSE VolumeAt(x, r)
<1>1. With(x, p, q) \in [DOMAIN x \cup {p} -> Quantities] /\ DOMAIN x \cup {p} \in SUBSET Prices
  BY LevelsAre DEF With
<1>2. With(x, p, q) \in Levels
  BY <1>1 DEF Levels
<1>3. IsFiniteSet(DOMAIN With(x, p, q))
  BY FS_AddElement DEF With
<1>4. ASSUME NEW r PROVE VolumeAt(With(x, p, q), r) = IF r = p THEN q ELSE VolumeAt(x, r)
  BY DEF VolumeAt, With
<1>5. QED
  BY <1>2, <1>3, <1>4

(* The volume at a price is zero exactly where there is no level.          *)
LEMMA VolumeMeansLevel ==
  ASSUME NEW b \in FiniteBooks, NEW s \in BookSides, NEW p
  PROVE  /\ Volume(b, s, p) # 0 <=> p \in DOMAIN b[s]
         /\ p \in DOMAIN b[s] => Volume(b, s, p) = b[s][p]
<1>1. b[s] \in Levels
  BY DEF FiniteBooks, Books
<1>2. QED
  BY <1>1, LevelsAre DEF Volume, VolumeAt

(* What one change does to the exchange's book.                            *)
LEMMA ChangedVolumes ==
  ASSUME NEW b \in FiniteBooks, NEW u \in LevelUpdates
  PROVE  /\ Changed(b, u) \in FiniteBooks
         /\ \A s \in BookSides, p \in Prices :
              Volume(Changed(b, u), s, p) =
                IF Touches(u, s, p) THEN u.quantity ELSE Volume(b, s, p)
<1> DEFINE x == b[u.side]
           y == IF u.quantity = 0 THEN Without(x, u.price) ELSE With(x, u.price, u.quantity)
<1>1. /\ u.side \in BookSides /\ u.price \in Prices /\ u.quantity \in Quantities \cup {0}
      /\ b \in [BookSides -> Levels] /\ x \in Levels /\ IsFiniteSet(DOMAIN x)
  BY DEF LevelUpdates, FiniteBooks, Books
<1>2. /\ y \in Levels /\ IsFiniteSet(DOMAIN y)
      /\ \A r : VolumeAt(y, r) = IF r = u.price THEN u.quantity ELSE VolumeAt(x, r)
  <2>1. CASE u.quantity = 0
    BY <1>1, <2>1, WithoutLevel
  <2>2. CASE u.quantity # 0
    BY <1>1, <2>2, WithLevel
  <2>3. QED
    BY <2>1, <2>2
<1>3. Changed(b, u) = [b EXCEPT ![u.side] = y]
  BY DEF Changed
<1> HIDE DEF y
<1>4. Changed(b, u) \in FiniteBooks
  BY <1>1, <1>2, <1>3 DEF FiniteBooks, Books
<1>5. ASSUME NEW s \in BookSides, NEW p \in Prices
      PROVE  Volume(Changed(b, u), s, p) = IF Touches(u, s, p) THEN u.quantity ELSE Volume(b, s, p)
  BY <1>1, <1>2, <1>3 DEF Volume, Touches
<1>6. QED
  BY <1>4, <1>5

(* What one update does to the local book: a new level may push one out.   *)
LEMMA BookAfterVolumes ==
  ASSUME NEW b \in FiniteBooks, NEW u \in LevelUpdates
  PROVE  /\ BookAfter(b, u) \in FiniteBooks
         /\ \A s \in BookSides, p \in Prices :
              /\ Touches(u, s, p) => Volume(BookAfter(b, u), s, p) = u.quantity
              /\ ~Touches(u, s, p) => Volume(BookAfter(b, u), s, p) \in {0, Volume(b, s, p)}
         /\ \A s \in BookSides : s # u.side => BookAfter(b, u)[s] = b[s]
<1> DEFINE x == b[u.side]
           w == Without(x, WorstPrice(u.side, x))
           y == LevelsAfter(x, u)
<1>1. /\ u.side \in BookSides /\ u.price \in Prices /\ u.quantity \in Quantities \cup {0}
      /\ b \in [BookSides -> Levels] /\ x \in Levels /\ IsFiniteSet(DOMAIN x)
  BY DEF LevelUpdates, FiniteBooks, Books
<1>2. /\ w \in Levels /\ IsFiniteSet(DOMAIN w)
      /\ \A r : VolumeAt(w, r) \in {0, VolumeAt(x, r)}
  BY <1>1, WithoutLevel
<1> HIDE DEF w
<1>3. /\ y \in Levels /\ IsFiniteSet(DOMAIN y)
      /\ VolumeAt(y, u.price) = u.quantity
      /\ \A r : r # u.price => VolumeAt(y, r) \in {0, VolumeAt(x, r)}
  <2>1. CASE u.quantity = 0
    <3>1. y = Without(x, u.price)
      BY <2>1 DEF LevelsAfter
    <3>2. QED
      BY <1>1, <2>1, <3>1, WithoutLevel
  <2>2. CASE u.quantity # 0 /\ u.price \notin DOMAIN x /\ Full(x)
    <3>1. y = With(w, u.price, u.quantity)
      BY <2>2 DEF LevelsAfter, w
    <3>2. QED
      BY <1>1, <1>2, <2>2, <3>1, WithLevel
  <2>3. CASE u.quantity # 0 /\ ~(u.price \notin DOMAIN x /\ Full(x))
    <3>1. y = With(x, u.price, u.quantity)
      BY <2>3 DEF LevelsAfter
    <3>2. QED
      BY <1>1, <2>3, <3>1, WithLevel
  <2>4. QED
    BY <2>1, <2>2, <2>3
<1>4. BookAfter(b, u) = [b EXCEPT ![u.side] = y]
  BY DEF BookAfter
<1> HIDE DEF y
<1>5. BookAfter(b, u) \in FiniteBooks
  BY <1>1, <1>3, <1>4 DEF FiniteBooks, Books
<1>6. ASSUME NEW s \in BookSides, NEW p \in Prices
      PROVE  /\ Touches(u, s, p) => Volume(BookAfter(b, u), s, p) = u.quantity
             /\ ~Touches(u, s, p) => Volume(BookAfter(b, u), s, p) \in {0, Volume(b, s, p)}
  BY <1>1, <1>3, <1>4 DEF Volume, Touches
<1>7. \A s \in BookSides : s # u.side => BookAfter(b, u)[s] = b[s]
  BY <1>1, <1>4
<1>8. QED
  BY <1>5, <1>6, <1>7

(* The function BooksAfter is defined by: the books after the first n.     *)
Builds(b, levels, S, after) ==
  after = [n \in S |-> IF n = 0 THEN b
                       ELSE IF Applies(after[n - 1], levels[n])
                            THEN BookAfter(after[n - 1], levels[n]) ELSE after[n - 1]]

(* BooksAfter does what its recursion says: the function that is chosen for *)
(* a length exists, built up from the one for the length before.           *)
LEMMA BooksAfterUnfolds ==
  ASSUME NEW b, NEW levels, Len(levels) \in Nat
  PROVE  /\ BooksAfter(b, levels)[0] = b
         /\ \A n \in 1..Len(levels) :
              LET before == BooksAfter(b, levels)[n - 1]
              IN  /\ Applies(before, levels[n]) =>
                       BooksAfter(b, levels)[n] = BookAfter(before, levels[n])
                  /\ ~Applies(before, levels[n]) => BooksAfter(b, levels)[n] = before
<1> DEFINE Good == {m \in Nat : \E g : Builds(b, levels, 0..m, g)}
           P(g) == Builds(b, levels, 0..Len(levels), g)
           after == CHOOSE g : P(g)
<1>1. 0 \in Good
  <2> DEFINE g == [n \in 0..0 |-> b]
  <2>1. Builds(b, levels, 0..0, g)
    BY DEF Builds
  <2>2. QED
    BY <2>1
<1>2. ASSUME NEW m \in Good PROVE m + 1 \in Good
  <2>1. PICK g : Builds(b, levels, 0..m, g)
    OBVIOUS
  <2> DEFINE h == [n \in 0..(m + 1) |->
                     IF n = 0 THEN b
                     ELSE IF Applies(g[n - 1], levels[n])
                          THEN BookAfter(g[n - 1], levels[n]) ELSE g[n - 1]]
  <2>2. m \in Nat
    OBVIOUS
  <2>3. \A n \in 0..m : g[n] = h[n] /\ n \in 0..(m + 1)
    <3>1. \A n \in 0..m : n \in 0..(m + 1)
      BY <2>2
    <3>2. QED
      BY <2>1, <3>1 DEF Builds
  <2>4. \A n \in 0..(m + 1) : n # 0 => n - 1 \in 0..m
    BY <2>2
  <2>5. \A n \in 0..(m + 1) : n # 0 => h[n - 1] = g[n - 1]
    BY <2>3, <2>4
  <2>6. h = [n \in 0..(m + 1) |->
               IF n = 0 THEN b
               ELSE IF Applies(h[n - 1], levels[n])
                    THEN BookAfter(h[n - 1], levels[n]) ELSE h[n - 1]]
    BY <2>5
  <2>7. Builds(b, levels, 0..(m + 1), h)
    BY <2>6 DEF Builds
  <2>8. QED
    BY <2>2, <2>7
<1>3. Good \in SUBSET Nat
  OBVIOUS
<1> HIDE DEF Good
<1>4. \E g : P(g)
  BY <1>1, <1>2, <1>3, SetInduction DEF Good
<1>5. P(after)
  <2> HIDE DEF P
  <2>1. QED
    BY <1>4
<1>6. BooksAfter(b, levels) = after
  BY DEF BooksAfter, Builds
<1> HIDE DEF after
<1>7. \A n \in 0..Len(levels) :
        after[n] = IF n = 0 THEN b
                   ELSE IF Applies(after[n - 1], levels[n])
                        THEN BookAfter(after[n - 1], levels[n]) ELSE after[n - 1]
  BY <1>5 DEF Builds
<1>8. 0 \in 0..Len(levels) /\ \A n \in 1..Len(levels) : n \in 0..Len(levels) /\ n # 0
  OBVIOUS
<1>9. QED
  BY <1>6, <1>7, <1>8

-----------------------------------------------------------------------------
(* The exchange's book from one number to the next.                        *)
LEMMA ToldVolumes ==
  ASSUME market \in Seq(FiniteBooks), NEW levels \in Seq(LevelUpdates), NEW m, Tells(market, levels, m)
  PROVE  /\ m \in Nat /\ Len(levels) \in Nat
         /\ \A k \in 0..Len(levels) : m + k + 1 \in DOMAIN market
         /\ \A k \in 0..Len(levels) : market[m + k + 1] \in FiniteBooks
         /\ \A k \in 1..Len(levels) :
              /\ levels[k] \in LevelUpdates
              /\ market[m + k] \in FiniteBooks
              /\ market[m + k + 1] = Changed(market[m + k], levels[k])
              /\ market[m + k + 1] # market[m + k]
              /\ \A s \in BookSides, p \in Prices :
                   Volume(market[m + k + 1], s, p) =
                     IF Touches(levels[k], s, p) THEN levels[k].quantity
                     ELSE Volume(market[m + k], s, p)
<1>1. /\ m \in Nat /\ Len(levels) \in Nat /\ Len(market) \in Nat
      /\ m + Len(levels) <= Len(market) - 1
      /\ DOMAIN levels = 1..Len(levels) /\ DOMAIN market = 1..Len(market)
  BY LenProperties DEF Tells
<1>2. \A k \in 1..Len(market) : market[k] \in FiniteBooks
  BY ElementOfSeq
<1>3. \A k \in 0..Len(levels) : m + k + 1 \in 1..Len(market)
  BY <1>1
<1>4. ASSUME NEW k \in 1..Len(levels)
      PROVE  /\ levels[k] \in LevelUpdates
             /\ market[m + k] \in FiniteBooks
             /\ market[m + k + 1] = Changed(market[m + k], levels[k])
             /\ market[m + k + 1] # market[m + k]
  <2>1. levels[k] \in LevelUpdates
    BY ElementOfSeq
  <2>2. m + k \in 1..Len(market)
    BY <1>1
  <2>3. QED
    BY <1>1, <1>2, <2>1, <2>2 DEF Tells
<1>5. QED
  BY <1>1, <1>2, <1>3, <1>4, ChangedVolumes

(* What no change touches stays as it is.                                  *)
LEMMA UntouchedStays ==
  ASSUME market \in Seq(FiniteBooks), NEW levels \in Seq(LevelUpdates), NEW m, Tells(market, levels, m),
         NEW s \in BookSides, NEW p \in Prices, NEW n \in 0..Len(levels),
         \A j \in 1..n : ~Touches(levels[j], s, p)
  PROVE  \A j \in 0..n : Volume(market[m + j + 1], s, p) = Volume(market[m + 1], s, p)
<1> DEFINE Good == {j \in Nat : j <= n => Volume(market[m + j + 1], s, p) = Volume(market[m + 1], s, p)}
<1>0. n \in Nat /\ n <= Len(levels) /\ Len(levels) \in Nat /\ m \in Nat
  BY ToldVolumes
<1>1. 0 \in Good
  <2>1. m + 0 + 1 = m + 1
    BY <1>0
  <2>2. QED
    BY <2>1
<1>2. ASSUME NEW j \in Good PROVE j + 1 \in Good
  <2> SUFFICES ASSUME j + 1 <= n
               PROVE  Volume(market[m + (j + 1) + 1], s, p) = Volume(market[m + 1], s, p)
    OBVIOUS
  <2>1. j \in Nat /\ j + 1 \in 1..n /\ j + 1 \in 1..Len(levels) /\ j <= n
        /\ m + (j + 1) = m + j + 1
    BY <1>0
  <2>2. Volume(market[m + (j + 1) + 1], s, p) = Volume(market[m + (j + 1)], s, p)
    BY <2>1, ToldVolumes
  <2>3. QED
    BY <2>1, <2>2
<1>3. Good \in SUBSET Nat
  OBVIOUS
<1> HIDE DEF Good
<1>4. \A j \in Nat : j \in Good
  BY <1>1, <1>2, <1>3, SetInduction
<1>5. \A j \in 0..n : j \in Nat /\ j <= n
  BY <1>0
<1>6. QED
  BY <1>4, <1>5 DEF Good

(* An update that was not refused applied.                                 *)
LEMMA NotRefusedApplies ==
  ASSUME NEW b, NEW levels, Len(levels) \in Nat, NEW n \in 1..Len(levels),
         n \notin Refused(b, levels)
  PROVE  /\ Applies(BooksAfter(b, levels)[n - 1], levels[n])
         /\ BooksAfter(b, levels)[n] = BookAfter(BooksAfter(b, levels)[n - 1], levels[n])
<1>1. Applies(BooksAfter(b, levels)[n - 1], levels[n])
  BY DEF Refused
<1>2. QED
  BY <1>1, BooksAfterUnfolds

(* Levels that apply leave a book whose levels are the exchange's at the   *)
(* last of the changes, or as they were and untouched.                     *)
LEMMA BuiltVolumes ==
  ASSUME market \in Seq(FiniteBooks), NEW levels \in Seq(LevelUpdates), NEW m, Tells(market, levels, m),
         NEW b \in FiniteBooks, NEW n \in 0..Len(levels),
         \A j \in 1..n : j \notin Refused(b, levels)
  PROVE  /\ BooksAfter(b, levels)[n] \in FiniteBooks
         /\ \A s \in BookSides, p \in Prices :
              Volume(BooksAfter(b, levels)[n], s, p) # 0 =>
                \/ Volume(BooksAfter(b, levels)[n], s, p) = Volume(market[m + n + 1], s, p)
                \/ /\ Volume(BooksAfter(b, levels)[n], s, p) = Volume(b, s, p)
                   /\ \A j \in 1..n : ~Touches(levels[j], s, p)
<1> DEFINE after == BooksAfter(b, levels)
           Right(i) ==
             \A s \in BookSides, p \in Prices :
               Volume(after[i], s, p) # 0 =>
                 \/ Volume(after[i], s, p) = Volume(market[m + i + 1], s, p)
                 \/ /\ Volume(after[i], s, p) = Volume(b, s, p)
                    /\ \A j \in 1..i : ~Touches(levels[j], s, p)
           Good == {i \in Nat : i <= n => after[i] \in FiniteBooks /\ Right(i)}
<1>0. n \in Nat /\ n <= Len(levels) /\ Len(levels) \in Nat /\ m \in Nat
  BY ToldVolumes
<1>1. 0 \in Good
  <2>1. after[0] = b
    BY <1>0, BooksAfterUnfolds
  <2> HIDE DEF after
  <2>2. \A j \in 1..0 : FALSE
    OBVIOUS
  <2>3. Right(0)
    BY <2>1, <2>2
  <2>4. QED
    BY <2>1, <2>3
<1>2. ASSUME NEW i \in Good PROVE i + 1 \in Good
  <2> SUFFICES ASSUME i + 1 <= n
               PROVE  after[i + 1] \in FiniteBooks /\ Right(i + 1)
    OBVIOUS
  <2>1. /\ i \in Nat /\ i + 1 \in 1..n /\ i + 1 \in 1..Len(levels) /\ i <= n
        /\ m + (i + 1) = m + i + 1 /\ (i + 1) - 1 = i
        /\ \A j \in 1..(i + 1) : j \in 1..i \/ j = i + 1
    BY <1>0
  <2>2. after[i + 1] = BookAfter(after[i], levels[i + 1])
    BY <1>0, <2>1, NotRefusedApplies
  <2>3. after[i] \in FiniteBooks /\ Right(i)
    BY <2>1
  <2> HIDE DEF after
  <2>4. levels[i + 1] \in LevelUpdates
    BY <2>1, ToldVolumes
  <2>5. /\ after[i + 1] \in FiniteBooks
        /\ \A s \in BookSides, p \in Prices :
             /\ Touches(levels[i + 1], s, p) => Volume(after[i + 1], s, p) = levels[i + 1].quantity
             /\ ~Touches(levels[i + 1], s, p) => Volume(after[i + 1], s, p) \in {0, Volume(after[i], s, p)}
    BY <2>2, <2>3, <2>4, BookAfterVolumes
  <2>6. \A s \in BookSides, p \in Prices :
          Volume(market[m + (i + 1) + 1], s, p) =
            IF Touches(levels[i + 1], s, p) THEN levels[i + 1].quantity
            ELSE Volume(market[m + i + 1], s, p)
    <3>1. \A s \in BookSides, p \in Prices :
            Volume(market[m + (i + 1) + 1], s, p) =
              IF Touches(levels[i + 1], s, p) THEN levels[i + 1].quantity
              ELSE Volume(market[m + (i + 1)], s, p)
      BY <2>1, ToldVolumes
    <3>2. QED
      BY <2>1, <3>1
  <2>7. ASSUME NEW s \in BookSides, NEW p \in Prices, Volume(after[i + 1], s, p) # 0
        PROVE  \/ Volume(after[i + 1], s, p) = Volume(market[m + (i + 1) + 1], s, p)
               \/ /\ Volume(after[i + 1], s, p) = Volume(b, s, p)
                  /\ \A j \in 1..(i + 1) : ~Touches(levels[j], s, p)
    <3>1. CASE Touches(levels[i + 1], s, p)
      BY <2>5, <2>6, <3>1
    <3>2. CASE ~Touches(levels[i + 1], s, p)
      <4>1. Volume(after[i + 1], s, p) = Volume(after[i], s, p)
        BY <2>5, <2>7, <3>2
      <4>2. Volume(market[m + (i + 1) + 1], s, p) = Volume(market[m + i + 1], s, p)
        BY <2>6, <3>2
      <4>3. \/ Volume(after[i], s, p) = Volume(market[m + i + 1], s, p)
            \/ /\ Volume(after[i], s, p) = Volume(b, s, p)
               /\ \A j \in 1..i : ~Touches(levels[j], s, p)
        BY <2>3, <2>7, <4>1
      <4>4. QED
        BY <2>1, <3>2, <4>1, <4>2, <4>3
    <3>3. QED
      BY <3>1, <3>2
  <2>8. QED
    BY <2>5, <2>7
<1>3. Good \in SUBSET Nat
  OBVIOUS
<1> HIDE DEF Good
<1>4. n \in Good
  BY <1>0, <1>1, <1>2, <1>3, SetInduction
<1>5. QED
  BY <1>0, <1>4 DEF Good

(* A change of the exchange's that leaves it within the depth applies to a *)
(* book like its own, and does the same there.                             *)
LEMMA ChangeApplies ==
  ASSUME NEW b \in FiniteBooks, NEW u \in LevelUpdates, Changed(b, u) # b,
         \A s \in BookSides : Cardinality(DOMAIN Changed(b, u)[s]) <= Depth
  PROVE  Applies(b, u) /\ BookAfter(b, u) = Changed(b, u)
<1> DEFINE x == b[u.side]
<1>1. /\ u.side \in BookSides /\ u.price \in Prices /\ u.quantity \in Quantities \cup {0}
      /\ b \in [BookSides -> Levels] /\ x \in Levels /\ IsFiniteSet(DOMAIN x)
  BY DEF LevelUpdates, FiniteBooks, Books
<1>2. CASE u.price \in DOMAIN x
  BY <1>2 DEF Applies, BookAfter, LevelsAfter, Changed
<1>3. CASE u.price \notin DOMAIN x
  <2>1. u.quantity # 0
    <3> SUFFICES ASSUME u.quantity = 0 PROVE FALSE
      OBVIOUS
    <3>1. x = [p \in DOMAIN x |-> x[p]]
      BY <1>1, LevelsAre
    <3>2. Without(x, u.price) = x
      BY <1>3, <3>1 DEF Without
    <3>3. Changed(b, u) = b
      BY <1>1, <3>2 DEF Changed
    <3>4. QED
      BY <3>3
  <2>2. Changed(b, u)[u.side] = With(x, u.price, u.quantity)
    BY <1>1, <2>1 DEF Changed
  <2>3. Cardinality(DOMAIN x \cup {u.price}) <= Depth
    BY <1>1, <2>2 DEF With
  <2>4. /\ Cardinality(DOMAIN x \cup {u.price}) = Cardinality(DOMAIN x) + 1
        /\ Cardinality(DOMAIN x) \in Nat
    BY <1>1, <1>3, FS_AddElement, FS_CardinalityType
  <2>5. ~Full(x)
    BY <2>3, <2>4, DepthAssumption DEF Full
  <2>6. QED
    BY <1>3, <2>1, <2>5 DEF Applies, BookAfter, LevelsAfter, Changed
<1>4. QED
  BY <1>2, <1>3

(* Within the depth every update that continues the exchange's own book    *)
(* applies, and gives its book after it.                                   *)
LEMMA WithinDepthFollows ==
  ASSUME market \in Seq(FiniteBooks), WithinDepth,
         NEW levels \in Seq(LevelUpdates), NEW m, Tells(market, levels, m)
  PROVE  /\ Refused(market[m + 1], levels) = {}
         /\ BooksAfter(market[m + 1], levels)[Len(levels)] = market[m + Len(levels) + 1]
<1> DEFINE b == market[m + 1]
           after == BooksAfter(b, levels)
           Good == {i \in Nat : i <= Len(levels) => after[i] = market[m + i + 1]}
<1>0. Len(levels) \in Nat /\ m \in Nat
  BY ToldVolumes
<1>1. 0 \in Good
  <2>1. after[0] = b /\ m + 0 + 1 = m + 1
    BY <1>0, BooksAfterUnfolds
  <2>2. QED
    BY <2>1
<1>2. \A i \in Nat : i + 1 <= Len(levels) /\ after[i] = market[m + i + 1] =>
        Applies(after[i], levels[i + 1]) /\ after[i + 1] = market[m + (i + 1) + 1]
  <2> SUFFICES ASSUME NEW i \in Nat, i + 1 <= Len(levels), after[i] = market[m + i + 1]
               PROVE  Applies(after[i], levels[i + 1]) /\ after[i + 1] = market[m + (i + 1) + 1]
    OBVIOUS
  <2>1. /\ i + 1 \in 1..Len(levels) /\ i + 1 \in 0..Len(levels)
        /\ m + (i + 1) = m + i + 1 /\ (i + 1) - 1 = i
    BY <1>0
  <2>2. /\ levels[i + 1] \in LevelUpdates
        /\ market[m + i + 1] \in FiniteBooks
        /\ market[m + (i + 1) + 1] = Changed(market[m + i + 1], levels[i + 1])
        /\ market[m + (i + 1) + 1] # market[m + i + 1]
    BY <2>1, ToldVolumes
  <2>3. m + (i + 1) + 1 \in DOMAIN market
    BY <2>1, ToldVolumes
  <2>4. \A s \in BookSides : Cardinality(DOMAIN market[m + (i + 1) + 1][s]) <= Depth
    BY <2>3 DEF WithinDepth
  <2>5. /\ Applies(market[m + i + 1], levels[i + 1])
        /\ BookAfter(market[m + i + 1], levels[i + 1]) = market[m + (i + 1) + 1]
    BY <2>2, <2>4, ChangeApplies
  <2>6. Applies(after[i], levels[i + 1]) =>
          after[i + 1] = BookAfter(after[i], levels[i + 1])
    BY <1>0, <2>1, BooksAfterUnfolds
  <2>7. QED
    BY <2>5, <2>6
<1> HIDE DEF after
<1>3. ASSUME NEW i \in Good PROVE i + 1 \in Good
  <2>1. i \in Nat /\ (i + 1 <= Len(levels) => i <= Len(levels))
    BY <1>0
  <2>2. QED
    BY <1>2, <2>1
<1>4. Good \in SUBSET Nat
  OBVIOUS
<1>5. \A i \in Nat : i <= Len(levels) => after[i] = market[m + i + 1]
  <2> HIDE DEF Good
  <2>1. \A i \in Nat : i \in Good
    BY <1>1, <1>3, <1>4, SetInduction
  <2>2. QED
    BY <2>1 DEF Good
<1>6. ASSUME NEW n \in 1..Len(levels) PROVE Applies(after[n - 1], levels[n])
  <2>1. n - 1 \in Nat /\ (n - 1) + 1 = n /\ n <= Len(levels) /\ n - 1 <= Len(levels)
    BY <1>0
  <2>2. QED
    BY <1>2, <1>5, <2>1
<1>7. Refused(b, levels) = {}
  BY <1>6 DEF Refused, after
<1>8. after[Len(levels)] = market[m + Len(levels) + 1]
  BY <1>0, <1>5
<1>9. QED
  BY <1>7, <1>8 DEF after

(* A level leaves the book while levels apply because the exchange removed *)
(* it, or had a better one.                                                *)
LEMMA LevelLeavesForAReason ==
  ASSUME market \in Seq(FiniteBooks), NEW levels \in Seq(LevelUpdates), NEW m, Tells(market, levels, m),
         NEW b \in FiniteBooks, NEW n \in 0..Len(levels),
         \A j \in 1..n : j \notin Refused(b, levels),
         NEW s \in BookSides, NEW best \in DOMAIN b[s],
         best \notin DOMAIN BooksAfter(b, levels)[n][s]
  PROVE  \E i \in 1..n :
           \/ best \notin DOMAIN market[m + i + 1][s]
           \/ \E p \in DOMAIN market[m + i + 1][s] : Better(s, p, best)
<1> DEFINE after == BooksAfter(b, levels)
           Left(i) == best \notin DOMAIN after[i][s]
           Reason(i) == \/ best \notin DOMAIN market[m + i + 1][s]
                        \/ \E p \in DOMAIN market[m + i + 1][s] : Better(s, p, best)
           Good == {i \in Nat : i <= n /\ Left(i) => \E j \in 1..i : Reason(j)}
<1>0. n \in Nat /\ n <= Len(levels) /\ Len(levels) \in Nat /\ m \in Nat
  BY ToldVolumes
<1>1. 0 \in Good
  <2>1. after[0] = b
    BY <1>0, BooksAfterUnfolds
  <2> HIDE DEF after, Reason
  <2>2. QED
    BY <2>1
<1>2. ASSUME NEW i \in Nat, i + 1 <= n, Left(i + 1), ~Left(i) PROVE Reason(i + 1)
  <2> DEFINE u == levels[i + 1]
             x == after[i][s]
             number == m + (i + 1) + 1
  <2>1. /\ i + 1 \in 1..n /\ i + 1 \in 1..Len(levels) /\ i \in 0..Len(levels)
        /\ (i + 1) - 1 = i /\ \A j \in 1..i : j \in 1..n
    BY <1>0, <1>2
  <2>2. /\ Applies(after[i], u) /\ after[i + 1] = BookAfter(after[i], u)
    BY <1>0, <2>1, NotRefusedApplies
  <2>3. /\ u \in LevelUpdates /\ market[number] \in FiniteBooks
        /\ \A p \in Prices : Touches(u, s, p) => Volume(market[number], s, p) = u.quantity
    <3>1. i + 1 \in 0..Len(levels)
      BY <1>0, <2>1
    <3>2. QED
      BY <2>1, <3>1, ToldVolumes
  <2>4. after[i] \in FiniteBooks
    BY <2>1, BuiltVolumes
  <2> HIDE DEF after, number
  <2>5. u.side = s
    <3>1. s # u.side => after[i + 1][s] = after[i][s]
      <4>1. s # u.side => BookAfter(after[i], u)[s] = after[i][s]
        BY <2>3, <2>4, BookAfterVolumes
      <4>2. QED
        BY <2>2, <4>1
    <3>2. after[i + 1][s] # after[i][s]
      BY <1>2
    <3>3. QED
      BY <3>1, <3>2
  <2>6. /\ u.price \in Prices /\ u.quantity \in Quantities \cup {0}
        /\ after[i] \in [BookSides -> Levels]
    BY <2>3, <2>4 DEF LevelUpdates, FiniteBooks, Books
  <2>7. after[i + 1][s] = LevelsAfter(x, u)
    BY <2>2, <2>5, <2>6 DEF BookAfter
  <2>8. Volume(market[number], s, u.price) = u.quantity
    BY <2>3, <2>5, <2>6 DEF Touches
  <2>9. CASE u.quantity = 0
    <3>1. best = u.price
      BY <1>2, <2>7, <2>9 DEF LevelsAfter, Without
    <3>2. best \notin DOMAIN market[number][s]
      BY <2>3, <2>8, <2>9, <3>1, VolumeMeansLevel
    <3>3. QED
      BY <3>2 DEF number
  <2>10. CASE u.quantity # 0
    <3>1. u.price \notin DOMAIN x /\ Full(x) /\ best = WorstPrice(s, x)
      BY <1>2, <2>5, <2>7, <2>10 DEF LevelsAfter, With, Without
    <3>2. Better(s, u.price, best)
      BY <2>2, <2>5, <2>10, <3>1 DEF Applies
    <3>3. u.price \in DOMAIN market[number][s]
      BY <2>3, <2>8, <2>10, VolumeMeansLevel
    <3>4. QED
      BY <3>2, <3>3 DEF number
  <2>11. QED
    BY <2>9, <2>10
<1> HIDE DEF Reason, Left
<1>3. ASSUME NEW i \in Good PROVE i + 1 \in Good
  <2> SUFFICES ASSUME i + 1 <= n, Left(i + 1) PROVE \E j \in 1..(i + 1) : Reason(j)
    OBVIOUS
  <2>1. i \in Nat /\ i <= n /\ i + 1 \in 1..(i + 1) /\ \A j \in 1..i : j \in 1..(i + 1)
    BY <1>0
  <2>2. CASE Left(i)
    BY <2>1, <2>2
  <2>3. CASE ~Left(i)
    BY <1>2, <2>1, <2>3
  <2>4. QED
    BY <2>2, <2>3
<1>4. Good \in SUBSET Nat
  OBVIOUS
<1>5. n \in Good
  <2> HIDE DEF Good
  <2>1. QED
    BY <1>0, <1>1, <1>3, <1>4, SetInduction
<1>6. Left(n)
  BY DEF Left
<1>7. \E j \in 1..n : Reason(j)
  BY <1>0, <1>5, <1>6
<1>8. QED
  BY <1>7 DEF Reason

-----------------------------------------------------------------------------
(* Updates that say nothing the queue did not say.                         *)
Known == {u \in BookUpdates : u.ours => \E j \in DOMAIN updates : u = updates[j]}

(* The queue, and what is left of it, says nothing new.                    *)
LEMMA QueueIsKnown ==
  ASSUME updates \in Seq(BookUpdates)
  PROVE  updates \in Seq(Known)
<1>1. /\ Len(updates) \in Nat /\ updates \in [1..Len(updates) -> BookUpdates]
      /\ DOMAIN updates = 1..Len(updates)
  BY LenProperties
<1>2. updates \in [1..Len(updates) -> Known]
  BY <1>1 DEF Known
<1> HIDE DEF Known
<1>3. QED
  BY <1>1, <1>2

(* The exchange's books of the past stay.                                  *)
LEMMA MarketStays ==
  ASSUME market \in Seq(FiniteBooks), Len(market) >= 1,
         market' = market \/ \E b \in FiniteBooks : market' = Append(market, b)
  PROVE  /\ market' \in Seq(FiniteBooks) /\ Len(market') >= Len(market)
         /\ Len(market) \in Nat /\ Len(market') \in Nat
         /\ \A k \in 1..Len(market) : market'[k] = market[k]
         /\ WithinDepth' => WithinDepth
         /\ \A levels \in Seq(LevelUpdates) : \A n : Tells(market, levels, n) => Tells(market', levels, n)
<1>1. /\ market' \in Seq(FiniteBooks) /\ Len(market') >= Len(market)
      /\ Len(market) \in Nat /\ Len(market') \in Nat
      /\ \A k \in 1..Len(market) : market'[k] = market[k]
  <2>1. CASE market' = market
    BY <2>1, LenProperties
  <2>2. ASSUME NEW b \in FiniteBooks, market' = Append(market, b)
        PROVE  /\ market' \in Seq(FiniteBooks) /\ Len(market') >= Len(market)
               /\ Len(market) \in Nat /\ Len(market') \in Nat
               /\ \A k \in 1..Len(market) : market'[k] = market[k]
    BY <2>2, AppendProperties, LenProperties
  <2>3. QED
    BY <2>1, <2>2
<1>2. DOMAIN market = 1..Len(market) /\ DOMAIN market' = 1..Len(market')
  BY <1>1, LenProperties
<1>3. WithinDepth' => WithinDepth
  <2>1. \A k \in 1..Len(market) : k \in 1..Len(market')
    BY <1>1
  <2>2. QED
    BY <1>1, <1>2, <2>1 DEF WithinDepth
<1>4. ASSUME NEW levels \in Seq(LevelUpdates), NEW n, Tells(market, levels, n)
      PROVE  Tells(market', levels, n)
  <2>1. /\ n \in Nat /\ Len(levels) \in Nat /\ n + Len(levels) <= Len(market) - 1
        /\ DOMAIN levels = 1..Len(levels)
    BY <1>4, LenProperties DEF Tells, MarketSequence
  <2>2. n + Len(levels) <= Len(market') - 1
    BY <1>1, <2>1
  <2>3. \A k \in 1..Len(levels) : n + k \in 1..Len(market) /\ n + k + 1 \in 1..Len(market)
    BY <1>1, <2>1
  <2>4. QED
    BY <1>1, <1>4, <2>1, <2>2, <2>3 DEF Tells, MarketSequence
<1>5. QED
  BY <1>1, <1>3, <1>4

(* The numbers of the story.                                               *)
LEMMA StoryNumbers ==
  ASSUME StorySound
  PROVE  /\ Len(market) \in Nat \ {0} /\ Len(batch) \in Nat /\ MarketSequence \in Nat
         /\ DOMAIN market = 1..Len(market) /\ DOMAIN batch = 1..Len(batch)
         /\ Published \in Nat /\ Published <= MarketSequence
         /\ DOMAIN updates = 1..Len(updates) /\ Len(updates) \in Nat
         /\ \A k \in DOMAIN updates :
              /\ updates[k] \in BookUpdates
              /\ updates[k].first \in Nat /\ updates[k].last \in Nat
              /\ updates[k].levels \in Seq(LevelUpdates)
         /\ \A k \in DOMAIN market : market[k] \in FiniteBooks
<1>1. /\ market \in Seq(FiniteBooks) /\ Len(market) >= 1 /\ batch \in Seq(LevelUpdates)
      /\ updates \in Seq(BookUpdates) /\ Tells(market, batch, Published)
  BY DEF StorySound
<1>2. /\ Len(market) \in Nat \ {0} /\ DOMAIN market = 1..Len(market)
      /\ Len(batch) \in Nat /\ DOMAIN batch = 1..Len(batch)
      /\ DOMAIN updates = 1..Len(updates) /\ Len(updates) \in Nat
  BY <1>1, LenProperties
<1>3. MarketSequence \in Nat
  BY <1>2 DEF MarketSequence
<1>4. Published \in Nat /\ Published <= MarketSequence
  BY <1>1, <1>2, <1>3 DEF Tells, Published
<1>5. \A k \in DOMAIN updates : updates[k] \in BookUpdates
  BY <1>1, <1>2, ElementOfSeq
<1>6. \A k \in DOMAIN market : market[k] \in FiniteBooks
  BY <1>1, <1>2, ElementOfSeq
<1>7. QED
  BY <1>2, <1>3, <1>4, <1>5, <1>6 DEF BookUpdates

(* A queue that says nothing new, of an exchange that did nothing.         *)
LEMMA StoryStays ==
  ASSUME StorySound, updates' \in Seq(Known), UNCHANGED <<market, batch>>
  PROVE  /\ StorySound'
         /\ \A k \in DOMAIN updates' : updates'[k].ours =>
              \E j \in DOMAIN updates : updates'[k] = updates[j]
<1>1. /\ market \in Seq(FiniteBooks) /\ Len(market) >= 1 /\ batch \in Seq(LevelUpdates)
  BY DEF StorySound
<1>2. market' = market /\ batch' = batch /\ Published' = Published
  BY DEF MarketSequence, Published
<1>3. \A k \in DOMAIN updates' : updates'[k] \in Known
  BY LenProperties, ElementOfSeq
<1>4. \A k \in DOMAIN updates' : updates'[k].ours =>
        \E j \in DOMAIN updates : updates'[k] = updates[j]
  BY <1>3 DEF Known
<1>5. updates' \in Seq(BookUpdates)
  <2>1. Known \subseteq BookUpdates
    BY DEF Known
  <2>2. QED
    BY <2>1, SeqMonotonic
<1>6. /\ market' \in Seq(FiniteBooks) /\ Len(market') >= 1
      /\ batch' \in Seq(LevelUpdates)
  BY <1>1
<1>7. Tells(market', batch', Published')
  BY <1>2 DEF StorySound
<1>8. \A k \in DOMAIN updates' : updates'[k].ours =>
        /\ Tells(market', updates'[k].levels, updates'[k].first - 1)
        /\ updates'[k].last = updates'[k].first - 1 + Len(updates'[k].levels)
        /\ updates'[k].first <= updates'[k].last /\ updates'[k].last <= Published'
  <2> SUFFICES ASSUME NEW k \in DOMAIN updates', updates'[k].ours
               PROVE  /\ Tells(market', updates'[k].levels, updates'[k].first - 1)
                      /\ updates'[k].last = updates'[k].first - 1 + Len(updates'[k].levels)
                      /\ updates'[k].first <= updates'[k].last /\ updates'[k].last <= Published'
    OBVIOUS
  <2>1. PICK j \in DOMAIN updates : updates'[k] = updates[j]
    BY <1>4
  <2>2. /\ Tells(market, updates[j].levels, updates[j].first - 1)
        /\ updates[j].last = updates[j].first - 1 + Len(updates[j].levels)
        /\ updates[j].first <= updates[j].last /\ updates[j].last <= Published
    BY <2>1 DEF StorySound
  <2>3. QED
    BY <1>2, <2>1, <2>2
<1>9. \A j, k \in DOMAIN updates' :
        /\ updates'[j].ours /\ updates'[k].ours
        /\ updates'[j].first = updates'[k].first
        => updates'[j].last = updates'[k].last
  BY <1>4 DEF StorySound
<1>10. QED
  BY <1>4, <1>5, <1>6, <1>7, <1>8, <1>9 DEF StorySound

-----------------------------------------------------------------------------
(* A side with levels has a best one.                                      *)
LEMMA BestExists ==
  ASSUME NEW side \in BookSides, NEW S \in SUBSET Nat, S # {}, IsFiniteSet(S)
  PROVE  \E p \in S : \A q \in S : q = p \/ Better(side, p, q)
<1>1. CASE side = "Sell"
  <2>1. PICK p \in S : \A q \in S : p <= q
    BY LeastNumber
  <2>2. QED
    BY <1>1, <2>1 DEF Better
<1>2. CASE side = "Buy"
  <2> DEFINE F == {T \in SUBSET S : T # {} => \E p \in T : \A q \in T : p >= q}
  <2>1. {} \in F
    OBVIOUS
  <2>2. \A T \in SUBSET S : \A x \in S : T \in F /\ x \notin T => T \cup {x} \in F
    <3> SUFFICES ASSUME NEW T \in SUBSET S, NEW x \in S, T \in F, x \notin T
                 PROVE  T \cup {x} \in F
      OBVIOUS
    <3>1. CASE T = {}
      BY <3>1
    <3>2. CASE T # {}
      <4>1. PICK p \in T : \A q \in T : p >= q
        BY <3>2
      <4>2. CASE p >= x
        BY <4>1, <4>2
      <4>3. CASE ~(p >= x)
        <5>1. \A q \in T \cup {x} : x >= q
          BY <4>1, <4>3
        <5>2. QED
          BY <5>1
      <4>4. QED
        BY <4>2, <4>3
    <3>3. QED
      BY <3>1, <3>2
  <2> HIDE DEF F
  <2>3. S \in F
    <3>1. \A T \in SUBSET S : T \in F
      BY <2>1, <2>2, SubsetInduction, Zenon
    <3>2. QED
      BY <3>1
  <2>4. PICK p \in S : \A q \in S : p >= q
    BY <2>3 DEF F
  <2>5. QED
    BY <1>2, <2>4 DEF Better
<1>3. QED
  BY <1>1, <1>2 DEF BookSides

(* Before the first update that is refused none was.                       *)
LEMMA BeforeRefused ==
  ASSUME NEW b, NEW levels, Len(levels) \in Nat, Refused(b, levels) # {}
  PROVE  /\ Min(Refused(b, levels)) - 1 \in 0..Len(levels)
         /\ \A j \in 1..(Min(Refused(b, levels)) - 1) : j \notin Refused(b, levels)
<1> DEFINE refused == Refused(b, levels)
           k == Min(refused)
<1>1. refused \in SUBSET Nat /\ refused \subseteq 1..Len(levels)
  BY DEF Refused
<1>2. PICK least \in refused : \A m \in refused : least <= m
  BY <1>1, LeastNumber
<1>3. k \in refused /\ \A m \in refused : k <= m
  BY <1>2 DEF Min
<1>4. k \in 1..Len(levels) /\ k \in Nat /\ \A m \in refused : m \in Nat /\ k <= m
  BY <1>1, <1>3
<1> HIDE DEF refused, k
<1>5. k - 1 \in 0..Len(levels)
  BY <1>4
<1>6. \A j \in 1..(k - 1) : ~(k <= j)
  BY <1>4
<1>7. k - 1 \in 0..Len(levels) /\ \A j \in 1..(k - 1) : j \notin refused
  BY <1>4, <1>5, <1>6
<1>8. QED
  BY <1>7 DEF refused, k

-----------------------------------------------------------------------------
(* A step that leaves the book alone and puts nothing new into the queue.  *)
LEMMA BookSoundStays ==
  ASSUME BookSound, updates' \in Seq(Known),
         UNCHANGED <<book, sequence, market, batch, events>>,
         stage' = stage \/ stage' = "stopped"
  PROVE  BookSound'
<1>1. /\ StorySound'
      /\ \A k \in DOMAIN updates' : updates'[k].ours =>
           \E j \in DOMAIN updates : updates'[k] = updates[j]
  BY StoryStays DEF BookSound
<1>2. /\ book' \in FiniteBooks /\ sequence' \in 0..MarketSequence'
      /\ stage' \in {"starting", "running", "stopped"}
      /\ (stage' = "starting" => events' = <<>>)
      /\ (stage' = "running" /\ WithinDepth' => book' = market'[sequence' + 1])
  BY DEF BookSound, MarketSequence, WithinDepth
<1>3. ASSUME stage' = "running"
      PROVE  \E number \in sequence'..MarketSequence' : BookedUpTo(number)'
  <2>1. PICK number \in sequence..MarketSequence : BookedUpTo(number)
    BY <1>3 DEF BookSound
  <2>2. BookedUpTo(number)'
    BY <1>1, <2>1 DEF BookedUpTo, Published, MarketSequence
  <2>3. QED
    BY <2>1, <2>2 DEF MarketSequence
<1>4. QED
  BY <1>1, <1>2, <1>3 DEF BookSound

(* The next update that is accepted.                                       *)
LEMMA AcceptedUpdate ==
  ASSUME BookSound, stage = "running", updates # <<>>,
         NEW u, u = Head(updates), Accepted(u)
  PROVE  /\ 1 \in DOMAIN updates /\ u = updates[1] /\ u.ours /\ u.first = sequence + 1
         /\ sequence \in Nat /\ u.last \in Nat /\ sequence < u.last
         /\ u.last <= Published /\ u.last <= MarketSequence
         /\ u.levels \in Seq(LevelUpdates) /\ Len(u.levels) \in Nat
         /\ Tells(market, u.levels, sequence) /\ u.last = sequence + Len(u.levels)
         /\ \A k \in DOMAIN updates :
              updates[k].ours /\ updates[k].first = sequence + 1 => updates[k].last = u.last
         /\ Tail(updates) \in Seq(Known)
<1>1. /\ StorySound /\ sequence \in 0..MarketSequence
  BY DEF BookSound
<1>2. updates \in Seq(BookUpdates)
  BY <1>1 DEF StorySound
<1>3. /\ MarketSequence \in Nat /\ DOMAIN updates = 1..Len(updates) /\ Len(updates) \in Nat
      /\ Published \in Nat /\ Published <= MarketSequence
  BY <1>1, StoryNumbers
<1>4. Len(updates) # 0
  BY <1>2, EmptySeq
<1>5. 1 \in DOMAIN updates /\ u = updates[1]
  BY <1>2, <1>3, <1>4
<1>6. /\ u.levels \in Seq(LevelUpdates) /\ u.first \in Nat /\ u.last \in Nat
  BY <1>1, <1>5, StoryNumbers
<1>7. Len(u.levels) \in Nat
  BY <1>6, LenProperties
<1>8. u.ours /\ u.first = sequence + 1
  BY DEF Accepted, SequenceValid
<1>9. /\ Tells(market, u.levels, u.first - 1) /\ u.last = u.first - 1 + Len(u.levels)
      /\ u.first <= u.last /\ u.last <= Published
      /\ \A k \in DOMAIN updates :
           updates[k].ours /\ updates[k].first = u.first => updates[k].last = u.last
  BY <1>1, <1>5, <1>8 DEF StorySound
<1>10. u.first - 1 = sequence /\ sequence \in Nat
  BY <1>1, <1>8
<1>11. Tail(updates) \in Seq(Known)
  BY <1>2, QueueIsKnown, HeadTailProperties
<1>12. QED
  BY <1>3, <1>5, <1>6, <1>7, <1>8, <1>9, <1>10, <1>11

(* What the levels of the next update make of the book, as far as they     *)
(* apply.                                                                  *)
LEMMA AppliedSoFar ==
  ASSUME BookSound, stage = "running", updates # <<>>,
         NEW u, u = Head(updates), Accepted(u), NEW n \in 0..Len(u.levels),
         \A j \in 1..n : j \notin Refused(book, u.levels)
  PROVE  /\ BooksAfter(book, u.levels)[n] \in FiniteBooks
         /\ \A s \in BookSides, p \in Prices :
              Volume(BooksAfter(book, u.levels)[n], s, p) # 0 =>
                /\ \E i \in sequence..u.last :
                     Volume(market[i + 1], s, p) = Volume(BooksAfter(book, u.levels)[n], s, p)
                /\ n = Len(u.levels) =>
                     Volume(market[u.last + 1], s, p) = Volume(BooksAfter(book, u.levels)[n], s, p)
<1> DEFINE levels == u.levels
           after == BooksAfter(book, u.levels)[n]
<1>1. /\ sequence \in Nat /\ u.last \in Nat /\ sequence < u.last
      /\ \A k \in DOMAIN updates :
           updates[k].ours /\ updates[k].first = sequence + 1 => updates[k].last = u.last
      /\ 1 \in DOMAIN updates /\ u = updates[1] /\ u.ours /\ u.first = sequence + 1
  BY AcceptedUpdate
<1>2. /\ levels \in Seq(LevelUpdates) /\ Tells(market, levels, sequence)
      /\ u.last = sequence + Len(levels) /\ Len(levels) \in Nat
      /\ market \in Seq(FiniteBooks) /\ book \in FiniteBooks
      /\ n \in Nat /\ n <= Len(levels)
  <2>1. /\ levels \in Seq(LevelUpdates) /\ Tells(market, levels, sequence)
        /\ u.last = sequence + Len(levels) /\ Len(levels) \in Nat
    BY AcceptedUpdate
  <2>2. QED
    BY <2>1 DEF BookSound, StorySound
<1>3. PICK number \in sequence..MarketSequence : BookedUpTo(number)
  BY DEF BookSound
<1>4. number = sequence \/ number = u.last
  BY <1>1, <1>3 DEF BookedUpTo
<1> HIDE DEF levels
<1>5. /\ BooksAfter(book, levels)[n] \in FiniteBooks
      /\ \A s \in BookSides, p \in Prices :
           Volume(BooksAfter(book, levels)[n], s, p) # 0 =>
             \/ Volume(BooksAfter(book, levels)[n], s, p) = Volume(market[sequence + n + 1], s, p)
             \/ /\ Volume(BooksAfter(book, levels)[n], s, p) = Volume(book, s, p)
                /\ \A j \in 1..n : ~Touches(levels[j], s, p)
  <2>1. \A j \in 1..n : j \notin Refused(book, levels)
    BY DEF levels
  <2>2. n \in 0..Len(levels)
    BY DEF levels
  <2>3. QED
    BY <1>2, <2>1, <2>2, BuiltVolumes
<1>6. after = BooksAfter(book, levels)[n]
  BY DEF levels
<1> HIDE DEF after
<1>7. ASSUME NEW s \in BookSides, NEW p \in Prices, Volume(after, s, p) # 0
      PROVE  /\ \E i \in sequence..u.last : Volume(market[i + 1], s, p) = Volume(after, s, p)
             /\ n = Len(levels) => Volume(market[u.last + 1], s, p) = Volume(after, s, p)
  <2>1. CASE Volume(after, s, p) = Volume(market[sequence + n + 1], s, p)
    <3>1. sequence + n \in sequence..u.last /\ (n = Len(levels) => sequence + n = u.last)
      BY <1>1, <1>2
    <3>2. QED
      BY <2>1, <3>1
  <2>2. CASE Volume(after, s, p) = Volume(book, s, p) /\ \A j \in 1..n : ~Touches(levels[j], s, p)
    <3>1. PICK i \in sequence..number : Volume(market[i + 1], s, p) = Volume(after, s, p)
      BY <1>3, <1>7, <2>2 DEF BookedUpTo
    <3>2. i \in sequence..u.last
      BY <1>1, <1>2, <1>4
    <3>3. ASSUME n = Len(levels) PROVE Volume(market[u.last + 1], s, p) = Volume(after, s, p)
      <4>1. n \in 0..Len(levels)
        BY <1>2
      <4>2. \A j \in 0..n : Volume(market[sequence + j + 1], s, p) = Volume(market[sequence + 1], s, p)
        BY <1>2, <2>2, <4>1, UntouchedStays
      <4>3. /\ i - sequence \in 0..n /\ sequence + (i - sequence) = i
            /\ n \in 0..n /\ sequence + n = u.last
        BY <1>1, <1>2, <3>2, <3>3
      <4>4. Volume(market[i + 1], s, p) = Volume(market[sequence + 1], s, p)
        BY <4>2, <4>3
      <4>5. Volume(market[u.last + 1], s, p) = Volume(market[sequence + 1], s, p)
        BY <4>2, <4>3
      <4>6. QED
        BY <3>1, <4>4, <4>5
    <3>4. QED
      BY <3>1, <3>2, <3>3
  <2>3. QED
    BY <1>5, <1>6, <1>7, <2>1, <2>2
<1>8. QED
  BY <1>5, <1>6, <1>7 DEF levels

(* An update is applied, all of it.                                        *)
LEMMA ApplyKeepsBook == BookSound /\ ApplyUpdate => BookSound'
<1> SUFFICES ASSUME BookSound, ApplyUpdate PROVE BookSound'
  OBVIOUS
<1>1. PICK u : u = Head(updates)
  OBVIOUS
<1> DEFINE after == BooksAfter(book, u.levels)[Len(u.levels)]
<1>2. /\ stage = "running" /\ updates # <<>> /\ updates' = Tail(updates)
      /\ Accepted(u) /\ Refused(book, u.levels) = {}
      /\ book' = after /\ sequence' = u.last
      /\ UNCHANGED <<stage, market, batch>>
  BY <1>1 DEF ApplyUpdate, Take
<1>3. /\ u.last \in Nat /\ sequence \in Nat /\ sequence < u.last /\ u.last <= MarketSequence
      /\ u.levels \in Seq(LevelUpdates) /\ Len(u.levels) \in Nat
      /\ Tells(market, u.levels, sequence) /\ u.last = sequence + Len(u.levels)
      /\ Tail(updates) \in Seq(Known)
  BY <1>1, <1>2, AcceptedUpdate
<1>4. /\ after \in FiniteBooks
      /\ \A s \in BookSides, p \in Prices :
           Volume(after, s, p) # 0 => Volume(market[u.last + 1], s, p) = Volume(after, s, p)
  <2>1. Len(u.levels) \in 0..Len(u.levels)
    BY <1>3
  <2>2. QED
    BY <1>1, <1>2, <2>1, AppliedSoFar
<1>5. StorySound'
  BY <1>2, <1>3, StoryStays DEF BookSound
<1>6. sequence' \in 0..MarketSequence'
  BY <1>2, <1>3 DEF MarketSequence
<1>7. WithinDepth => after = market[u.last + 1]
  <2> SUFFICES ASSUME WithinDepth PROVE after = market[u.last + 1]
    OBVIOUS
  <2>1. book = market[sequence + 1] /\ market \in Seq(FiniteBooks)
    BY <1>2 DEF BookSound, StorySound
  <2>2. BooksAfter(market[sequence + 1], u.levels)[Len(u.levels)]
          = market[sequence + Len(u.levels) + 1]
    BY <1>3, <2>1, WithinDepthFollows
  <2>3. QED
    BY <1>3, <2>1, <2>2
<1> HIDE DEF after
<1>8. WithinDepth' => book' = market'[sequence' + 1]
  BY <1>2, <1>7 DEF WithinDepth
<1>9. \E number \in sequence'..MarketSequence' : BookedUpTo(number)'
  <2>1. u.last \in u.last..u.last
    BY <1>3
  <2>2. BookedUpTo(u.last)'
    BY <1>2, <1>4, <2>1 DEF BookedUpTo
  <2>3. u.last \in sequence'..MarketSequence'
    BY <1>2, <1>3, <1>6
  <2>4. QED
    BY <2>2, <2>3
<1>10. QED
  BY <1>2, <1>4, <1>5, <1>6, <1>8, <1>9 DEF BookSound

(* An update is abandoned after the levels that applied: the book goes     *)
(* beyond its number, and the update stays the only one that continues it. *)
LEMMA AbandonKeepsBook == BookSound /\ AbandonUpdate => BookSound'
<1> SUFFICES ASSUME BookSound, AbandonUpdate PROVE BookSound'
  OBVIOUS
<1>1. PICK u : u = Head(updates)
  OBVIOUS
<1> DEFINE refused == Refused(book, u.levels)
           n == Min(refused) - 1
           after == BooksAfter(book, u.levels)[n]
<1>2. /\ stage = "running" /\ updates # <<>> /\ updates' = Tail(updates)
      /\ Accepted(u) /\ refused # {}
      /\ book' = after
      /\ UNCHANGED <<stage, sequence, events, market, batch>>
  BY <1>1 DEF AbandonUpdate, Take
<1>3. /\ u.last \in Nat /\ sequence \in Nat /\ sequence < u.last
      /\ u.last <= MarketSequence /\ u.last <= Published
      /\ u.levels \in Seq(LevelUpdates) /\ Len(u.levels) \in Nat
      /\ Tells(market, u.levels, sequence)
      /\ \A k \in DOMAIN updates :
           updates[k].ours /\ updates[k].first = sequence + 1 => updates[k].last = u.last
      /\ Tail(updates) \in Seq(Known)
  BY <1>1, <1>2, AcceptedUpdate
<1>4. n \in 0..Len(u.levels) /\ \A j \in 1..n : j \notin refused
  BY <1>2, <1>3, BeforeRefused
<1>5. /\ after \in FiniteBooks
      /\ \A s \in BookSides, p \in Prices :
           Volume(after, s, p) # 0 =>
             \E i \in sequence..u.last : Volume(market[i + 1], s, p) = Volume(after, s, p)
  BY <1>1, <1>2, <1>4, AppliedSoFar
<1> HIDE DEF after, n
<1>6. /\ StorySound'
      /\ \A k \in DOMAIN updates' : updates'[k].ours =>
           \E j \in DOMAIN updates : updates'[k] = updates[j]
  BY <1>2, <1>3, StoryStays DEF BookSound
<1>7. \E number \in sequence'..MarketSequence' : BookedUpTo(number)'
  <2>1. u.last \in sequence'..MarketSequence'
    BY <1>2, <1>3 DEF MarketSequence
  <2>2. BookedUpTo(u.last)'
    BY <1>2, <1>3, <1>5, <1>6 DEF BookedUpTo, Published, MarketSequence
  <2>3. QED
    BY <2>1, <2>2
<1>8. ~WithinDepth
  <2> SUFFICES ASSUME WithinDepth PROVE FALSE
    OBVIOUS
  <2>1. book = market[sequence + 1] /\ market \in Seq(FiniteBooks)
    BY <1>2 DEF BookSound, StorySound
  <2>2. Refused(market[sequence + 1], u.levels) = {}
    BY <1>3, <2>1, WithinDepthFollows
  <2>3. QED
    BY <1>2, <2>1, <2>2
<1>9. QED
  BY <1>2, <1>5, <1>6, <1>7, <1>8 DEF BookSound, MarketSequence, WithinDepth

(* The book starts as the snapshot, which is the exchange's at its number. *)
LEMMA SnapshotKeepsBook == BookSound /\ ApplySnapshot => BookSound'
<1> SUFFICES ASSUME BookSound, ApplySnapshot PROVE BookSound'
  OBVIOUS
<1>1. /\ stage' = "running" /\ sequence' = MarketSequence
      /\ book' = SetState(Last(market)["Buy"], Last(market)["Sell"])
      /\ UNCHANGED <<updates, events, market, batch>>
  BY DEF ApplySnapshot
<1>2. StorySound /\ updates \in Seq(BookUpdates)
  BY DEF BookSound, StorySound
<1>3. StorySound'
  BY <1>1, <1>2, QueueIsKnown, StoryStays
<1>4. /\ MarketSequence \in Nat /\ MarketSequence + 1 = Len(market)
      /\ Len(market) \in DOMAIN market /\ market[Len(market)] \in FiniteBooks
  <2>1. Len(market) \in Nat \ {0} /\ DOMAIN market = 1..Len(market)
        /\ \A k \in DOMAIN market : market[k] \in FiniteBooks
    BY <1>2, StoryNumbers
  <2>2. QED
    BY <2>1 DEF MarketSequence
<1>5. book' = market[MarketSequence + 1]
  <2>1. Last(market) = market[Len(market)]
    BY DEF Last
  <2>2. Last(market) \in [BookSides -> Levels]
    BY <1>4, <2>1 DEF FiniteBooks, Books
  <2>3. book' = Last(market)
    BY <1>1, <2>2 DEF SetState, BookSides
  <2>4. QED
    BY <1>4, <2>1, <2>3
<1>6. BookedUpTo(MarketSequence)'
  <2>1. MarketSequence' \in sequence'..MarketSequence'
    BY <1>1, <1>4 DEF MarketSequence
  <2>2. QED
    BY <1>1, <1>5, <2>1 DEF BookedUpTo, MarketSequence
<1>7. MarketSequence' \in sequence'..MarketSequence' /\ sequence' \in 0..MarketSequence'
  BY <1>1, <1>4 DEF MarketSequence
<1>8. QED
  BY <1>1, <1>3, <1>4, <1>5, <1>6, <1>7 DEF BookSound, MarketSequence

(* The exchange changes its book.                                          *)
LEMMA ChangeKeepsBook ==
  ASSUME BookSound, NEW s \in BookSides, NEW p \in Prices, NEW q \in Quantities \cup {0},
         Change(s, p, q)
  PROVE  BookSound'
<1> DEFINE u == [side |-> s, price |-> p, quantity |-> q]
           after == Changed(Last(market), u)
<1>1. /\ after # Last(market) /\ market' = Append(market, after) /\ batch' = Append(batch, u)
      /\ UNCHANGED <<stage, book, sequence, events, updates>>
  BY DEF Change, Changed, builder
<1>2. u \in LevelUpdates
  BY DEF LevelUpdates
<1>3. StorySound
  BY DEF BookSound
<1>4. /\ Len(market) \in Nat \ {0} /\ Len(batch) \in Nat /\ MarketSequence \in Nat
      /\ DOMAIN batch = 1..Len(batch) /\ Len(market) = MarketSequence + 1
      /\ DOMAIN market = 1..Len(market)
      /\ Published \in Nat /\ Published = MarketSequence - Len(batch)
      /\ Published <= MarketSequence
      /\ market \in Seq(FiniteBooks) /\ batch \in Seq(LevelUpdates)
      /\ Tells(market, batch, Published)
  BY <1>3, StoryNumbers DEF StorySound, MarketSequence, Published
<1>5. Last(market) = market[Len(market)] /\ after \in FiniteBooks
  <2>1. Last(market) = market[Len(market)]
    BY DEF Last
  <2>2. Last(market) \in FiniteBooks
    BY <1>3, <1>4, <2>1, StoryNumbers
  <2> HIDE DEF u
  <2>3. QED
    BY <1>2, <2>1, <2>2, ChangedVolumes
<1> HIDE DEF u, after
<1>6. /\ market' \in Seq(FiniteBooks) /\ Len(market') = Len(market) + 1
      /\ market'[Len(market) + 1] = after
      /\ \A k \in 1..Len(market) : market'[k] = market[k]
  BY <1>1, <1>4, <1>5, AppendProperties
<1>7. /\ batch' \in Seq(LevelUpdates) /\ Len(batch') = Len(batch) + 1
      /\ batch'[Len(batch) + 1] = u
      /\ \A k \in 1..Len(batch) : batch'[k] = batch[k]
  BY <1>1, <1>2, <1>4, AppendProperties
<1>8. /\ WithinDepth' => WithinDepth
      /\ \A levels \in Seq(LevelUpdates) : \A n :
           Tells(market, levels, n) => Tells(market', levels, n)
  BY <1>1, <1>4, <1>5, MarketStays
<1>9. MarketSequence' = MarketSequence + 1 /\ Published' = Published
  BY <1>4, <1>6, <1>7 DEF MarketSequence, Published
<1>10. Tells(market', batch', Published)
  <2>1. Tells(market', batch, Published)
    BY <1>4, <1>8
  <2>2. DOMAIN batch' = 1..(Len(batch) + 1)
    BY <1>7, LenProperties
  <2>3. Published + Len(batch') <= Len(market') - 1
    BY <1>4, <1>6, <1>7
  <2>4. ASSUME NEW k \in 1..(Len(batch) + 1)
        PROVE  /\ market'[Published + k + 1] = Changed(market'[Published + k], batch'[k])
               /\ market'[Published + k + 1] # market'[Published + k]
    <3>1. CASE k \in 1..Len(batch)
      BY <1>4, <1>7, <2>1, <3>1 DEF Tells
    <3>2. CASE k = Len(batch) + 1
      <4>1. Published + k = Len(market) /\ Len(market) \in 1..Len(market)
        BY <1>4, <3>2
      <4>2. market'[Published + k] = Last(market) /\ market'[Published + k + 1] = after
        BY <1>5, <1>6, <4>1
      <4>3. batch'[k] = u
        BY <1>7, <3>2
      <4>4. QED
        BY <1>1, <4>2, <4>3 DEF after
    <3>3. QED
      BY <1>4, <3>1, <3>2
  <2>5. QED
    BY <1>4, <2>2, <2>3, <2>4 DEF Tells
<1>11. StorySound'
  <2>1. \A k \in DOMAIN updates : updates[k].ours =>
          /\ Tells(market', updates[k].levels, updates[k].first - 1)
          /\ updates[k].last = updates[k].first - 1 + Len(updates[k].levels)
          /\ updates[k].first <= updates[k].last /\ updates[k].last <= Published
    BY <1>3, <1>8, StoryNumbers DEF StorySound
  <2>2. Len(market') >= 1
    BY <1>4, <1>6
  <2>3. QED
    BY <1>1, <1>3, <1>6, <1>7, <1>9, <1>10, <2>1, <2>2 DEF StorySound
<1>12. ASSUME stage = "running"
       PROVE  \E number \in sequence'..MarketSequence' : BookedUpTo(number)'
  <2>1. PICK number \in sequence..MarketSequence : BookedUpTo(number)
    BY <1>12 DEF BookSound
  <2>2. sequence \in Nat /\ number \in sequence'..MarketSequence'
    BY <1>1, <1>4, <1>9 DEF BookSound
  <2>3. \A n \in sequence..number : market'[n + 1] = market[n + 1]
    <3>1. \A n \in sequence..number : n + 1 \in 1..Len(market)
      BY <1>4, <2>1, <2>2
    <3>2. QED
      BY <1>6, <3>1
  <2>4. BookedUpTo(number)'
    BY <1>1, <1>9, <2>1, <2>3 DEF BookedUpTo
  <2>5. QED
    BY <2>2, <2>4
<1>13. stage = "running" /\ WithinDepth' => book = market'[sequence + 1]
  <2>1. sequence + 1 \in 1..Len(market)
    BY <1>4 DEF BookSound
  <2>2. QED
    BY <1>6, <1>8, <2>1 DEF BookSound
<1>14. sequence \in 0..MarketSequence'
  BY <1>4, <1>9 DEF BookSound
<1>15. QED
  BY <1>1, <1>11, <1>12, <1>13, <1>14 DEF BookSound

(* The exchange sends the changes that were not sent yet.                  *)
LEMMA PublishKeepsBook == BookSound /\ Publish => BookSound'
<1> SUFFICES ASSUME BookSound, Publish PROVE BookSound'
  OBVIOUS
<1> DEFINE u == [ours |-> TRUE, first |-> MarketSequence - Len(batch) + 1,
                 last |-> MarketSequence, levels |-> batch]
<1>1. /\ batch # <<>> /\ batch' = <<>>
      /\ updates' = Append(updates, u) \/ updates' = updates
      /\ UNCHANGED <<stage, book, sequence, events, market>>
  BY DEF Publish, builder
<1>2. StorySound
  BY DEF BookSound
<1>3. /\ Len(market) \in Nat \ {0} /\ Len(batch) \in Nat /\ MarketSequence \in Nat
      /\ Published \in Nat /\ Published = MarketSequence - Len(batch)
      /\ batch \in Seq(LevelUpdates) /\ Tells(market, batch, Published)
      /\ market \in Seq(FiniteBooks) /\ Len(market) >= 1
      /\ updates \in Seq(BookUpdates)
      /\ DOMAIN updates = 1..Len(updates) /\ Len(updates) \in Nat
  BY <1>2, StoryNumbers DEF StorySound, Published
<1>4. Len(batch) >= 1
  BY <1>1, <1>3, EmptySeq
<1>5. /\ u \in BookUpdates /\ u.ours /\ u.levels = batch
      /\ u.first \in Nat /\ u.last \in Nat /\ u.first - 1 = Published
      /\ u.first = Published + 1
      /\ u.last = u.first - 1 + Len(batch) /\ u.first <= u.last /\ u.last = MarketSequence
  BY <1>3, <1>4 DEF BookUpdates
<1> HIDE DEF u
<1>6. /\ batch' \in Seq(LevelUpdates) /\ Len(batch') = 0 /\ DOMAIN batch' = {}
      /\ MarketSequence' = MarketSequence /\ Published' = MarketSequence
  BY <1>1, <1>3 DEF MarketSequence, Published
<1>7. Tells(market', batch', Published')
  BY <1>1, <1>3, <1>6 DEF Tells, MarketSequence
<1>8. /\ updates' \in Seq(BookUpdates)
      /\ \A k \in DOMAIN updates' :
           updates'[k] = u \/ \E j \in DOMAIN updates : updates'[k] = updates[j]
  <2>1. CASE updates' = updates
    BY <1>3, <2>1
  <2>2. CASE updates' = Append(updates, u)
    <3>1. /\ updates' \in Seq(BookUpdates) /\ Len(updates') = Len(updates) + 1
          /\ updates'[Len(updates) + 1] = u
          /\ \A k \in 1..Len(updates) : updates'[k] = updates[k]
      BY <1>3, <1>5, <2>2, AppendProperties
    <3>2. DOMAIN updates' = 1..(Len(updates) + 1)
      BY <3>1, LenProperties
    <3>3. \A k \in DOMAIN updates' : k \in 1..Len(updates) \/ k = Len(updates) + 1
      BY <1>3, <3>2
    <3>4. QED
      BY <1>3, <3>1, <3>3
  <2>3. QED
    BY <1>1, <2>1, <2>2
<1>9. \A j \in DOMAIN updates :
        /\ updates[j].first \in Nat /\ updates[j].last \in Nat
        /\ updates[j].ours =>
             /\ Tells(market, updates[j].levels, updates[j].first - 1)
             /\ updates[j].last = updates[j].first - 1 + Len(updates[j].levels)
             /\ updates[j].first <= updates[j].last /\ updates[j].last <= Published
  BY <1>2, StoryNumbers DEF StorySound
<1>10. StorySound'
  <2>1. \A k \in DOMAIN updates' : updates'[k].ours =>
          /\ Tells(market', updates'[k].levels, updates'[k].first - 1)
          /\ updates'[k].last = updates'[k].first - 1 + Len(updates'[k].levels)
          /\ updates'[k].first <= updates'[k].last /\ updates'[k].last <= Published'
    <3> SUFFICES ASSUME NEW k \in DOMAIN updates', updates'[k].ours
                 PROVE  /\ Tells(market', updates'[k].levels, updates'[k].first - 1)
                        /\ updates'[k].last = updates'[k].first - 1 + Len(updates'[k].levels)
                        /\ updates'[k].first <= updates'[k].last /\ updates'[k].last <= Published'
      OBVIOUS
    <3>1. CASE updates'[k] = u
      <4>1. /\ Tells(market', u.levels, u.first - 1)
            /\ u.last = u.first - 1 + Len(u.levels)
        BY <1>1, <1>3, <1>5
      <4>2. u.first <= u.last /\ u.last <= Published'
        BY <1>3, <1>5, <1>6
      <4>3. QED
        BY <3>1, <4>1, <4>2
    <3>2. ASSUME NEW j \in DOMAIN updates, updates'[k] = updates[j]
          PROVE  /\ Tells(market', updates'[k].levels, updates'[k].first - 1)
                 /\ updates'[k].last = updates'[k].first - 1 + Len(updates'[k].levels)
                 /\ updates'[k].first <= updates'[k].last /\ updates'[k].last <= Published'
      <4>1. /\ Tells(market, updates[j].levels, updates[j].first - 1)
            /\ updates[j].last = updates[j].first - 1 + Len(updates[j].levels)
            /\ updates[j].first <= updates[j].last /\ updates[j].last <= Published
            /\ updates[j].last \in Nat
        BY <1>9, <3>2
      <4>2. updates[j].last <= MarketSequence
        BY <1>3, <4>1
      <4>3. QED
        BY <1>1, <1>6, <3>2, <4>1, <4>2
    <3>3. QED
      BY <1>8, <3>1, <3>2
  <2>2. \A j, k \in DOMAIN updates' :
          /\ updates'[j].ours /\ updates'[k].ours
          /\ updates'[j].first = updates'[k].first
          => updates'[j].last = updates'[k].last
    <3>1. \A i \in DOMAIN updates : updates[i].ours => updates[i].first # u.first
      BY <1>3, <1>5, <1>9
    <3>2. QED
      BY <1>2, <1>8, <3>1 DEF StorySound
  <2>3. QED
    BY <1>1, <1>3, <1>6, <1>7, <1>8, <2>1, <2>2 DEF StorySound
<1>11. ASSUME stage = "running"
       PROVE  \E number \in sequence'..MarketSequence' : BookedUpTo(number)'
  <2>1. PICK number \in sequence..MarketSequence : BookedUpTo(number)
    BY <1>11 DEF BookSound
  <2>2. sequence \in Nat /\ number \in Nat /\ sequence <= number
    BY <1>3, <2>1 DEF BookSound
  <2>3. ASSUME number # sequence
        PROVE  /\ number <= Published'
               /\ \A k \in DOMAIN updates' :
                    updates'[k].ours /\ updates'[k].first = sequence + 1 => updates'[k].last = number
    <3>1. /\ number <= Published
          /\ \A j \in DOMAIN updates :
               updates[j].ours /\ updates[j].first = sequence + 1 => updates[j].last = number
      BY <2>1, <2>3 DEF BookedUpTo
    <3>2. u.first # sequence + 1
      BY <1>3, <1>5, <2>2, <2>3, <3>1
    <3>3. number <= Published'
      BY <1>3, <1>6, <2>2, <3>1
    <3>4. QED
      BY <1>8, <3>1, <3>2, <3>3
  <2>4. BookedUpTo(number)'
    BY <1>1, <2>1, <2>3 DEF BookedUpTo
  <2>5. QED
    BY <1>1, <1>6, <2>1, <2>4
<1>12. QED
  BY <1>1, <1>6, <1>10, <1>11 DEF BookSound, WithinDepth

(* An exchange with its first book, a builder with none.                   *)
LEMMA InitBookSound == Init => BookSound
<1> SUFFICES ASSUME Init PROVE BookSound
  OBVIOUS
<1>1. PICK b \in InitialMarkets : market = <<b>>
  BY DEF Init
<1>2. /\ stage = "starting" /\ book = EmptyBook /\ sequence = 0 /\ updates = <<>>
      /\ events = <<>> /\ batch = <<>>
  BY DEF Init
<1>3. b \in FiniteBooks
  BY MarketsAssumption DEF FiniteBooks
<1>4. market \in Seq(FiniteBooks) /\ Len(market) = 1
  BY <1>1, <1>3
<1>5. EmptyBook \in FiniteBooks
  <2>1. NoLevels \in [{} -> Quantities] /\ {} \in SUBSET Prices
    BY DEF NoLevels
  <2>2. NoLevels \in Levels /\ DOMAIN NoLevels = {}
    BY <2>1 DEF Levels
  <2>3. IsFiniteSet({})
    BY FS_EmptySet
  <2>4. QED
    BY <2>2, <2>3 DEF EmptyBook, FiniteBooks, Books
<1>6. batch \in Seq(LevelUpdates) /\ updates \in Seq(BookUpdates)
      /\ Len(batch) = 0 /\ DOMAIN batch = {} /\ DOMAIN updates = {}
  BY <1>2
<1>7. MarketSequence = 0 /\ Published = 0
  BY <1>4, <1>6 DEF MarketSequence, Published
<1>8. Tells(market, batch, Published)
  BY <1>4, <1>6, <1>7 DEF Tells
<1>9. StorySound
  BY <1>4, <1>6, <1>8 DEF StorySound
<1>10. QED
  BY <1>2, <1>5, <1>7, <1>9 DEF BookSound

(* Every step, faults included, keeps the book sound.                      *)
LEMMA NextBookSound == BookSound /\ [Next]_vars => BookSound'
<1> SUFFICES ASSUME BookSound, [Next]_vars PROVE BookSound'
  OBVIOUS
<1>0. updates \in Seq(BookUpdates) /\ updates \in Seq(Known) /\ sequence \in Nat
      /\ DOMAIN updates = 1..Len(updates)
  BY QueueIsKnown, LenProperties DEF BookSound, StorySound
<1>1. ASSUME RefuseSnapshot PROVE BookSound'
  BY <1>0, <1>1, BookSoundStays DEF RefuseSnapshot
<1>2. ASSUME IgnoreUpdate PROVE BookSound'
  BY <1>0, <1>2, QueueOf, BookSoundStays DEF IgnoreUpdate, Take, builder
<1>3. ASSUME Subscribe PROVE BookSound'
  BY <1>0, <1>3, BookSoundStays DEF Subscribe, builder
<1>4. ASSUME NEW k \in DOMAIN updates, LoseUpdate(k) PROVE BookSound'
  BY <1>0, <1>4, QueueWithout, BookSoundStays DEF LoseUpdate, Fault, builder
<1>5. ASSUME NEW k \in DOMAIN updates, RepeatUpdate(k) PROVE BookSound'
  BY <1>0, <1>5, QueueOf, BookSoundStays DEF RepeatUpdate, Fault, builder
<1>6. ASSUME ForeignUpdate PROVE BookSound'
  <2>1. PICK s \in BookSides, p \in Prices :
          updates' = Append(updates,
            [ours |-> FALSE, first |-> sequence + 1, last |-> sequence + 1,
             levels |-> <<[side |-> s, price |-> p, quantity |-> 0]>>])
    BY <1>6 DEF ForeignUpdate
  <2> DEFINE l == [side |-> s, price |-> p, quantity |-> 0]
             u == [ours |-> FALSE, first |-> sequence + 1, last |-> sequence + 1,
                   levels |-> <<l>>]
  <2>2. <<l>> \in Seq(LevelUpdates)
    <3>1. l \in LevelUpdates
      BY DEF LevelUpdates
    <3> HIDE DEF l
    <3>2. QED
      BY <3>1
  <2>3. u \in Known
    BY <1>0, <2>2 DEF Known, BookUpdates
  <2>4. updates' \in Seq(Known)
    BY <1>0, <2>1, <2>3, QueueOf
  <2>5. QED
    BY <1>6, <2>4, BookSoundStays DEF ForeignUpdate, Fault, builder
<1>7. ASSUME UNCHANGED vars PROVE BookSound'
  BY <1>0, <1>7, BookSoundStays DEF vars
<1>8. QED
  BY <1>1, <1>2, <1>3, <1>4, <1>5, <1>6, <1>7, SnapshotKeepsBook, ApplyKeepsBook,
     AbandonKeepsBook, ChangeKeepsBook, PublishKeepsBook DEF Next, OnBookUpdate, Exchange

(* The exchange's book changes only by a change of the exchange's.         *)
LEMMA MarketMoves ==
  ASSUME BookSound, [Next]_vars
  PROVE  market' = market \/ \E b \in FiniteBooks : market' = Append(market, b)
<1>1. ASSUME NEW s \in BookSides, NEW p \in Prices, NEW q \in Quantities \cup {0}, Change(s, p, q)
      PROVE  \E b \in FiniteBooks : market' = Append(market, b)
  <2> DEFINE u == [side |-> s, price |-> p, quantity |-> q]
  <2>1. market' = Append(market, Changed(Last(market), u))
    BY <1>1 DEF Change, Changed
  <2>2. u \in LevelUpdates
    BY DEF LevelUpdates
  <2>3. Last(market) \in FiniteBooks
    <3>1. /\ Len(market) \in Nat \ {0} /\ DOMAIN market = 1..Len(market)
          /\ \A k \in DOMAIN market : market[k] \in FiniteBooks
      BY StoryNumbers DEF BookSound
    <3>2. QED
      BY <3>1 DEF Last
  <2> HIDE DEF u
  <2>4. QED
    BY <2>1, <2>2, <2>3, ChangedVolumes
<1>2. QED
  BY <1>1 DEF Next, OnBookUpdate, Exchange, ApplySnapshot, RefuseSnapshot, IgnoreUpdate,
       ApplyUpdate, AbandonUpdate, Publish, Subscribe, LoseUpdate, RepeatUpdate,
       ForeignUpdate, Fault, vars

(* Only an update that is applied is announced.                            *)
LEMMA WhatAddsEvents ==
  ASSUME [Next]_vars
  PROVE  events' = events \/ ApplyUpdate
BY DEF Next, OnBookUpdate, Exchange, ApplySnapshot, RefuseSnapshot, IgnoreUpdate,
       AbandonUpdate, Change, Publish, Subscribe, LoseUpdate, RepeatUpdate, ForeignUpdate,
       Fault, builder, vars

(* The book of a running builder is the exchange's at the number it has,   *)
(* as far as the exchange stayed within the depth, however updates were    *)
(* lost, repeated or mixed with others': BookBuilder::applySnapshot and    *)
(* onBookUpdate.                                                           *)
THEOREM BookIsKept == Spec => []BookIsMarketAtSequence
<1>1. BookSound => BookIsMarketAtSequence
  BY DEF BookSound, BookIsMarketAtSequence, VolumeAt
<1>2. QED
  BY <1>1, InitBookSound, NextBookSound, PTL DEF Spec

(* The steps that change the book of a running builder.                    *)
LEMMA WhatChangesBooks ==
  ASSUME [Next]_vars, stage = "running", book' # book
  PROVE  ApplyUpdate \/ AbandonUpdate
BY DEF Next, OnBookUpdate, Exchange, ApplySnapshot, RefuseSnapshot, IgnoreUpdate,
       Change, Publish, Subscribe, LoseUpdate, RepeatUpdate, ForeignUpdate, Fault,
       builder, vars

(* Within the depth no update is abandoned.                                *)
LEMMA NothingAbandoned ==
  ASSUME BookSound, WithinDepth, AbandonUpdate
  PROVE  FALSE
<1>1. PICK u : u = Head(updates)
  OBVIOUS
<1>2. /\ stage = "running" /\ updates # <<>> /\ Accepted(u) /\ Refused(book, u.levels) # {}
  BY <1>1 DEF AbandonUpdate, Take
<1>3. u.levels \in Seq(LevelUpdates) /\ Tells(market, u.levels, sequence)
  BY <1>1, <1>2, AcceptedUpdate
<1>4. book = market[sequence + 1] /\ market \in Seq(FiniteBooks)
  BY <1>2 DEF BookSound, StorySound
<1>5. Refused(market[sequence + 1], u.levels) = {}
  BY <1>3, <1>4, WithinDepthFollows
<1>6. QED
  BY <1>2, <1>4, <1>5

(* A running builder changes its book only with an event that announces    *)
(* it, as long as the exchange stays within the depth: every return of     *)
(* BookBuilder::onBookUpdate.                                              *)
THEOREM ChangesAreAnnounced == Spec => ChangesWithinDepthAreAnnounced
<1>1. BookSound /\ NumbersSound /\ [Next]_vars =>
        (stage = "running" /\ book' # book /\ WithinDepth => Len(events') > Len(events))
  <2> SUFFICES ASSUME BookSound, NumbersSound, [Next]_vars,
                      stage = "running", book' # book, WithinDepth
               PROVE  Len(events') > Len(events)
    OBVIOUS
  <2>1. ApplyUpdate
    BY WhatChangesBooks, NothingAbandoned
  <2>2. PICK event : events' = Append(events, event)
    BY <2>1 DEF ApplyUpdate
  <2>3. PICK S : events \in Seq(S)
    BY DEF NumbersSound
  <2>4. events \in Seq(S \cup {event}) /\ event \in S \cup {event}
    BY <2>3
  <2>5. Len(events') = Len(events) + 1 /\ Len(events) \in Nat
    BY <2>2, <2>4, AppendProperties, LenProperties
  <2>6. QED
    BY <2>5
<1>2. QED
  BY <1>1, InitBookSound, NextBookSound, InitNumbersSound, NextNumbersSound, PTL
     DEF Spec, ChangesWithinDepthAreAnnounced

(* A best level leaves the book only because the exchange removed it or    *)
(* had a better one, whatever the depth: the template applyBookUpdate and  *)
(* the level it pushes out of a full side.                                 *)
THEOREM BestLeaves == Spec => BestLeavesForAReason
<1> DEFINE Reasoned == \A s \in BookSides :
             LET best == BestPrice(s, book[s])
             IN  /\ stage = "running"
                 /\ book[s] # NoLevels
                 /\ best \notin DOMAIN book'[s]
                 => \E n \in Head(updates).first..Head(updates).last :
                      LET levels == market[n + 1][s]
                      IN  best \notin DOMAIN levels \/ \E p \in DOMAIN levels : Better(s, p, best)
<1>1. BookSound /\ [Next]_vars => Reasoned
  <2> SUFFICES ASSUME BookSound, [Next]_vars, NEW s \in BookSides, stage = "running",
                      book[s] # NoLevels, BestPrice(s, book[s]) \notin DOMAIN book'[s]
               PROVE  \E n \in Head(updates).first..Head(updates).last :
                        \/ BestPrice(s, book[s]) \notin DOMAIN market[n + 1][s]
                        \/ \E p \in DOMAIN market[n + 1][s] : Better(s, p, BestPrice(s, book[s]))
    OBVIOUS
  <2>1. PICK best : best = BestPrice(s, book[s])
    OBVIOUS
  <2>2. best \in DOMAIN book[s]
    <3>1. book \in FiniteBooks /\ book[s] \in Levels /\ IsFiniteSet(DOMAIN book[s])
      BY DEF BookSound, FiniteBooks, Books
    <3>2. DOMAIN book[s] # {}
      BY <3>1, LevelsAre DEF NoLevels
    <3>3. DOMAIN book[s] \in SUBSET Nat
      BY <3>1, LevelsAre, PricesAssumption
    <3>4. QED
      BY <2>1, <3>1, <3>2, <3>3, BestExists DEF BestPrice
  <2>3. PICK u : u = Head(updates)
    OBVIOUS
  <2>4. ApplyUpdate \/ AbandonUpdate
    BY <2>1, <2>2, WhatChangesBooks
  <2>5. /\ updates # <<>> /\ Accepted(u)
        /\ \E n \in 0..Len(u.levels) :
             /\ \A j \in 1..n : j \notin Refused(book, u.levels)
             /\ book' = BooksAfter(book, u.levels)[n]
    <3>1. CASE ApplyUpdate
      <4>1. /\ updates # <<>> /\ Accepted(u) /\ Refused(book, u.levels) = {}
            /\ book' = BooksAfter(book, u.levels)[Len(u.levels)]
        BY <2>3, <3>1 DEF ApplyUpdate, Take
      <4>2. Len(u.levels) \in 0..Len(u.levels)
        BY <2>3, <4>1, AcceptedUpdate
      <4>3. QED
        BY <4>1, <4>2
    <3>2. CASE AbandonUpdate
      <4>1. /\ updates # <<>> /\ Accepted(u) /\ Refused(book, u.levels) # {}
            /\ book' = BooksAfter(book, u.levels)[Min(Refused(book, u.levels)) - 1]
        BY <2>3, <3>2 DEF AbandonUpdate, Take
      <4>2. /\ Min(Refused(book, u.levels)) - 1 \in 0..Len(u.levels)
            /\ \A j \in 1..(Min(Refused(book, u.levels)) - 1) : j \notin Refused(book, u.levels)
        BY <2>3, <4>1, AcceptedUpdate, BeforeRefused
      <4>3. QED
        BY <4>1, <4>2
    <3>3. QED
      BY <2>4, <3>1, <3>2
  <2>6. PICK n \in 0..Len(u.levels) :
          /\ \A j \in 1..n : j \notin Refused(book, u.levels)
          /\ book' = BooksAfter(book, u.levels)[n]
    BY <2>5
  <2>7. /\ u.first = sequence + 1 /\ sequence \in Nat /\ u.last = sequence + Len(u.levels)
        /\ u.levels \in Seq(LevelUpdates) /\ Len(u.levels) \in Nat
        /\ Tells(market, u.levels, sequence) /\ u.last \in Nat
    BY <2>3, <2>5, AcceptedUpdate
  <2>8. market \in Seq(FiniteBooks) /\ book \in FiniteBooks
    BY DEF BookSound, StorySound
  <2>9. PICK i \in 1..n :
          \/ best \notin DOMAIN market[sequence + i + 1][s]
          \/ \E p \in DOMAIN market[sequence + i + 1][s] : Better(s, p, best)
    BY <2>1, <2>2, <2>6, <2>7, <2>8, LevelLeavesForAReason
  <2>10. sequence + i \in u.first..u.last
    BY <2>6, <2>7, <2>9
  <2>11. QED
    BY <2>1, <2>3, <2>9, <2>10
<1>2. QED
  BY <1>1, InitBookSound, NextBookSound, PTL DEF Spec, BestLeavesForAReason

(* What is announced of an update is the top of a book whose levels are    *)
(* the exchange's.                                                         *)
LEMMA TopQuotesTheMarket ==
  ASSUME NEW side \in BookSides, NEW ours \in FiniteBooks, NEW theirs \in FiniteBooks,
         \A p \in Prices : Volume(ours, side, p) # 0 => Volume(theirs, side, p) = Volume(ours, side, p),
         TopOf(side, ours[side]).price # 0
  PROVE  LET top == TopOf(side, ours[side])
         IN  top.price \in DOMAIN theirs[side] /\ theirs[side][top.price] = top.quantity
<1> DEFINE levels == ours[side]
           best == BestPrice(side, levels)
<1>1. levels \in Levels /\ IsFiniteSet(DOMAIN levels)
  BY DEF FiniteBooks, Books
<1>2. levels # NoLevels
  BY DEF TopOf
<1>3. DOMAIN levels # {} /\ DOMAIN levels \in SUBSET Nat /\ DOMAIN levels \subseteq Prices
  BY <1>1, <1>2, LevelsAre, PricesAssumption DEF NoLevels
<1>4. best \in DOMAIN levels
  BY <1>1, <1>3, BestExists DEF BestPrice
<1>5. TopOf(side, levels) = [price |-> best, quantity |-> levels[best]]
  BY <1>2 DEF TopOf
<1> HIDE DEF best
<1>6. Volume(ours, side, best) = levels[best] /\ Volume(ours, side, best) # 0 /\ best \in Prices
  BY <1>3, <1>4, VolumeMeansLevel
<1>7. Volume(theirs, side, best) = levels[best] /\ Volume(theirs, side, best) # 0
  BY <1>6
<1>8. best \in DOMAIN theirs[side] /\ theirs[side][best] = levels[best]
  BY <1>7, VolumeMeansLevel
<1>9. QED
  BY <1>5, <1>8

(* What a builder announces was the exchange's at the number it gives, for *)
(* every depth and every fault, and within the depth it was its best:      *)
(* BookBuilder::onBookUpdate and the MarketEvent it makes.                 *)
THEOREM EventsQuote == Spec => []EventsQuoteTheMarket
<1> DEFINE Quotes(event) ==
             LET theirs == market[event.sequence + 1]
                 bids == theirs["Buy"]
                 asks == theirs["Sell"]
             IN  /\ event.bid # 0 => event.bid \in DOMAIN bids /\ bids[event.bid] = event.bidQuantity
                 /\ event.ask # 0 => event.ask \in DOMAIN asks /\ asks[event.ask] = event.askQuantity
                 /\ WithinDepth => event = MarketEvent(event.sequence, theirs)
<1>1. Init => EventsQuoteTheMarket
  BY DEF Init, EventsQuoteTheMarket
<1>2. BookSound /\ NumbersSound /\ EventsQuoteTheMarket /\ [Next]_vars => EventsQuoteTheMarket'
  <2> SUFFICES ASSUME BookSound, NumbersSound, EventsQuoteTheMarket, [Next]_vars
               PROVE  EventsQuoteTheMarket'
    OBVIOUS
  <2>1. /\ market \in Seq(FiniteBooks) /\ Len(market) >= 1 /\ Len(market) \in Nat
        /\ sequence \in 0..(Len(market) - 1)
    BY LenProperties DEF BookSound, StorySound, MarketSequence
  <2>2. \A k \in DOMAIN events :
          /\ events[k].sequence + 1 \in 1..Len(market)
          /\ Quotes(events[k])
    <3>1. \A k \in DOMAIN events : events[k].sequence \in Nat /\ events[k].sequence <= sequence
      BY DEF NumbersSound, EventsInOrder
    <3>2. \A k \in DOMAIN events : events[k].sequence + 1 \in 1..Len(market)
      BY <2>1, <3>1
    <3>3. QED
      BY <3>2 DEF EventsQuoteTheMarket
  <2>3. CASE events' = events
    <3>1. market' = market \/ \E b \in FiniteBooks : market' = Append(market, b)
      BY MarketMoves
    <3>2. \A k \in 1..Len(market) : market'[k] = market[k]
      BY <2>1, <3>1, MarketStays
    <3>3. WithinDepth' => WithinDepth
      BY <2>1, <3>1, MarketStays
    <3>4. QED
      BY <2>2, <2>3, <3>2, <3>3 DEF EventsQuoteTheMarket
  <2>4. CASE ApplyUpdate
    <3>1. PICK u : u = Head(updates)
      OBVIOUS
    <3>2. PICK after : after = BooksAfter(book, u.levels)[Len(u.levels)]
      OBVIOUS
    <3>3. PICK event : event = MarketEvent(u.last, after)
      OBVIOUS
    <3>4. /\ stage = "running" /\ updates # <<>> /\ Accepted(u) /\ Refused(book, u.levels) = {}
          /\ events' = Append(events, event) /\ market' = market
      BY <2>4, <3>1, <3>2, <3>3 DEF ApplyUpdate, Take
    <3>5. /\ Len(u.levels) \in Nat /\ u.last \in Nat /\ u.last <= MarketSequence
      BY <3>1, <3>4, AcceptedUpdate
    <3>6. /\ after \in FiniteBooks
          /\ \A s \in BookSides, p \in Prices :
               Volume(after, s, p) # 0 => Volume(market[u.last + 1], s, p) = Volume(after, s, p)
      <4>1. Len(u.levels) \in 0..Len(u.levels)
        BY <3>5
      <4>2. QED
        BY <3>1, <3>2, <3>4, <4>1, AppliedSoFar
    <3>7. market[u.last + 1] \in FiniteBooks
      <4>1. u.last + 1 \in 1..Len(market)
        BY <2>1, <3>5 DEF MarketSequence
      <4>2. QED
        BY <2>1, <4>1, ElementOfSeq
    <3>8. Quotes(event)
      <4>1. /\ event.sequence = u.last
            /\ event.bid = TopOf("Buy", after["Buy"]).price
            /\ event.bidQuantity = TopOf("Buy", after["Buy"]).quantity
            /\ event.ask = TopOf("Sell", after["Sell"]).price
            /\ event.askQuantity = TopOf("Sell", after["Sell"]).quantity
        BY <3>3 DEF MarketEvent
      <4>2. "Buy" \in BookSides /\ "Sell" \in BookSides
        BY DEF BookSides
      <4>3. event.bid # 0 =>
              /\ event.bid \in DOMAIN market[u.last + 1]["Buy"]
              /\ market[u.last + 1]["Buy"][event.bid] = event.bidQuantity
        BY <3>6, <3>7, <4>1, <4>2, TopQuotesTheMarket
      <4>4. event.ask # 0 =>
              /\ event.ask \in DOMAIN market[u.last + 1]["Sell"]
              /\ market[u.last + 1]["Sell"][event.ask] = event.askQuantity
        BY <3>6, <3>7, <4>1, <4>2, TopQuotesTheMarket
      <4>5. WithinDepth => event = MarketEvent(event.sequence, market[event.sequence + 1])
        <5>1. BookSound'
          BY NextBookSound
        <5>2. /\ book' = after /\ sequence' = u.last /\ stage' = "running"
              /\ WithinDepth' <=> WithinDepth
          BY <2>4, <3>1, <3>2, <3>4 DEF ApplyUpdate, WithinDepth
        <5>3. WithinDepth => after = market[u.last + 1]
          BY <3>4, <5>1, <5>2 DEF BookSound
        <5>4. QED
          BY <3>3, <4>1, <5>3
      <4>6. QED
        BY <4>1, <4>3, <4>4, <4>5
    <3>9. \A k \in DOMAIN events' : events'[k] = event \/ (k \in DOMAIN events /\ events'[k] = events[k])
      <4>1. PICK S : events \in Seq(S)
        BY DEF NumbersSound
      <4>2. events \in Seq(S \cup {event}) /\ event \in S \cup {event}
        BY <4>1
      <4>3. /\ events' \in Seq(S \cup {event}) /\ Len(events') = Len(events) + 1
            /\ events'[Len(events) + 1] = event /\ Len(events) \in Nat
            /\ \A k \in 1..Len(events) : events'[k] = events[k]
            /\ DOMAIN events = 1..Len(events)
        BY <3>4, <4>2, AppendProperties, LenProperties
      <4>4. DOMAIN events' = 1..(Len(events) + 1)
        BY <4>3, LenProperties
      <4>5. ASSUME NEW k \in 1..(Len(events) + 1)
            PROVE  events'[k] = event \/ (k \in DOMAIN events /\ events'[k] = events[k])
        <5>1. CASE k = Len(events) + 1
          BY <4>3, <5>1
        <5>2. CASE k # Len(events) + 1
          <6>1. k \in 1..Len(events)
            BY <4>3, <5>2
          <6>2. QED
            BY <4>3, <6>1, Zenon
        <5>3. QED
          BY <5>1, <5>2
      <4>6. QED
        BY <4>4, <4>5
    <3>10. WithinDepth' => WithinDepth
      BY <3>4 DEF WithinDepth
    <3>11. ASSUME NEW k \in DOMAIN events' PROVE Quotes(events'[k])
      BY <2>2, <3>8, <3>9
    <3> HIDE DEF Quotes
    <3>12. \A k \in DOMAIN events' : Quotes(events'[k])
      BY <3>11
    <3>13. QED
      BY <3>4, <3>10, <3>12 DEF EventsQuoteTheMarket, Quotes
  <2>5. QED
    BY <2>3, <2>4, WhatAddsEvents
<1>3. QED
  BY <1>1, <1>2, InitBookSound, NextBookSound, InitNumbersSound, NextNumbersSound, PTL DEF Spec
=============================================================================
