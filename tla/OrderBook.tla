----------------------------- MODULE OrderBook -----------------------------
(***************************************************************************)
(* The local order book of src/trading_core/src/order_book/order_book.cpp  *)
(* as operators.  The levels of one side are a function from the prices    *)
(* present to their quantities; a book gives the levels of both sides.     *)
(* Depth limits the levels an update may add to a side -- and nothing      *)
(* else: setState stores every level of a snapshot.                        *)
(***************************************************************************)
EXTENDS Integers, Sequences, FiniteSets

CONSTANT Depth   \* OrderBook::depthValue

ASSUME DepthAssumption == Depth \in Nat \ {0}

BookSides == {"Buy", "Sell"}

NoLevels == [p \in {} |-> 0]

(* The order of BidLevels (descending) and of AskLevels (ascending).       *)
Better(side, p, q) == IF side = "Buy" THEN p > q ELSE p < q

BestPrice(side, levels) ==
  CHOOSE p \in DOMAIN levels : \A q \in DOMAIN levels : q = p \/ Better(side, p, q)

WorstPrice(side, levels) ==
  CHOOSE p \in DOMAIN levels : \A q \in DOMAIN levels : q = p \/ Better(side, q, p)

Without(levels, price) == [p \in DOMAIN levels \ {price} |-> levels[p]]

With(levels, price, quantity) ==
  [p \in DOMAIN levels \cup {price} |-> IF p = price THEN quantity ELSE levels[p]]

(* Mutant of Full: one level is kept free.                                 *)
MutantFullEarly(levels) == Cardinality(DOMAIN levels) + 1 >= Depth

Full(levels) == Cardinality(DOMAIN levels) >= Depth

(* What OrderBook::applyUpdate returns: false for the removal of a level   *)
(* that is not there, and for a new level a full side has no place for.    *)
Applies(book, update) ==
  LET levels == book[update.side]
  IN  \/ update.price \in DOMAIN levels
      \/ /\ update.quantity # 0
         /\ \/ ~Full(levels)
            \/ Better(update.side, update.price, WorstPrice(update.side, levels))

(* Mutant of LevelsAfter: a full side gives up its best level.             *)
MutantEvictsBest(levels, update) ==
  IF update.quantity = 0
  THEN Without(levels, update.price)
  ELSE IF update.price \notin DOMAIN levels /\ Full(levels)
       THEN With(Without(levels, BestPrice(update.side, levels)), update.price, update.quantity)
       ELSE With(levels, update.price, update.quantity)

(* Mutant of LevelsAfter: a quantity of zero is stored like any other.     *)
MutantKeepsEmpty(levels, update) == With(levels, update.price, update.quantity)

(* The levels of the side after an update that applies; one beyond the     *)
(* depth pushes the worst level out.                                       *)
LevelsAfter(levels, update) ==
  IF update.quantity = 0
  THEN Without(levels, update.price)
  ELSE IF update.price \notin DOMAIN levels /\ Full(levels)
       THEN With(Without(levels, WorstPrice(update.side, levels)), update.price, update.quantity)
       ELSE With(levels, update.price, update.quantity)

(* OrderBook::setState takes over every level, whatever the depth.         *)
SetState(bids, asks) == [s \in BookSides |-> IF s = "Buy" THEN bids ELSE asks]

BookAfter(book, update) ==
  [book EXCEPT ![update.side] = LevelsAfter(@, update)]

(* The books after 0, 1, ... of the updates; an update that does not apply *)
(* changes nothing.                                                        *)
BooksAfter(book, updates) ==
  LET after[n \in 0..Len(updates)] ==
        IF n = 0 THEN book
        ELSE IF Applies(after[n - 1], updates[n]) THEN BookAfter(after[n - 1], updates[n])
             ELSE after[n - 1]
  IN  after

(* The updates at which applying them one after the other would stop.      *)
Refused(book, updates) ==
  {n \in 1..Len(updates) : ~Applies(BooksAfter(book, updates)[n - 1], updates[n])}

(* getBestPrice; a side without levels has none and reads as zero.         *)
TopOf(side, levels) ==
  IF levels = NoLevels THEN [price |-> 0, quantity |-> 0]
  ELSE [price |-> BestPrice(side, levels), quantity |-> levels[BestPrice(side, levels)]]

(* bidVolume, askVolume, bidSize and askSize.                              *)
VolumeAt(levels, price) == IF price \in DOMAIN levels THEN levels[price] ELSE 0

SizeOf(levels) == Cardinality(DOMAIN levels)
=============================================================================
