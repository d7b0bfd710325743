---------------------------- MODULE BookBuilder ----------------------------
(***************************************************************************)
(* BookBuilder with the OrderBook it owns and the loop of its thread       *)
(* (src/trading_core/src/order_book/book_builder.cpp and                   *)
(* book_builder_module.cpp): one snapshot establishes the book, then the   *)
(* updates of bookUpdateQueue are applied, each one that is accepted       *)
(* ending in a MarketEvent for the strategy and the recording queue.       *)
(*                                                                         *)
(* The exchange is external.  Its book changes one level at a time, each   *)
(* change taking the next sequence number; now and then the changes made   *)
(* since the last message are sent as one update that names the range of   *)
(* their numbers.  The snapshot is taken, and the stream is subscribed to, *)
(* at any time: nothing in the code orders the two.  `market' keeps the    *)
(* book of the exchange at every sequence number, for the properties.      *)
(***************************************************************************)
EXTENDS OrderBook, SequencesExt

CONSTANTS
  Prices,          \* the prices of the exchange
  Quantities,      \* quantities of a level
  InitialMarkets,  \* books the exchange may start with
  Faults,          \* subset of FaultKinds
  MaxChanges,      \* bound on the changes of the exchange's book
  MaxBatch,        \* bound on the changes sent in one update
  MaxFaults        \* bound on the faults of one behaviour

FaultKinds == {"lose", "repeat", "foreign"}

Levels == UNION {[S -> Quantities] : S \in SUBSET Prices}
Books == [BookSides -> Levels]

Uncrossed(book) ==
  \A b \in DOMAIN book["Buy"], a \in DOMAIN book["Sell"] : b < a

ASSUME PricesAssumption == Prices \subseteq Nat \ {0}
ASSUME QuantitiesAssumption == Quantities \subseteq Nat \ {0}
ASSUME MarketsAssumption ==
  \A b \in InitialMarkets : b \in Books /\ Uncrossed(b) /\ \A s \in BookSides : IsFiniteSet(DOMAIN b[s])
ASSUME FaultsAssumption == Faults \subseteq FaultKinds
ASSUME BoundsAssumption == {MaxChanges, MaxBatch, MaxFaults} \subseteq Nat

VARIABLES
  stage,        \* of BookBuilderModule::run: "starting", "running", "stopped"
  book,         \* OrderBook::bids and asks
  sequence,     \* OrderBook::sequenceNumber
  updates,      \* bookUpdateQueue
  events,       \* history: the MarketEvents dispatched, in order
  market,       \* market[n + 1] is the exchange's book at sequence number n
  batch,        \* changes of the exchange not sent yet
  subscribed,   \* whether the exchange sends us updates
  faults        \* the kinds of the faults so far

builder == <<stage, book, sequence, events>>
vars == <<stage, book, sequence, updates, events, market, batch, subscribed, faults>>

LevelUpdates == [side : BookSides, price : Prices, quantity : Quantities \cup {0}]
BookUpdates == [ours : BOOLEAN, first : Nat, last : Nat, levels : Seq(LevelUpdates)]

MarketSequence == Len(market) - 1

EmptyBook == [s \in BookSides |-> NoLevels]

Init ==
  /\ stage = "starting"
  /\ book = EmptyBook
  /\ sequence = 0
  /\ updates = <<>>
  /\ events = <<>>
  /\ market \in {<<b>> : b \in InitialMarkets}
  /\ batch = <<>>
  /\ subscribed = FALSE
  /\ faults = <<>>
-----------------------------------------------------------------------------
(* BookBuilderModule::run up to the loop, with BookBuilder::applySnapshot. *)
ApplySnapshot ==
  /\ stage = "starting"
  /\ stage' = "running"
  /\ book' = SetState(Last(market)["Buy"], Last(market)["Sell"])
  /\ sequence' = MarketSequence
  /\ UNCHANGED <<updates, events, market, batch, subscribed, faults>>

(* A snapshot of another instrument is refused and ends the thread.        *)
RefuseSnapshot ==
  /\ stage = "starting"
  /\ "foreign" \in Faults
  /\ stage' = "stopped"
  /\ UNCHANGED <<book, sequence, updates, events, market, batch, subscribed, faults>>

(* Mutants of SequenceValid: what was missed is not noticed, or what is    *)
(* known already.                                                          *)
MutantGapsPass(update) == update.last > sequence
MutantRepeatsPass(update) == update.first <= sequence + 1

SequenceValid(update) == update.first = sequence + 1

Accepted(update) == update.ours /\ SequenceValid(update)

MarketEvent(number, levels) ==
  LET bid == TopOf("Buy", levels["Buy"])
      ask == TopOf("Sell", levels["Sell"])
  IN  [sequence |-> number, bid |-> bid.price, bidQuantity |-> bid.quantity,
       ask |-> ask.price, askQuantity |-> ask.quantity]

Take == stage = "running" /\ updates # <<>> /\ updates' = Tail(updates)

(* BookBuilder::onBookUpdate, by what becomes of the update: it is ignored *)
(* for its instrument or its sequence numbers, ...                         *)
IgnoreUpdate ==
  /\ Take
  /\ ~Accepted(Head(updates))
  /\ UNCHANGED <<builder, market, batch, subscribed, faults>>

(* Mutant of ApplyUpdate: the book is left at the first number of the      *)
(* range instead of the last.                                              *)
MutantFirstOfRange ==
  LET update == Head(updates)
      after  == BooksAfter(book, update.levels)[Len(update.levels)]
  IN  /\ Take
      /\ Accepted(update)
      /\ Refused(book, update.levels) = {}
      /\ book' = after
      /\ sequence' = update.first
      /\ events' = Append(events, MarketEvent(update.first, after))
      /\ UNCHANGED <<stage, market, batch, subscribed, faults>>

(* ... all its levels apply, ...                                           *)
ApplyUpdate ==
  LET update == Head(updates)
      after  == BooksAfter(book, update.levels)[Len(update.levels)]
  IN  /\ Take
      /\ Accepted(update)
      /\ Refused(book, update.levels) = {}
      /\ book' = after
      /\ sequence' = update.last
      /\ events' = Append(events, MarketEvent(update.last, after))
      /\ UNCHANGED <<stage, market, batch, subscribed, faults>>

(* ... or one does not: those before it stay applied.                      *)
AbandonUpdate ==
  LET update  == Head(updates)
      refused == Refused(book, update.levels)
  IN  /\ Take
      /\ Accepted(update)
      /\ refused # {}
      /\ book' = BooksAfter(book, update.levels)[Min(refused) - 1]
      /\ UNCHANGED <<stage, sequence, events, market, batch, subscribed, faults>>

OnBookUpdate == IgnoreUpdate \/ ApplyUpdate \/ AbandonUpdate
-----------------------------------------------------------------------------
(* The exchange sets or removes a level, never crossing its own book.      *)
Change(side, price, quantity) ==
  LET levels == Last(market)[side]
      after  == [Last(market) EXCEPT ![side] =
                   IF quantity = 0 THEN Without(levels, price)
                   ELSE With(levels, price, quantity)]
  IN  /\ MarketSequence < MaxChanges
      /\ Len(batch) < MaxBatch
      /\ after # Last(market)
      /\ Uncrossed(after)
      /\ market' = Append(market, after)
      /\ batch' = Append(batch, [side |-> side, price |-> price, quantity |-> quantity])
      /\ UNCHANGED <<builder, updates, subscribed, faults>>

(* The changes not sent yet become one update, which reaches the queue if  *)
(* the stream is subscribed to.                                            *)
Publish ==
  /\ batch # <<>>
  /\ updates' = IF subscribed
                THEN Append(updates,
                       [ours |-> TRUE, first |-> MarketSequence - Len(batch) + 1,
                        last |-> MarketSequence, levels |-> batch])
                ELSE updates
  /\ batch' = <<>>
  /\ UNCHANGED <<builder, market, subscribed, faults>>

Subscribe ==
  /\ ~subscribed
  /\ subscribed' = TRUE
  /\ UNCHANGED <<builder, updates, market, batch, faults>>

Fault(kind) ==
  /\ kind \in Faults
  /\ Len(faults) < MaxFaults
  /\ faults' = Append(faults, kind)
  /\ UNCHANGED <<builder, market, batch, subscribed>>

(* An update is lost, repeated, or about another instrument.               *)
LoseUpdate(k) == Fault("lose") /\ updates' = RemoveAt(updates, k)

RepeatUpdate(k) == Fault("repeat") /\ updates' = Append(updates, updates[k])

ForeignUpdate ==
  /\ Fault("foreign")
  /\ \E s \in BookSides, p \in Prices :
       updates' = Append(updates,
         [ours |-> FALSE, first |-> sequence + 1, last |-> sequence + 1,
          levels |-> <<[side |-> s, price |-> p, quantity |-> 0]>>])

Exchange ==
  \/ \E s \in BookSides, p \in Prices, q \in Quantities \cup {0} : Change(s, p, q)
  \/ Publish
  \/ Subscribe
  \/ \E k \in DOMAIN updates : LoseUpdate(k) \/ RepeatUpdate(k)
  \/ ForeignUpdate

Next == ApplySnapshot \/ RefuseSnapshot \/ OnBookUpdate \/ Exchange

Spec == Init /\ [][Next]_vars

(* The thread keeps running and gets its snapshot; the exchange sends what *)
(* changed.                                                                *)
Fairness ==
  /\ WF_vars(ApplySnapshot)
  /\ WF_vars(OnBookUpdate)
  /\ WF_vars(Publish)

FairSpec == Spec /\ Fairness
-----------------------------------------------------------------------------
(* No side of the exchange's book was ever deeper than ours may be.        *)
WithinDepth ==
  \A n \in DOMAIN market, s \in BookSides : Cardinality(DOMAIN market[n][s]) <= Depth

(* The local book is the exchange's own book as it was at the sequence     *)
(* number the local book carries -- whatever was missed, repeated or sent  *)
(* for another instrument, and whenever the snapshot was taken -- as long  *)
(* as the exchange stays within the depth.  Compared is what the queries   *)
(* of OrderBook say of it.                                                 *)
BookIsMarketAtSequence ==
  stage = "running" /\ WithinDepth =>
    \A s \in BookSides :
      LET theirs == market[sequence + 1][s]
      IN  /\ SizeOf(book[s]) = SizeOf(theirs)
          /\ \A p \in DOMAIN theirs : VolumeAt(book[s], p) = theirs[p]

(* A best price that was announced was a level of the exchange's book at   *)
(* the sequence number of the event, with the quantity announced.  This    *)
(* holds for every depth: levels are forgotten, never invented.  Within    *)
(* the depth it was the exchange's best ("the current best bid and best    *)
(* ask after processing a market data update", market_event.hpp), and a    *)
(* side announced as empty was empty.                                      *)
EventsQuoteTheMarket ==
  \A k \in DOMAIN events :
    LET event  == events[k]
        theirs == market[event.sequence + 1]
        bids   == theirs["Buy"]
        asks   == theirs["Sell"]
    IN  /\ event.bid # 0 => event.bid \in DOMAIN bids /\ bids[event.bid] = event.bidQuantity
        /\ event.ask # 0 => event.ask \in DOMAIN asks /\ asks[event.ask] = event.askQuantity
        /\ WithinDepth => event = MarketEvent(event.sequence, theirs)

(* Events carry rising sequence numbers, none beyond the book's own:       *)
(* "sequence ... is used to preserve the order of market data updates".    *)
EventsInOrder ==
  \A k \in DOMAIN events :
    /\ events[k].sequence <= sequence
    /\ \A j \in 1..(k - 1) : events[j].sequence < events[k].sequence

(* The best level of a side is given up only for a reason: the exchange    *)
(* removed it, or had a better one that pushed it out, while the update    *)
(* being applied was made.  A full side forgets its worst levels.          *)
BestLeavesForAReason ==
  [][\A s \in BookSides :
       LET best == BestPrice(s, book[s])
       IN  /\ stage = "running"
           /\ book[s] # NoLevels
           /\ best \notin DOMAIN book'[s]
           => \E n \in Head(updates).first..Head(updates).last :
                LET levels == market[n + 1][s]
                IN  best \notin DOMAIN levels \/ \E p \in DOMAIN levels : Better(s, p, best)]_vars

(* A running builder changes the book only together with an event that     *)
(* announces it: a change the strategy never hears of cannot stay behind   *)
(* ("a single accepted BookUpdate produces one MarketEvent after all       *)
(* contained price level updates have been applied", book_update.hpp).     *)
BookChangesAreAnnounced ==
  [][stage = "running" /\ book' # book => Len(events') > Len(events)]_vars

(* The same, as long as the exchange stays within the depth.               *)
ChangesWithinDepthAreAnnounced ==
  [][stage = "running" /\ book' # book /\ WithinDepth => Len(events') > Len(events)]_vars

(* A builder that has, or is going to get, the update that continues its   *)
(* book catches up with the exchange, unless an update is lost or the      *)
(* exchange goes beyond the depth.                                         *)
Continued ==
  /\ stage = "running"
  /\ \/ sequence = MarketSequence
     \/ \E k \in DOMAIN updates : updates[k].ours /\ updates[k].first = sequence + 1
     \/ subscribed /\ batch # <<>> /\ MarketSequence - Len(batch) = sequence

CatchesUp ==
  Continued ~> \/ sequence = MarketSequence
               \/ "lose" \in Range(faults)
               \/ ~WithinDepth
=============================================================================
