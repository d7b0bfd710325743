--------------------------- MODULE MarketDataFeed ---------------------------
(***************************************************************************)
(* The edge where market data comes in: MarketDataModule connects the      *)
(* source of the exchange with MarketDataMessageHandler, which has every   *)
(* message parsed into the one buffer it owns and pushes what it finds     *)
(* there (src/trading_core/src/market_data/, exchanges/binance/).          *)
(*                                                                         *)
(* A message is what the parser makes of it: its result, and what it puts  *)
(* into the buffer.  A parser that fails may have put something there, and *)
(* one that succeeds nothing: Binance's, as it stands, always does.        *)
(***************************************************************************)
EXTENDS Integers, Sequences, SequencesExt

CONSTANTS
  Results,       \* ParseResult: "Success" and the errors told apart
  MaxSize,       \* bound on the levels or trades in a message
  MaxMessages    \* bound on the messages received

Kinds == {"nothing", "update", "trades"}

(* A buffer holds what the message of number `from' put there; an update   *)
(* without levels is empty().                                              *)
Nothing == [kind |-> "nothing", size |-> 0, from |-> 0]

VARIABLES
  connected,   \* the source has its message handler
  receiving,   \* BinanceMarketDataSource::running
  item,        \* MarketDataMessageHandler::marketDataItem
  updates,     \* the updates pushed to bookUpdateQueue
  trades,      \* the trades pushed to tradeQueue
  metrics,     \* MarketDataParseErrors and MarketDataUpdates
  feed         \* history: the messages received

source == <<connected, receiving>>
vars == <<connected, receiving, item, updates, trades, metrics, feed>>

Init ==
  /\ connected = FALSE /\ receiving = FALSE
  /\ item = Nothing
  /\ updates = <<>> /\ trades = <<>>
  /\ metrics = [errors |-> 0, updates |-> 0]
  /\ feed = <<>>

(* The constructor of MarketDataModule.                                    *)
Connect ==
  /\ ~connected
  /\ connected' = TRUE
  /\ UNCHANGED <<receiving, item, updates, trades, metrics, feed>>

(* MarketDataModule::start and stop.                                       *)
StartSource ==
  /\ connected
  /\ receiving' = TRUE
  /\ UNCHANGED <<connected, item, updates, trades, metrics, feed>>

StopSource ==
  /\ connected
  /\ receiving' = FALSE
  /\ UNCHANGED <<connected, item, updates, trades, metrics, feed>>

(* Mutant of Cleared: the buffer is left to the parser.                    *)
MutantNotCleared == item

(* The buffer the parser is given.                                         *)
Cleared == Nothing

(* IMarketDataParser::parse fills the buffer, or leaves it alone.          *)
Parsed(message) ==
  IF message.kind = "nothing" THEN Cleared
  ELSE [kind |-> message.kind, size |-> message.size, from |-> Len(feed) + 1]

Succeeds(message) == message.result = "Success"

(* MarketDataMessageHandler::onMessage.  Without an error the update is    *)
(* moved out of the buffer, and the trades are copied.                     *)
OnMessage(message) ==
  LET failed == ~Succeeds(message)
      parsed == Parsed(message)
      moved  == ~failed /\ parsed.kind = "update" /\ parsed.size > 0
      copied == ~failed /\ parsed.kind = "trades"
  IN  /\ receiving
      /\ Len(feed) < MaxMessages
      /\ feed' = Append(feed, message)
      /\ item' = IF moved THEN [parsed EXCEPT !.size = 0] ELSE parsed
      /\ updates' = IF moved THEN Append(updates, parsed.from) ELSE updates
      /\ trades' = IF copied THEN trades \o [k \in 1..parsed.size |-> <<parsed.from, k>>]
                   ELSE trades
      /\ metrics' = IF failed THEN [metrics EXCEPT !.errors = @ + 1]
                    ELSE [metrics EXCEPT !.updates = @ + 1]
      /\ UNCHANGED source

Next ==
  \/ Connect \/ StartSource \/ StopSource
  \/ \E result \in Results, kind \in Kinds, size \in 0..MaxSize :
       OnMessage([result |-> result, kind |-> kind, size |-> size])

Spec == Init /\ [][Next]_vars
-----------------------------------------------------------------------------
(* What went into the queues is what the messages without an error hold,   *)
(* in their order, all of it and each of it once: nothing that an earlier  *)
(* message left in the buffer is taken for part of a later one, nothing of *)
(* a message given up half way, and no update without levels.  Every       *)
(* message is counted, and none comes in before the source has a handler.  *)
MessagesArriveOnce ==
  LET Good(n, kind) == feed[n].result = "Success" /\ feed[n].kind = kind
  IN  /\ Range(updates) = {n \in DOMAIN feed : Good(n, "update") /\ feed[n].size > 0}
      /\ \A j, k \in DOMAIN updates : j < k => updates[j] < updates[k]
      /\ Range(trades) = {trade \in (DOMAIN feed) \X (1..MaxSize) :
                            Good(trade[1], "trades") /\ trade[2] <= feed[trade[1]].size}
      /\ \A j, k \in DOMAIN trades : j < k =>
           \/ trades[j][1] < trades[k][1]
           \/ trades[j][1] = trades[k][1] /\ trades[j][2] < trades[k][2]
      /\ metrics.errors + metrics.updates = Len(feed)
      /\ receiving => connected
=============================================================================
