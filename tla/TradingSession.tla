--------------------------- MODULE TradingSession ---------------------------
(***************************************************************************)
(* From the configuration file to the gateway: what the application makes  *)
(* of a configuration (src/trading_core/src/config/), how it constructs    *)
(* its modules from it (app/application.cpp), what its exchange adapters   *)
(* do with and without the handlers that make the connection (exchanges/), *)
(* and which orders the strategy then gets past OrderManager::createOrder. *)
(*                                                                         *)
(* A file is described by what the loader can tell of it: whether it       *)
(* opens, is JSON, was read without an error of the stream, holds values   *)
(* of the expected types, and the settings it contains.  No order of the   *)
(* session is executed, so the position every request is checked against   *)
(* is flat; OrderManager covers the others.                                *)
(***************************************************************************)
EXTENDS ImbalanceStrategy, TLC

CONSTANTS
  Files,    \* the configuration files the application may be started with
  Market,   \* the quotes that may come in
  Other     \* an instrument that is not configured

VARIABLES
  file,       \* the file the application was started with
  phase,      \* how far runApp has got
  config,     \* Application::config
  handlers,   \* the adapters' handlers that are set
  book,       \* where the builder's book comes from
  sent        \* the orders the gateway has handed on

vars == <<file, phase, config, handlers, book, sent>>

NoInstrument == 0
Handlers == {"send", "fetch"}
NoLimits == [maxOrderQuantity |-> 0, maxPositionQuantity |-> 0, maxNotional |-> 0]

(* The members of Config before the file is read.                          *)
Defaults ==
  [instrument |-> NoInstrument, depthValue |-> 500, orderQuantity |-> 1 * Scale,
   numerator |-> 7, denominator |-> 10, riskLimits |-> NoLimits, exchanges |-> {}]

(* JsonConfigLoader::load: what the file says replaces the default.        *)
ConfigOf(f) == f.settings @@ Defaults

ValidStrategyConfig(c) ==
  c.denominator > 0 /\ c.numerator >= 0 /\ c.numerator <= c.denominator

LoadError(f) ==
  CASE ~f.opens -> "FileOpenFailed"
    [] f.opens /\ ~f.parses -> "InvalidFormat"
    [] f.opens /\ f.parses /\ ~f.good -> "FileReadFailed"
    [] f.opens /\ f.parses /\ f.good ->
         IF \/ ~f.typed
            \/ ConfigOf(f).depthValue = 0
            \/ ~ValidStrategyConfig(ConfigOf(f))
         THEN "InvalidConfiguration"
         ELSE "none"

Init ==
  /\ file \in Files
  /\ phase = "loading"
  /\ config = Defaults
  /\ handlers \in SUBSET Handlers
  /\ book = "none"
  /\ sent = {}

(* ExecutionModule makes its RiskManager without limits, whatever config   *)
(* says of them.                                                           *)
LimitsInForce == NoLimits
-----------------------------------------------------------------------------
(* loadConfig throws whatever the loader returns; runApp reports it.       *)
LoadConfig ==
  /\ phase = "loading"
  /\ IF LoadError(file) = "none"
     THEN phase' = "constructing" /\ config' = ConfigOf(file)
     ELSE phase' = "reported" /\ config' = config
  /\ UNCHANGED <<file, handlers, book, sent>>

(* What IExchangeFactory makes for the modules.                            *)
Adapters == {"gateway", "reportSource", "parser", "source", "snapshotProvider"}

(* The exchange of the one factory ExchangeFactoryRegistry makes.          *)
Exchange == "binance"

(* findExchange: the section of the exchange, or an exception.             *)
FindExchange(c) == IF Exchange \in c.exchanges THEN "found" ELSE "thrown"

(* BinanceExchangeFactory: all but the parser is given an endpoint of the  *)
(* exchange's section.                                                     *)
Creates(adapter, c) == adapter = "parser" \/ FindExchange(c) = "found"

(* The modules are made with the adapters.  The factory's methods are      *)
(* noexcept: when findExchange throws, the process ends.                   *)
ConstructModules ==
  /\ phase = "constructing"
  /\ phase' = IF \A adapter \in Adapters : Creates(adapter, config)
              THEN "running" ELSE "terminated"
  /\ UNCHANGED <<file, config, handlers, book, sent>>

(* The members sendHandler and fetchHandler.                               *)
CanSend == "send" \in handlers
CanFetch == "fetch" \in handlers

(* BinanceSnapshotProvider::getSnapshot: without its handler a snapshot as *)
(* constructed, of no instrument.                                          *)
Snapshots ==
  IF CanFetch
  THEN {[instrument |-> i, from |-> "exchange"] : i \in {config.instrument, Other}}
  ELSE {[instrument |-> NoInstrument, from |-> "nobody"]}

(* The builder's thread begins with the snapshot, and ends if it is of     *)
(* another instrument.                                                     *)
FetchSnapshot ==
  /\ phase = "running"
  /\ book = "none"
  /\ \E snapshot \in Snapshots :
       book' = IF snapshot.instrument = config.instrument THEN snapshot.from ELSE "given up"
  /\ UNCHANGED <<file, phase, config, handlers, sent>>

(* BinanceExecutionGateway::send: without its handler the order is dropped.*)
Send(orders) == sent' = IF CanSend THEN sent \cup orders ELSE sent

(* Mutant of Accepts: any price will do.                                   *)
MutantAnyPrice(request) ==
  /\ request.instrument # NoInstrument
  /\ request.quantity > 0
  /\ RiskReason(LimitsInForce, request, 0) = "None"

(* OrderManager::createOrder sends the order.                              *)
Accepts(request) ==
  /\ request.instrument # NoInstrument
  /\ request.quantity > 0
  /\ request.price > 0
  /\ RiskReason(LimitsInForce, request, 0) = "None"

(* A market event reaches the strategy, its request the order manager.     *)
OnMarketEvent(quote) ==
  /\ phase = "running"
  /\ book \in {"exchange", "nobody"}
  /\ LET signal == Evaluate(config.numerator, config.denominator, quote)
     IN  Send({r \in Execute(signal, config.instrument, config.orderQuantity, quote) :
                 Accepts(r)})
  /\ UNCHANGED <<file, phase, config, handlers, book>>

Next ==
  \/ LoadConfig
  \/ ConstructModules
  \/ FetchSnapshot
  \/ \E quote \in Market : OnMarketEvent(quote)

Spec == Init /\ [][Next]_vars
-----------------------------------------------------------------------------
(* Whatever was configured and whatever the market looks like -- a side    *)
(* empty, a quantity of zero or less, no instrument, a threshold every     *)
(* quote reaches, adapters without handlers -- an order that leaves buys   *)
(* or sells something, at a price somebody quotes, only where its side of  *)
(* the market is outweighed, and on a book that came from the exchange.    *)
OnlySoundOrdersLeave ==
  \A order \in sent :
    /\ book = "exchange"
    /\ order.quantity > 0 /\ order.price > 0
    /\ order.instrument = config.instrument /\ order.instrument # NoInstrument
    /\ \E quote \in Market :
         IF order.side = "Buy"
         THEN order.price = quote.bestAsk /\ quote.bestAskQuantity < quote.bestBidQuantity
         ELSE order.price = quote.bestBid /\ quote.bestBidQuantity < quote.bestAskQuantity

(* No order exceeds the limits of the configuration (risk_limits.hpp:      *)
(* "Application configuration" -> "RiskLimits" -> "RiskManager").          *)
ConfiguredLimitsHold ==
  \A order \in sent : RiskReason(config.riskLimits, order, 0) = "None"
=============================================================================
