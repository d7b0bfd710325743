---------------------------- MODULE MCStandalone ----------------------------
(***************************************************************************)
(* Small instances of the components that share no state with the pipeline *)
(* nor with each other: the ring, the counters, the loggers, the timer,    *)
(* the scope guards, the edge where market data comes in, the session from *)
(* configuration to gateway and the text functions.  Init chooses the one  *)
(* that runs, and only that one does.                                      *)
(***************************************************************************)
EXTENDS RingBuffer, TextUtilities, FiniteSets

CONSTANTS
  Threads, Cpus, LastType, MaxCount,     \* Metrics
  CountRange, MaxOpen, MaxCalls,         \* ScopeGuards
  Holders, AsyncQueueSize, MaxLines,     \* Logging
  WordRange, Second, Calibration, RateTicks, RateNanos,
  Origins, Callers, MaxTime,             \* HighResolutionTimer
  Results, MaxSize, MaxMessages,         \* MarketDataFeed
  Files, Market, Other, Scale            \* TradingSession

VARIABLES
  focus,      \* the component that runs
  bound, counters, stats, unread, locked, counted, before,
  open, unwinding, uncaught, left,
  registered, created, running, held, logged, queue, writing, written,
  time, origin, frequency, reads, calibrated,
  connected, receiving, item, updates, trades, metrics, feed,
  file, phase, config, handlers, book, sent,
  text, bytes

Counting == INSTANCE Metrics
Scopes == INSTANCE ScopeGuards
Logs == INSTANCE Logging
Timer == INSTANCE HighResolutionTimer
Feeding == INSTANCE MarketDataFeed
Session == INSTANCE TradingSession

ring == vars
counts == <<bound, counters, stats, unread, locked, counted, before>>
guards == <<open, unwinding, uncaught, left>>
logs == <<registered, created, running, held, logged, queue, writing, written>>
timer == <<time, origin, frequency, reads, calibrated>>
feeds == <<connected, receiving, item, updates, trades, metrics, feed>>
session == <<file, phase, config, handlers, book, sent>>
given == <<text, bytes>>
all == <<focus, ring, counts, guards, logs, timer, feeds, session, given>>

SeqsUpTo(set, n) == UNION {[1..k -> set] : k \in 0..n}

(* Every text of at most four characters of a kind, and three bytes with   *)
(* the bits of each in all the positions that the encodings cut.           *)
MCTexts ==
  SeqsUpTo({"a", " ", "tab", "vtab", ","}, 4) \cup SeqsUpTo({"a", "double", "single", ","}, 4)
MCBytes == SeqsUpTo({0, 1, 10, 129, 255}, 4)

(* Files: one of every way to fail, and every setting that matters to an   *)
(* order at its limit.                                                     *)
Json(settings) ==
  [opens |-> TRUE, parses |-> TRUE, good |-> TRUE, typed |-> TRUE, settings |-> settings]
Complete == [instrument |-> 42, exchanges |-> {"binance", "other"}]

MCFiles ==
  {[Json(Complete) EXCEPT !.opens = FALSE], [Json(Complete) EXCEPT !.parses = FALSE],
   [Json(Complete) EXCEPT !.good = FALSE], [Json(Complete) EXCEPT !.typed = FALSE],
   Json([instrument |-> 42])}
  \cup {Json([instrument |-> i, exchanges |-> {"binance"}, depthValue |-> d,
              orderQuantity |-> q, numerator |-> n, denominator |-> m,
              riskLimits |-> [maxOrderQuantity |-> 1, maxPositionQuantity |-> 0,
                              maxNotional |-> 0]]) :
          i \in {0, 42}, d \in {0, 1}, q \in {-1, 0, 1, 2}, n \in {0, 1, 2, -1}, m \in {0, 1, 2}}

Side == {<<0, 0>>, <<1, 1>>, <<1, 3>>, <<2, 1>>}
MCMarket ==
  {[bestBid |-> bid[1], bestBidQuantity |-> bid[2], bestAsk |-> ask[1],
    bestAskQuantity |-> ask[2]] : bid \in Side, ask \in Side}

StandaloneInit ==
  /\ focus \in {"ring", "metrics", "guards", "logs", "timer", "feeds", "session", "text", "bytes"}
  /\ Init /\ Counting!Init /\ Scopes!Init /\ Logs!Init /\ Feeding!Init
  /\ IF focus = "timer" THEN Timer!Init
     ELSE time = 0 /\ origin = 0 /\ frequency = 0 /\ reads = <<>> /\ calibrated = <<>>
  /\ IF focus = "session" THEN Session!Init
     ELSE file = {} /\ phase = "none" /\ config = {} /\ handlers = {} /\ book = "none" /\ sent = {}
  /\ IF focus = "text" THEN text \in MCTexts ELSE text = <<>>
  /\ IF focus = "bytes" THEN bytes \in MCBytes ELSE bytes = <<>>

StandaloneNext ==
  /\ \/ focus = "ring" /\ Next /\ UNCHANGED <<counts, guards, logs, timer, feeds, session>>
     \/ focus = "metrics" /\ Counting!Next /\ UNCHANGED <<ring, guards, logs, timer, feeds, session>>
     \/ focus = "guards" /\ Scopes!Next /\ UNCHANGED <<ring, counts, logs, timer, feeds, session>>
     \/ focus = "logs" /\ Logs!Next /\ UNCHANGED <<ring, counts, guards, timer, feeds, session>>
     \/ focus = "timer" /\ Timer!Next /\ UNCHANGED <<ring, counts, guards, logs, feeds, session>>
     \/ focus = "feeds" /\ Feeding!Next /\ UNCHANGED <<ring, counts, guards, logs, timer, session>>
     \/ focus = "session" /\ Session!Next /\ UNCHANGED <<ring, counts, guards, logs, timer, feeds>>
  /\ UNCHANGED <<focus, given>>

StandaloneSpec == StandaloneInit /\ [][StandaloneNext]_all

(* Of the ring's FairSpec; the others need no fairness.                    *)
StandaloneFairSpec ==
  /\ StandaloneSpec
  /\ WF_all(focus = "ring" /\ Consume /\ StandaloneNext)
  /\ WF_all(focus = "ring" /\ producer # "outside" /\ Produce /\ StandaloneNext)
-----------------------------------------------------------------------------
(* The properties of the other components, by the names of their modules.  *)
CountsAddUp == Counting!CountsAddUp
GuardsJudgeTheirScope == Scopes!GuardsJudgeTheirScope
LogIsKept == Logs!LogIsKept
MessagesArriveOnce == Feeding!MessagesArriveOnce
TimerIsAccurate == focus = "timer" => Timer!TimerIsAccurate
OnlySoundOrdersLeave == focus = "session" => Session!OnlySoundOrdersLeave
ConfiguredLimitsHold == focus = "session" => Session!ConfiguredLimitsHold
TextIsKept == KeepsText(text)
BytesAreKept == KeepsBytes(bytes)
=============================================================================
