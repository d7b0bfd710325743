-------------------------- MODULE TradingPipeline --------------------------
(***************************************************************************)
(* The application: the modules that Application owns, their threads       *)
(* (common/worker.hpp) and the queues between them, from the market data   *)
(* source to the gateway and the recorder, with Application::start and     *)
(* stop (app/application.cpp) going through the modules one by one.        *)
(*                                                                         *)
(* A queue is the sequence ClosableQueue describes.  What flows is a       *)
(* numbered item: the n-th book update received, the MarketEvent built     *)
(* from it, the request made because of it and the report on its order all *)
(* carry n.  What an item makes a thread do is a list of deliveries, made  *)
(* one after the other: other threads act in between.  What is decided     *)
(* from the contents of an item (is the update applied, is there a signal, *)
(* does the order pass) is a free choice here; BookBuilder and             *)
(* OrderManager look inside.                                               *)
(***************************************************************************)
EXTENDS Integers, Sequences, SequencesExt

CONSTANTS
  Closable,     \* the queues somebody may close; Application closes none
  MaxUpdates,   \* bound on the book updates received
  MaxTrades,    \* bound on the trades received
  MaxReports,   \* bound on the reports received
  MaxStarts     \* bound on the calls of Application::start

Queues == {"bookUpdateQueue", "tradeQueue", "strategyEventQueue",
           "recordingEventQueue", "executionQueue"}

(* Where the pipeline ends: IExecutionGateway, OrderManager::              *)
(* applyExecution, IRecorder and TradeProcessor.                           *)
Sinks == {"gateway", "orderManager", "recorder", "tradeProcessor"}
Places == Queues \cup Sinks

(* The queue each looping module waits on.                                 *)
Input == [bookBuilder |-> "bookUpdateQueue", trade |-> "tradeQueue",
          strategy |-> "strategyEventQueue", execution |-> "executionQueue",
          recording |-> "recordingEventQueue"]

Looping == DOMAIN Input
Workers == Looping \cup {"executionReport"}
Modules == Workers \cup {"marketData"}

StartOrder == <<"strategy", "bookBuilder", "execution", "executionReport", "trade",
                "recording", "marketData">>
StopOrder == <<"marketData", "recording", "bookBuilder", "trade", "executionReport",
               "execution", "strategy">>

ASSUME ClosableAssumption == Closable \subseteq Queues
ASSUME BoundsAssumption == {MaxUpdates, MaxTrades, MaxReports, MaxStarts} \subseteq Nat

VARIABLES
  running,    \* Application::running
  phase,      \* the call of Application under way: "idle", "starting", "stopping"
  left,       \* the modules this call still has to start or stop
  starts,     \* calls of Application::start
  flag,       \* Worker::running; for marketData, whether the source is started
  thread,     \* per worker: "none", "starting", "looping", "ended"
  todo,       \* per module: the deliveries its thread has still to make
  contents,   \* what each queue holds and each sink got, in order
  closed,     \* the queues closed
  received    \* per kind, how many items the sources have handed in

application == <<running, phase, left, starts, flag>>
vars == <<running, phase, left, starts, flag, thread, todo, contents, closed, received>>

(* The kinds of items: "update", "event", "request", "report" and "trade". *)
Item(kind, number) == [kind |-> kind, number |-> number]
To(place, item) == [to |-> place, item |-> item]

Init ==
  /\ running = FALSE
  /\ phase = "idle"
  /\ left = <<>>
  /\ starts = 0
  /\ flag = [m \in Modules |-> FALSE]
  /\ thread = [w \in Workers |-> "none"]
  /\ todo = [m \in Modules |-> <<>>]
  /\ contents = [p \in Places |-> <<>>]
  /\ closed = {}
  /\ received = [k \in {"update", "trade", "report"} |-> 0]
-----------------------------------------------------------------------------
(* Application::start, and the modules it starts one after the other.      *)
Start ==
  /\ phase = "idle"
  /\ ~running
  /\ starts < MaxStarts
  /\ starts' = starts + 1
  /\ running' = TRUE
  /\ phase' = "starting"
  /\ left' = StartOrder
  /\ UNCHANGED <<flag, thread, todo, contents, closed, received>>

(* The call under way goes on to its next module, or returns.              *)
Advance ==
  /\ left' = Tail(left)
  /\ phase' = IF Len(left) = 1 THEN "idle" ELSE phase
  /\ running' = (Len(left) > 1 \/ phase = "starting")
  /\ UNCHANGED <<starts, todo, contents, closed, received>>

(* Worker::start makes a thread unless there is one; MarketDataModule      *)
(* starts its source.                                                      *)
StartModule ==
  /\ phase = "starting"
  /\ flag' = [flag EXCEPT ![Head(left)] = TRUE]
  /\ thread' = IF Head(left) \in Workers /\ ~flag[Head(left)]
               THEN [thread EXCEPT ![Head(left)] =
                       IF Head(left) = "bookBuilder" THEN "starting" ELSE "looping"]
               ELSE thread
  /\ Advance

(* Application::stop.                                                      *)
Stop ==
  /\ phase = "idle"
  /\ running
  /\ phase' = "stopping"
  /\ left' = StopOrder
  /\ UNCHANGED <<running, starts, flag, thread, todo, contents, closed, received>>

(* Worker::stop returns when its thread has ended, or never ran.           *)
Joined(m) == m \in Workers /\ flag[m] => thread[m] = "ended"

StopModule ==
  /\ phase = "stopping"
  /\ Joined(Head(left))
  /\ flag' = [flag EXCEPT ![Head(left)] = FALSE]
  /\ thread' = IF Head(left) \in Workers
               THEN [thread EXCEPT ![Head(left)] = "none"] ELSE thread
  /\ Advance

(* The owner of the queues closes one in the course of stopping, at any    *)
(* point of it, as the tests of the modules do.                            *)
Close(q) ==
  /\ phase = "stopping"
  /\ q \in Closable \ closed
  /\ closed' = closed \cup {q}
  /\ UNCHANGED <<application, thread, todo, contents, received>>
-----------------------------------------------------------------------------
(* A thread makes the next of its deliveries; a closed queue drops it.     *)
Deliver(m) ==
  /\ todo[m] # <<>>
  /\ todo' = [todo EXCEPT ![m] = Tail(@)]
  /\ contents' = IF Head(todo[m]).to \in closed
                 THEN contents
                 ELSE [contents EXCEPT ![Head(todo[m]).to] = Append(@, Head(todo[m]).item)]
  /\ UNCHANGED <<application, thread, closed, received>>

(* Mutant of Take: the item that came last is handed out.                  *)
MutantNewestFirst(m, item, deliveries) ==
  /\ thread[m] = "looping"
  /\ todo[m] = <<>>
  /\ contents[Input[m]] # <<>>
  /\ item = Last(contents[Input[m]])
  /\ contents' = [contents EXCEPT ![Input[m]] = Front(@)]
  /\ todo' = [todo EXCEPT ![m] = deliveries]
  /\ UNCHANGED <<application, thread, closed, received>>

(* waitPop hands the thread of m an item, which makes it do `deliveries'.  *)
Take(m, item, deliveries) ==
  /\ thread[m] = "looping"
  /\ todo[m] = <<>>
  /\ contents[Input[m]] # <<>>
  /\ item = Head(contents[Input[m]])
  /\ contents' = [contents EXCEPT ![Input[m]] = Tail(@)]
  /\ todo' = [todo EXCEPT ![m] = deliveries]
  /\ UNCHANGED <<application, thread, closed, received>>

(* Mutants of EndLoop: the recorder's loop does not heed that its queue is *)
(* closed, and a loop ends without looking for what is left.               *)
MutantHeedless(m) ==
  /\ m # "recording"
  /\ thread[m] = "looping"
  /\ todo[m] = <<>>
  /\ contents[Input[m]] = <<>>
  /\ Input[m] \in closed
  /\ thread' = [thread EXCEPT ![m] = "ended"]
  /\ UNCHANGED <<application, todo, contents, closed, received>>

MutantHasty(m) ==
  /\ thread[m] = "looping"
  /\ todo[m] = <<>>
  /\ Input[m] \in closed
  /\ thread' = [thread EXCEPT ![m] = "ended"]
  /\ UNCHANGED <<application, todo, contents, closed, received>>

(* The loop of a module ends when its queue is closed and empty.           *)
EndLoop(m) ==
  /\ thread[m] = "looping"
  /\ todo[m] = <<>>
  /\ contents[Input[m]] = <<>>
  /\ Input[m] \in closed
  /\ thread' = [thread EXCEPT ![m] = "ended"]
  /\ UNCHANGED <<application, todo, contents, closed, received>>

(* BookBuilderModule::run gets its snapshot and goes on to its loop, or    *)
(* refuses it and returns.                                                 *)
ApplySnapshot ==
  /\ thread["bookBuilder"] = "starting"
  /\ thread' \in {[thread EXCEPT !["bookBuilder"] = "looping"],
                  [thread EXCEPT !["bookBuilder"] = "ended"]}
  /\ UNCHANGED <<application, todo, contents, closed, received>>

(* Mutant of Announcement: the event is not recorded.                      *)
MutantUnrecorded(event) == <<To("strategyEventQueue", event)>>

(* MarketEventDispatcher::onMarketEvent.                                   *)
Announcement(event) ==
  <<To("strategyEventQueue", event), To("recordingEventQueue", event)>>

(* BookBuilder::onBookUpdate applies the update or ignores it.             *)
BuildEvent(item) ==
  \/ Take("bookBuilder", item, Announcement(Item("event", item.number)))
  \/ Take("bookBuilder", item, <<>>)

(* StrategyExecutor::execute of a signal to buy or to sell.                *)
Request(event) == <<To("executionQueue", Item("request", event.number))>>

(* StrategyModule::run: a signal becomes a request, no signal nothing.     *)
Evaluate(item) == Take("strategy", item, Request(item)) \/ Take("strategy", item, <<>>)

(* ExecutionModule::process of a request: it is recorded, and sent unless  *)
(* the order is refused.                                                   *)
ProcessRequest(item) ==
  /\ item.kind = "request"
  /\ \/ Take("execution", item, <<To("recordingEventQueue", item), To("gateway", item)>>)
     \/ Take("execution", item, <<To("recordingEventQueue", item)>>)

(* Mutant of ProcessReport: it is applied first.                           *)
MutantAppliedFirst(item) ==
  /\ item.kind = "report"
  /\ Take("execution", item, <<To("orderManager", item), To("recordingEventQueue", item)>>)

(* ExecutionModule::process of a report: it is recorded, then applied.     *)
ProcessReport(item) ==
  /\ item.kind = "report"
  /\ Take("execution", item, <<To("recordingEventQueue", item), To("orderManager", item)>>)

(* TradeRecorder::record appends to what was recorded.                     *)
Recorded(item) == <<To("recorder", item)>>

(* RecordingModule::process: requests are not recorded.                    *)
Record(item) ==
  Take("recording", item, IF item.kind = "request" THEN <<>> ELSE Recorded(item))

ProcessTrade(item) == Take("trade", item, <<To("tradeProcessor", item)>>)

(* The source of market data hands a message to MarketDataMessageHandler:: *)
(* onMessage, which pushes the update, or every trade, it contains.        *)
ReceiveUpdate ==
  /\ flag["marketData"]
  /\ todo["marketData"] = <<>>
  /\ received["update"] < MaxUpdates
  /\ received' = [received EXCEPT !["update"] = @ + 1]
  /\ todo' = [todo EXCEPT !["marketData"] =
                <<To("bookUpdateQueue", Item("update", received'["update"]))>>]
  /\ UNCHANGED <<application, thread, contents, closed>>

ReceiveTrades(count) ==
  /\ flag["marketData"]
  /\ todo["marketData"] = <<>>
  /\ received["trade"] + count <= MaxTrades
  /\ received' = [received EXCEPT !["trade"] = @ + count]
  /\ todo' = [todo EXCEPT !["marketData"] =
                [k \in 1..count |-> To("tradeQueue", Item("trade", received["trade"] + k))]]
  /\ UNCHANGED <<application, thread, contents, closed>>

(* ExecutionReportDataHandler::publish.                                    *)
Published(number) == <<To("executionQueue", Item("report", number))>>

(* The report source, inside ExecutionReportModule::run, hands in a report *)
(* on an order that was sent, until it returns.                            *)
ReceiveReport ==
  /\ thread["executionReport"] = "looping"
  /\ todo["executionReport"] = <<>>
  /\ received["report"] < MaxReports
  /\ received' = [received EXCEPT !["report"] = @ + 1]
  /\ \E k \in DOMAIN contents["gateway"] :
       todo' = [todo EXCEPT !["executionReport"] = Published(contents["gateway"][k].number)]
  /\ UNCHANGED <<application, thread, contents, closed>>

ReportSourceReturns ==
  /\ thread["executionReport"] = "looping"
  /\ todo["executionReport"] = <<>>
  /\ thread' = [thread EXCEPT !["executionReport"] = "ended"]
  /\ UNCHANGED <<application, todo, contents, closed, received>>
-----------------------------------------------------------------------------
Process(m) ==
  \E item \in Range(contents[Input[m]]) :
    \/ m = "bookBuilder" /\ BuildEvent(item)
    \/ m = "strategy" /\ Evaluate(item)
    \/ m = "execution" /\ (ProcessRequest(item) \/ ProcessReport(item))
    \/ m = "recording" /\ Record(item)
    \/ m = "trade" /\ ProcessTrade(item)

Main == Start \/ StartModule \/ Stop \/ StopModule

Sources ==
  \/ ReceiveUpdate
  \/ \E count \in 1..MaxTrades : ReceiveTrades(count)
  \/ ReceiveReport
  \/ ReportSourceReturns

Next ==
  \/ Main
  \/ \E q \in Closable : Close(q)
  \/ \E m \in Modules : Deliver(m)
  \/ \E m \in Looping : Process(m) \/ EndLoop(m)
  \/ ApplySnapshot
  \/ Sources

Spec == Init /\ [][Next]_vars

(* Every thread runs, the main thread included; nothing has to arrive, to  *)
(* be closed or to be called.                                              *)
Fairness ==
  /\ WF_vars(StartModule)
  /\ WF_vars(StopModule)
  /\ WF_vars(ApplySnapshot)
  /\ \A m \in Modules : WF_vars(Deliver(m))
  /\ \A m \in Looping : WF_vars(Process(m) \/ EndLoop(m))

FairSpec == Spec /\ Fairness
-----------------------------------------------------------------------------
(* The items of a kind, in order.                                          *)
OfKind(items, kind) ==
  LET kept[n \in 0..Len(items)] ==
        IF n = 0 THEN <<>>
        ELSE IF items[n].kind = kind THEN Append(kept[n - 1], items[n]) ELSE kept[n - 1]
  IN  kept[Len(items)]

(* The recorder gets market events in the order of the updates they were   *)
(* built from, whatever was recorded in between by another thread: a       *)
(* replay of the recording sees the market as it went.                     *)
RecordedInOrder ==
  LET recorded == contents["recorder"]
  IN  \A j, k \in DOMAIN recorded :
        j < k /\ recorded[j].kind = "event" /\ recorded[k].kind = "event"
          => recorded[j].number < recorded[k].number

(* The items recorded, being recorded and waiting to be, oldest first.     *)
HandedToRecording ==
  LET handed == [k \in DOMAIN todo["recording"] |-> todo["recording"][k].item]
  IN  contents["recorder"] \o handed \o contents["recordingEventQueue"]

(* A report changes orders and positions only after it was handed to the   *)
(* recording: as long as that queue is open, the reports applied are the   *)
(* first of those recorded, being recorded or waiting to be.               *)
RecordedBeforeApplied ==
  "recordingEventQueue" \notin closed =>
    IsPrefix(contents["orderManager"], OfKind(HandedToRecording, "report"))

(* Once stop has returned no thread of a module is left, none was cut off  *)
(* in the middle of an item, and nothing is left in a queue that was       *)
(* served.  (A book builder that refused its snapshot serves nothing.)     *)
StoppedMeansQuiet ==
  ~running =>
    /\ \A w \in Workers : thread[w] = "none" /\ todo[w] = <<>>
    /\ \A m \in Looping \ {"bookBuilder"} : contents[Input[m]] = <<>>

Flow == INSTANCE OrderFlow WITH
  received <- received["update"],
  sent <- [k \in DOMAIN contents["gateway"] |-> contents["gateway"][k].number]

(* What reaches the gateway keeps the promise of OrderFlow: no order       *)
(* without an update it follows from, no second one from the same update,  *)
(* and no order overtaken by one that a later update caused -- through     *)
(* five threads and four queues, while they are started, stopped and       *)
(* closed in any order.                                                    *)
ImplementsOrderFlow == Flow!Spec

(* A market event handed to the strategy is recorded, unless the recording *)
(* was closed: no order of starting the modules, no stop under way and no  *)
(* other closed queue makes it lost.                                       *)
EventsAreRecorded ==
  \A n \in 1..MaxUpdates :
    LET event == Item("event", n)
    IN  event \in Range(contents["strategyEventQueue"])
          ~> \/ event \in Range(contents["recorder"])
             \/ "recordingEventQueue" \in closed

(* Stop returns once all queues are closed and the report source returned. *)
StopReturnsOnceClosed ==
  (phase = "stopping" /\ closed = Queues /\ thread["executionReport"] # "looping")
    ~> phase # "stopping"

(* Stop returns ("control application lifecycle", application.hpp).        *)
StopReturns == (phase = "stopping") ~> (phase = "idle")
=============================================================================
