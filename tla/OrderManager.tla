---------------------------- MODULE OrderManager ----------------------------
(***************************************************************************)
(* The execution core: OrderManager with the RiskManager, the              *)
(* PositionManager and the gateway it owns (src/trading_core/src/execution *)
(* /order_manager.cpp), as ExecutionModule drives it from its queue of     *)
(* order requests and execution reports.                                   *)
(*                                                                         *)
(* The venue behind IExecutionGateway and the report source are external:  *)
(* the repository only has stubs of them.  The venue follows the contract  *)
(* that the report model and the tests of order_manager_test.cpp use: one  *)
(* report per event, carrying the quantity filled so far.  `reports' holds *)
(* what was reported and not yet applied, in the order it was reported:    *)
(* the connection and the execution queue together.  Faults says what can  *)
(* happen to a report on the way.                                          *)
(***************************************************************************)
EXTENDS RiskManager, Sequences, SequencesExt

CONSTANTS
  Instruments,    \* instruments traded
  NoInstrument,   \* the default InstrumentId{0}, never valid
  Requests,       \* what a strategy may ask for, invalid requests included
  Limits,         \* the limits in force in RiskManager
  Faults,         \* subset of FaultKinds
  MaxOrders,      \* bound on the orders created
  MaxFaults       \* bound on the faults of one behaviour

FaultKinds == {"lose", "duplicate", "reorder", "foreign"}

OrderRequests == [instrument : Instruments \cup {NoInstrument}, side : Sides,
                  price : Int, quantity : Int]

ASSUME InstrumentsAssumption == NoInstrument \notin Instruments
ASSUME RequestsAssumption == Requests \subseteq OrderRequests
ASSUME LimitsAssumption == Limits \in RiskLimits
ASSUME FaultsAssumption == Faults \subseteq FaultKinds
ASSUME BoundsAssumption == MaxOrders \in Nat /\ MaxFaults \in Nat

VARIABLES
  orders,        \* OrderManager::orders
  nextOrderId,   \* OrderManager::nextOrderId
  positions,     \* PositionManager::positions
  reason,        \* RiskManager::reason
  venue,         \* what the venue knows of the orders sent to it
  reports,       \* execution reports not yet applied, oldest first
  faults,        \* faults so far
  beside         \* history: per instrument and side, the largest quantity
                 \* open when another order of that side was admitted

execution == <<orders, nextOrderId, positions, reason, beside>>
vars == <<orders, nextOrderId, positions, reason, venue, reports, faults, beside>>

OrderIds == Nat \ {0}
Foreign == 0   \* a client order id OrderManager never assigns

Statuses == {"New", "PartiallyFilled", "Filled", "Cancelled", "Rejected"}
Terminal == {"Filled", "Cancelled", "Rejected"}
ExecTypes == {"New", "Trade", "Cancel", "Reject"}

Orders == [instrument : Instruments, side : Sides, price : Nat, quantity : Nat,
           filled : Nat, status : Statuses]
VenueOrders == [state : {"sent", "live", "done"}, filled : Nat, cancelAsked : BOOLEAN]
Reports == [id : Nat, instrument : Instruments, side : Sides, execType : ExecTypes,
            status : Statuses, price : Nat, filled : Nat]

Init ==
  /\ orders = <<>>
  /\ nextOrderId = 1
  /\ positions = [i \in Instruments |-> Flat]
  /\ reason = "None"
  /\ venue = <<>>
  /\ reports = <<>>
  /\ faults = 0
  /\ beside = [i \in Instruments |-> [s \in Sides |-> 0]]
-----------------------------------------------------------------------------
(* f with value v at the new point k; a map entry already there stays.     *)
Emplace(f, k, v) ==
  [x \in DOMAIN f \cup {k} |-> IF x \in DOMAIN f THEN f[x] ELSE v]

Valid(request) ==
  /\ request.instrument # NoInstrument
  /\ request.quantity > 0
  /\ request.price > 0

NewOrder(request) ==
  [instrument |-> request.instrument, side |-> request.side,
   price |-> request.price, quantity |-> request.quantity,
   filled |-> 0, status |-> "New"]

(* Quantity of the orders of that side not yet known to be executed or     *)
(* dead.                                                                   *)
OpenOrders(i, side) ==
  {id \in DOMAIN orders : /\ orders[id].instrument = i
                          /\ orders[id].side = side
                          /\ orders[id].status \notin Terminal}

Remaining == [id \in DOMAIN orders |-> orders[id].quantity - orders[id].filled]

OpenQuantity(i, side) == SumFunctionOnSet(Remaining, OpenOrders(i, side))

CheckedReason(request) ==
  RiskReason(Limits, request, positions[request.instrument].quantity)

(* Mutant of CreateOrder: the id is not advanced and the order of the last *)
(* request overwrites the one before it.                                   *)
MutantReusedId(request) ==
  /\ Valid(request)
  /\ CheckedReason(request) = "None"
  /\ orders' = [x \in DOMAIN orders \cup {nextOrderId} |-> NewOrder(request)]
  /\ venue' = Emplace(venue, nextOrderId,
                      [state |-> "sent", filled |-> 0, cancelAsked |-> FALSE])
  /\ UNCHANGED <<nextOrderId, positions, reason, reports, faults, beside>>

(* OrderManager::createOrder for a request the risk check accepts: the     *)
(* order is stored and then sent.  A request that is not Valid changes     *)
(* nothing at all.                                                         *)
CreateOrder(request) ==
  /\ Valid(request)
  /\ nextOrderId <= MaxOrders
  /\ CheckedReason(request) = "None"
  /\ reason' = "None"
  /\ nextOrderId' = nextOrderId + 1
  /\ orders' = Emplace(orders, nextOrderId, NewOrder(request))
  /\ venue' = Emplace(venue, nextOrderId,
                      [state |-> "sent", filled |-> 0, cancelAsked |-> FALSE])
  /\ beside' = [beside EXCEPT ![request.instrument][request.side] =
                  Max({@, OpenQuantity(request.instrument, request.side)})]
  /\ UNCHANGED <<positions, reports, faults>>

(* OrderManager::createOrder for a request the risk check refuses.         *)
RefuseOrder(request) ==
  /\ Valid(request)
  /\ CheckedReason(request) # "None"
  /\ reason' = CheckedReason(request)
  /\ UNCHANGED <<orders, nextOrderId, positions, venue, reports, faults, beside>>

(* OrderManager::cancel asks the gateway; the order stays as it is.        *)
Cancel(id) ==
  /\ id \in DOMAIN orders
  /\ venue' = [venue EXCEPT ![id].cancelAsked = TRUE]
  /\ UNCHANGED <<execution, reports, faults>>

(* Mutants of ApplyExecution, by the fill they record in the order, the    *)
(* quantity they hand to the position and the reports they heed: the       *)
(* cumulative quantity moves the position (MutantCumulative), the fill of  *)
(* one report replaces the total (MutantIncremental) or the total is added *)
(* to itself (MutantAdded), the previous total is read after it was        *)
(* overwritten (MutantReadLate), and only trades are heeded                *)
(* (MutantTradesOnly).                                                     *)
Applied(report, filled, executed) ==
  IF report.id \notin DOMAIN orders
  THEN UNCHANGED execution
  ELSE /\ orders' = [orders EXCEPT ![report.id].status = report.status,
                                   ![report.id].filled = filled]
       /\ positions' =
            IF report.execType = "Trade" /\ executed > 0
            THEN [positions EXCEPT ![report.instrument] =
                    ApplyTrade(@, report.side, report.price, executed)]
            ELSE positions
       /\ UNCHANGED <<nextOrderId, reason, beside>>

MutantCumulative(report) == Applied(report, report.filled, report.filled)

MutantIncremental(report) ==
  Applied(report, report.filled - orders[report.id].filled,
          report.filled - orders[report.id].filled)

MutantAdded(report) ==
  Applied(report, report.filled + orders[report.id].filled, report.filled)

MutantReadLate(report) == Applied(report, report.filled, 0)

MutantTradesOnly(report) ==
  IF report.execType = "Trade"
  THEN Applied(report, report.filled, report.filled - orders[report.id].filled)
  ELSE UNCHANGED execution

(* OrderManager::applyExecution.  The order takes over what the report     *)
(* says, whatever it says; a trade moves the position by what the report   *)
(* adds to the filled quantity known so far, and PositionManager refuses a *)
(* quantity that is not positive.                                          *)
ApplyExecution(report) ==
  IF report.id \notin DOMAIN orders
  THEN UNCHANGED execution
  ELSE LET executed == report.filled - orders[report.id].filled
       IN  /\ orders' = [orders EXCEPT ![report.id].status = report.status,
                                       ![report.id].filled = report.filled]
           /\ positions' =
                IF report.execType = "Trade" /\ executed > 0
                THEN [positions EXCEPT ![report.instrument] =
                        ApplyTrade(@, report.side, report.price, executed)]
                ELSE positions
           /\ UNCHANGED <<nextOrderId, reason, beside>>
-----------------------------------------------------------------------------
(* The venue.                                                              *)
Report(id, execType, status, price, filled) ==
  [id |-> id, instrument |-> orders[id].instrument, side |-> orders[id].side,
   execType |-> execType, status |-> status, price |-> price, filled |-> filled]

VenueReports(id, state, filled, execType, status, price) ==
  /\ venue' = [venue EXCEPT ![id].state = state, ![id].filled = filled]
  /\ reports' = Append(reports, Report(id, execType, status, price, filled))
  /\ UNCHANGED <<execution, faults>>

VenueAccept(id) ==
  /\ venue[id].state = "sent"
  /\ VenueReports(id, "live", 0, "New", "New", orders[id].price)

VenueReject(id) ==
  /\ venue[id].state = "sent"
  /\ VenueReports(id, "done", 0, "Reject", "Rejected", orders[id].price)

(* An execution of part or all of what is left, at the limit price.        *)
VenueFill(id, quantity) ==
  LET filled == venue[id].filled + quantity
      full   == filled = orders[id].quantity
  IN  /\ venue[id].state = "live"
      /\ filled <= orders[id].quantity
      /\ VenueReports(id, IF full THEN "done" ELSE "live", filled, "Trade",
                      IF full THEN "Filled" ELSE "PartiallyFilled", orders[id].price)

VenueCancel(id) ==
  /\ venue[id].state = "live"
  /\ venue[id].cancelAsked
  /\ VenueReports(id, "done", venue[id].filled, "Cancel", "Cancelled", orders[id].price)

(* Mutant of Deliver: the newest report is applied first.                  *)
MutantNewestFirst(k) ==
  /\ k = Len(reports)
  /\ ApplyExecution(reports[k])
  /\ reports' = RemoveAt(reports, k)
  /\ UNCHANGED <<venue, faults>>

(* ExecutionModule::process takes a report and applies it.                 *)
Deliver(k) ==
  /\ k = 1 \/ "reorder" \in Faults
  /\ ApplyExecution(reports[k])
  /\ reports' = RemoveAt(reports, k)
  /\ UNCHANGED <<venue, faults>>

Fault(kind) ==
  /\ kind \in Faults
  /\ faults < MaxFaults
  /\ faults' = faults + 1
  /\ UNCHANGED <<execution, venue>>

(* A report is lost, repeated by the venue, or is about an order another   *)
(* session of the account placed.                                          *)
LoseReport(k) == Fault("lose") /\ reports' = RemoveAt(reports, k)

RepeatReport(k) == Fault("duplicate") /\ reports' = Append(reports, reports[k])

ForeignReport(instrument, side) ==
  /\ Fault("foreign")
  /\ reports' = Append(reports,
       [id |-> Foreign, instrument |-> instrument, side |-> side, execType |-> "Trade",
        status |-> "PartiallyFilled", price |-> 1, filled |-> 1])

Venue ==
  \/ \E id \in DOMAIN venue :
       \/ VenueAccept(id)
       \/ VenueReject(id)
       \/ VenueCancel(id)
       \/ \E q \in 1..orders[id].quantity : VenueFill(id, q)
  \/ \E k \in DOMAIN reports : LoseReport(k) \/ RepeatReport(k)
  \/ \E i \in Instruments, s \in Sides : ForeignReport(i, s)

Next ==
  \/ \E r \in Requests : CreateOrder(r) \/ RefuseOrder(r)
  \/ \E id \in DOMAIN orders : Cancel(id)
  \/ \E k \in DOMAIN reports : Deliver(k)
  \/ Venue

Spec == Init /\ [][Next]_vars

(* The execution thread keeps taking work from its queue (ExecutionModule:: *)
(* run), and the venue answers every order and every cancellation it got.  *)
Fairness ==
  /\ WF_vars(reports # <<>> /\ Deliver(1))
  /\ \A id \in 1..MaxOrders :
       /\ WF_vars(id \in DOMAIN venue /\ (VenueAccept(id) \/ VenueReject(id)))
       /\ WF_vars(id \in DOMAIN venue /\ VenueCancel(id))

FairSpec == Spec /\ Fairness
-----------------------------------------------------------------------------
(* The type invariant; `beside', which only ExposureBounded reads, is left *)
(* to that property.                                                       *)
TypeOK ==
  /\ nextOrderId \in OrderIds
  /\ orders \in [1..(nextOrderId - 1) -> Orders]
  /\ venue \in [1..(nextOrderId - 1) -> VenueOrders]
  /\ positions \in [Instruments -> PositionType]
  /\ reason \in RiskReasons
  /\ reports \in Seq(Reports)
  /\ faults \in Nat

(* The signed sum of what the orders of an instrument have filled, as far  *)
(* as is known to the core (known = orders) or to the venue (known =       *)
(* venue).                                                                 *)
Fills(known) == [id \in DOMAIN orders |-> Signed(orders[id].side, known[id].filled)]

SignedFills(i, known) ==
  SumFunctionOnSet(Fills(known), {id \in DOMAIN orders : orders[id].instrument = i})

(* The position of an instrument is the signed sum of what its tracked     *)
(* orders have filled: order state and position state, updated by two      *)
(* components from one cumulative report, never drift apart ("position     *)
(* quantity must contain sum of individual fills", order_manager_test.cpp).*)
PositionMatchesFills ==
  \A i \in Instruments :
    positions[i].quantity = SignedFills(i, orders)

(* When no report is under way, the core and the venue agree on every      *)
(* position: nothing the venue executed was missed or counted twice.       *)
PositionMatchesVenueWhenQuiet ==
  reports = <<>> =>
    \A i \in Instruments :
      positions[i].quantity = SignedFills(i, venue)

(* What the core believes is filled never runs ahead of the venue, and the *)
(* venue never fills more than the order that was sent asks for.           *)
FilledNeverAhead ==
  \A id \in DOMAIN orders :
    /\ orders[id].filled <= venue[id].filled
    /\ venue[id].filled <= orders[id].quantity

(* Every report of an order of ours finds that order when it is applied,   *)
(* and speaks of its instrument and side, whatever is lost, repeated or    *)
(* overtaken on the way: orders are never given up, and no id twice.       *)
ReportsFindTheirOrder ==
  \A k \in DOMAIN reports :
    reports[k].id # Foreign =>
      /\ reports[k].id \in DOMAIN orders
      /\ reports[k].instrument = orders[reports[k].id].instrument
      /\ reports[k].side = orders[reports[k].id].side

(* The reports under way about one order tell its story forward: each one  *)
(* has at least the fills of the ones before it and of the order itself,   *)
(* nothing follows the report that ends the order, and nothing is under    *)
(* way any more for an order that is known to have ended.                  *)
ReportsInOrder ==
  \A k \in DOMAIN reports :
    LET id == reports[k].id
    IN  id # Foreign =>
          /\ orders[id].filled <= reports[k].filled
          /\ orders[id].status \notin Terminal
          /\ reports[k].status \in Terminal => venue[id].state = "done"
          /\ \A j \in 1..(k - 1) :
               reports[j].id = id =>
                 /\ reports[j].filled <= reports[k].filled
                 /\ reports[j].status \notin Terminal

(* The risk check looks at the position alone and reserves nothing for     *)
(* orders under way, so the position limit can be exceeded, but only by    *)
(* the quantity that was open on the same side when an order was admitted; *)
(* the bound holds already for the position all open orders could lead to. *)
ExposureBounded ==
  Limits.maxPositionQuantity # 0 =>
    \A i \in Instruments, side \in Sides :
      Signed(side, positions[i].quantity) + OpenQuantity(i, side)
        <= Limits.maxPositionQuantity + beside[i][side]

(* A position is flat exactly when it has no entry price.                  *)
AveragePriceIffOpen ==
  \A i \in Instruments :
    (positions[i].quantity = 0) = (positions[i].averagePrice = 0)

(* Known executions are never taken back, and an order that was reported   *)
(* filled, cancelled or rejected stays so.                                 *)
OrderNeverRegresses ==
  [][\A id \in DOMAIN orders :
       /\ orders'[id].filled >= orders[id].filled
       /\ orders[id].status \in Terminal => orders'[id].status = orders[id].status]_vars

(* A position moves only by a report of a trade, and then by no more than  *)
(* the order it belongs to still had open.                                 *)
PositionMovesByOpenQuantity ==
  [][\A i \in Instruments :
       positions'[i].quantity # positions[i].quantity =>
         \E id \in DOMAIN orders :
           /\ orders[id].instrument = i
           /\ orders[id].status \notin Terminal
           /\ Magnitude(positions'[i].quantity - positions[i].quantity)
                <= orders[id].quantity - orders[id].filled]_vars

(* An order whose cancellation was asked for ends, in the core's own view, *)
(* as cancelled or rejected -- or filled, when the execution won the race. *)
CancelledOrderEnds ==
  \A id \in 1..MaxOrders :
    (id \in DOMAIN orders /\ venue[id].cancelAsked)
      ~> (id \in DOMAIN orders /\ orders[id].status \in Terminal)
=============================================================================
