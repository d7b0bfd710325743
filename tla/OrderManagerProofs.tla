------------------------- MODULE OrderManagerProofs -------------------------
(***************************************************************************)
(* Theorems about OrderManager, for every set of requests, limits, faults  *)
(* and bounds.                                                             *)
(***************************************************************************)
EXTENDS OrderManager, SequenceTheorems, ArithmeticTheorems

(* Taking the element at k out of a sequence shifts those after it.        *)
LEMMA RemoveAtProperties ==
  ASSUME NEW S, NEW s \in Seq(S), NEW k \in 1..Len(s)
  PROVE  /\ RemoveAt(s, k) \in Seq(S)
         /\ Len(RemoveAt(s, k)) = Len(s) - 1
         /\ \A j \in 1..(Len(s) - 1) :
              RemoveAt(s, k)[j] = IF j < k THEN s[j] ELSE s[j + 1]
<1> DEFINE front == SubSeq(s, 1, k - 1)
           back  == SubSeq(s, k + 1, Len(s))
<1>1. /\ front \in Seq(S)
      /\ Len(front) = k - 1
      /\ \A j \in 1..(k - 1) : front[j] = s[j]
  <2>1. /\ 1 \in 1..(Len(s) + 1) /\ k - 1 \in (1 - 1)..Len(s)
    BY LenProperties
  <2>2. QED
    BY <2>1, SubSeqProperties
<1>2. /\ back \in Seq(S)
      /\ Len(back) = Len(s) - k
      /\ \A j \in 1..(Len(s) - k) : back[j] = s[k + j]
  <2>1. /\ k + 1 \in 1..(Len(s) + 1) /\ Len(s) \in k..Len(s)
    BY LenProperties
  <2>2. QED
    BY <2>1, SubSeqProperties
<1>3. RemoveAt(s, k) = front \o back
  BY Zenon DEF RemoveAt
<1> HIDE DEF front, back
<1>4. Len(s) \in Nat /\ k \in Nat /\ Len(front) \in Nat /\ Len(back) \in Nat
  BY <1>1, <1>2
<1>5. /\ front \o back \in Seq(S)
      /\ Len(front \o back) = Len(front) + Len(back)
      /\ \A j \in 1..(Len(front) + Len(back)) :
           (front \o back)[j] = IF j <= Len(front) THEN front[j] ELSE back[j - Len(front)]
  BY <1>1, <1>2, ConcatProperties
<1>6. ASSUME NEW j \in 1..(Len(s) - 1)
      PROVE  (front \o back)[j] = IF j < k THEN s[j] ELSE s[j + 1]
  <2>1. j \in 1..(Len(front) + Len(back))
    BY <1>1, <1>2, <1>4
  <2>2. CASE j < k
    BY <1>1, <1>4, <1>5, <2>1, <2>2
  <2>3. CASE ~(j < k)
    <3>1. j - Len(front) \in 1..(Len(s) - k) /\ k + (j - Len(front)) = j + 1
      BY <1>1, <1>4, <2>3
    <3>2. back[j - Len(front)] = s[j + 1]
      BY <1>2, <3>1
    <3>3. (front \o back)[j] = back[j - Len(front)]
      BY <1>1, <1>4, <1>5, <2>1, <2>3
    <3>4. QED
      BY <2>3, <3>2, <3>3
  <2>4. QED
    BY <2>2, <2>3
<1>7. Len(RemoveAt(s, k)) = Len(s) - 1
  BY <1>1, <1>2, <1>3, <1>4, <1>5
<1>8. QED
  BY <1>3, <1>5, <1>6, <1>7

-----------------------------------------------------------------------------
(* No order, no position, no report: the state the module starts in.       *)
LEMMA InitTypeOK == Init => TypeOK
BY DEF Init, TypeOK, OrderIds, PositionType, Flat, RiskReasons

(* What the venue says about an order of ours is a report.                 *)
LEMMA ReportType ==
  ASSUME TypeOK, NEW id \in DOMAIN orders, NEW execType \in ExecTypes,
         NEW status \in Statuses, NEW filled \in Nat
  PROVE  Report(id, execType, status, orders[id].price, filled) \in Reports
BY DEF Report, Reports, TypeOK, Orders, OrderIds

(* A created order takes the next id, which no map holds yet.              *)
LEMMA CreateOrderTypeOK ==
  ASSUME TypeOK, NEW r \in Requests, CreateOrder(r)
  PROVE  TypeOK'
<1>1. NewOrder(r) \in Orders
  BY RequestsAssumption DEF NewOrder, Orders, CreateOrder, Valid, OrderRequests, Statuses
<1>2. 1..(nextOrderId' - 1) = 1..(nextOrderId - 1) \cup {nextOrderId}
  BY DEF CreateOrder, TypeOK, OrderIds
<1>3. orders' \in [1..(nextOrderId' - 1) -> Orders]
  BY <1>1, <1>2 DEF CreateOrder, Emplace, TypeOK
<1>4. venue' \in [1..(nextOrderId' - 1) -> VenueOrders]
  BY <1>2 DEF CreateOrder, Emplace, TypeOK, VenueOrders
<1>5. QED
  BY <1>3, <1>4 DEF CreateOrder, TypeOK, OrderIds, RiskReasons

(* A report of any content leaves well-typed orders and positions.         *)
LEMMA ApplyExecutionType ==
  ASSUME TypeOK, NEW report \in Reports, ApplyExecution(report)
  PROVE  /\ nextOrderId' = nextOrderId
         /\ reason' = reason
         /\ orders' \in [DOMAIN orders -> Orders]
         /\ positions' \in [Instruments -> PositionType]
<1>1. CASE report.id \notin DOMAIN orders
  BY <1>1 DEF ApplyExecution, execution, TypeOK
<1>2. CASE report.id \in DOMAIN orders
  <2> DEFINE executed == report.filled - orders[report.id].filled
  <2>1. orders' \in [DOMAIN orders -> Orders]
    <3>1. orders' = [orders EXCEPT ![report.id].status = report.status,
                                   ![report.id].filled = report.filled]
      BY <1>2 DEF ApplyExecution
    <3>2. orders \in [DOMAIN orders -> Orders]
      BY DEF TypeOK
    <3>3. report.status \in Statuses /\ report.filled \in Nat
      BY DEF Reports
    <3>4. QED
      BY <1>2, <3>1, <3>2, <3>3 DEF Orders
  <2>2. CASE report.execType = "Trade" /\ executed > 0
    <3>1. executed \in Nat \ {0}
      BY <1>2, <2>2 DEF TypeOK, Orders, Reports
    <3>2. ApplyTrade(positions[report.instrument], report.side, report.price, executed)
            \in PositionType
      BY <3>1, ApplyTradeType DEF TypeOK, Reports
    <3>3. QED
      BY <1>2, <2>1, <2>2, <3>2 DEF ApplyExecution, TypeOK
  <2>3. CASE ~(report.execType = "Trade" /\ executed > 0)
    BY <1>2, <2>1, <2>3 DEF ApplyExecution, TypeOK
  <2>4. QED
    BY <2>2, <2>3
<1>3. QED
  BY <1>1, <1>2

(* A step of the venue that reports something keeps every type.            *)
LEMMA VenueReportsTypeOK ==
  ASSUME TypeOK, NEW id \in DOMAIN venue, NEW state \in {"sent", "live", "done"},
         NEW filled \in Nat, NEW execType \in ExecTypes, NEW status \in Statuses,
         VenueReports(id, state, filled, execType, status, orders[id].price)
  PROVE  TypeOK'
<1>1. Report(id, execType, status, orders[id].price, filled) \in Reports
  BY ReportType DEF TypeOK
<1>2. reports' \in Seq(Reports)
  BY <1>1 DEF VenueReports, TypeOK
<1>3. venue' \in [1..(nextOrderId - 1) -> VenueOrders]
  BY DEF VenueReports, TypeOK, VenueOrders
<1>4. QED
  BY <1>2, <1>3 DEF VenueReports, execution, TypeOK

(* Every step, faults included, keeps every type.                          *)
LEMMA NextTypeOK == TypeOK /\ [Next]_vars => TypeOK'
<1> SUFFICES ASSUME TypeOK, [Next]_vars PROVE TypeOK'
  OBVIOUS
<1>1. ASSUME NEW r \in Requests, CreateOrder(r) PROVE TypeOK'
  BY <1>1, CreateOrderTypeOK
<1>2. ASSUME NEW r \in Requests, RefuseOrder(r) PROVE TypeOK'
  <2>1. CheckedReason(r) \in RiskReasons
    BY DEF CheckedReason, RiskReason, RiskReasons
  <2>2. QED
    BY <1>2, <2>1 DEF RefuseOrder, TypeOK
<1>3. ASSUME NEW id \in DOMAIN orders, Cancel(id) PROVE TypeOK'
  BY <1>3 DEF Cancel, execution, TypeOK, VenueOrders
<1>4. ASSUME NEW k \in DOMAIN reports, Deliver(k) PROVE TypeOK'
  <2>1. k \in 1..Len(reports) /\ reports[k] \in Reports
    BY <1>4 DEF TypeOK
  <2>2. reports' \in Seq(Reports)
    BY <1>4, <2>1, RemoveAtProperties DEF Deliver, TypeOK
  <2>3. QED
    BY <1>4, <2>1, <2>2, ApplyExecutionType DEF Deliver, TypeOK
<1>5. ASSUME NEW id \in DOMAIN venue, VenueAccept(id) PROVE TypeOK'
  BY <1>5, VenueReportsTypeOK DEF VenueAccept, ExecTypes, Statuses
<1>6. ASSUME NEW id \in DOMAIN venue, VenueReject(id) PROVE TypeOK'
  BY <1>6, VenueReportsTypeOK DEF VenueReject, ExecTypes, Statuses
<1>7. ASSUME NEW id \in DOMAIN venue, VenueCancel(id) PROVE TypeOK'
  <2>1. venue[id].filled \in Nat
    BY <1>7 DEF TypeOK, VenueOrders
  <2>2. QED
    BY <1>7, <2>1, VenueReportsTypeOK DEF VenueCancel, ExecTypes, Statuses
<1>8. ASSUME NEW id \in DOMAIN venue, NEW q \in 1..orders[id].quantity, VenueFill(id, q)
      PROVE  TypeOK'
  <2> DEFINE filled == venue[id].filled + q
             full == filled = orders[id].quantity
  <2>1. filled \in Nat
    BY <1>8 DEF TypeOK, VenueOrders, Orders
  <2>2. /\ (IF full THEN "done" ELSE "live") \in {"sent", "live", "done"}
        /\ (IF full THEN "Filled" ELSE "PartiallyFilled") \in Statuses
        /\ "Trade" \in ExecTypes
    BY DEF Statuses, ExecTypes
  <2>3. VenueReports(id, IF full THEN "done" ELSE "live", filled, "Trade",
                     IF full THEN "Filled" ELSE "PartiallyFilled", orders[id].price)
    BY <1>8 DEF VenueFill
  <2>4. QED
    BY <2>1, <2>2, <2>3, VenueReportsTypeOK
<1>9. ASSUME NEW k \in DOMAIN reports, LoseReport(k) PROVE TypeOK'
  <2>1. k \in 1..Len(reports)
    BY <1>9 DEF TypeOK
  <2>2. reports' \in Seq(Reports)
    BY <1>9, <2>1, RemoveAtProperties DEF LoseReport, TypeOK
  <2>3. QED
    BY <1>9, <2>2 DEF LoseReport, Fault, execution, TypeOK
<1>10. ASSUME NEW k \in DOMAIN reports, RepeatReport(k) PROVE TypeOK'
  <2>1. reports' \in Seq(Reports)
    BY <1>10 DEF RepeatReport, TypeOK
  <2>2. QED
    BY <1>10, <2>1 DEF RepeatReport, Fault, execution, TypeOK
<1>11. ASSUME NEW i \in Instruments, NEW s \in Sides, ForeignReport(i, s) PROVE TypeOK'
  <2>1. reports' \in Seq(Reports)
    BY <1>11 DEF ForeignReport, TypeOK, Reports, Foreign, ExecTypes, Statuses
  <2>2. QED
    BY <1>11, <2>1 DEF ForeignReport, Fault, execution, TypeOK
<1>12. CASE UNCHANGED vars
  BY <1>12 DEF vars, TypeOK
<1>13. QED
  BY <1>1, <1>2, <1>3, <1>4, <1>5, <1>6, <1>7, <1>8, <1>9, <1>10, <1>11, <1>12
     DEF Next, Venue

(* The state of the execution core and of the venue always has its type,   *)
(* whatever is requested and whatever happens to the reports; in           *)
(* particular the ids handed out are 1 to nextOrderId - 1, so that the     *)
(* insertion of a new order can never find its id taken.                   *)
THEOREM TypeCorrect == Spec => []TypeOK
<1>1. QED
  BY InitTypeOK, NextTypeOK, PTL DEF Spec
-----------------------------------------------------------------------------
(* What the venue reported of an order is not more than it executed.       *)
ReportedWithinVenue ==
  \A k \in DOMAIN reports :
    reports[k].id # Foreign => reports[k].filled <= venue[reports[k].id].filled

(* An order the venue has not looked at has no fills.                      *)
SentUnfilled ==
  \A id \in DOMAIN venue : venue[id].state = "sent" => venue[id].filled = 0

(* Inductive, and true whatever happens to the reports.                    *)
FillsSound ==
  /\ TypeOK
  /\ FilledNeverAhead
  /\ ReportsFindTheirOrder
  /\ ReportedWithinVenue
  /\ SentUnfilled

(* The venue knows exactly the orders the core has created.                *)
LEMMA OrdersAreSent == TypeOK => DOMAIN orders = DOMAIN venue /\ DOMAIN orders \subseteq OrderIds
BY DEF TypeOK, OrderIds

(* A report taken out: every other one is still there.                     *)
LEMMA RemovedReport ==
  ASSUME TypeOK, NEW k \in DOMAIN reports, reports' = RemoveAt(reports, k)
  PROVE  /\ Len(reports') = Len(reports) - 1
         /\ \A j \in DOMAIN reports' :
              /\ j \in DOMAIN reports /\ j + 1 \in DOMAIN reports
              /\ reports'[j] = IF j < k THEN reports[j] ELSE reports[j + 1]
         /\ reports' \in Seq(Reports)
<1>1. /\ k \in 1..Len(reports)
      /\ Len(reports) \in Nat
      /\ DOMAIN reports = 1..Len(reports)
  BY DEF TypeOK
<1>2. /\ reports' \in Seq(Reports)
      /\ Len(reports') = Len(reports) - 1
      /\ \A j \in 1..(Len(reports) - 1) :
           reports'[j] = IF j < k THEN reports[j] ELSE reports[j + 1]
  BY <1>1, RemoveAtProperties DEF TypeOK
<1>3. DOMAIN reports' = 1..(Len(reports) - 1)
  BY <1>2
<1>4. QED
  BY <1>1, <1>2, <1>3

(* A report appended: the others keep their places before it.              *)
LEMMA AppendedReport ==
  ASSUME TypeOK, NEW r \in Reports, reports' = Append(reports, r)
  PROVE  /\ Len(reports') = Len(reports) + 1
         /\ reports'[Len(reports) + 1] = r
         /\ \A j \in DOMAIN reports : reports'[j] = reports[j]
         /\ DOMAIN reports' = DOMAIN reports \cup {Len(reports) + 1}
         /\ DOMAIN reports = 1..Len(reports) /\ Len(reports) \in Nat
BY DEF TypeOK

(* A truthful report of the venue keeps FillsSound.                        *)
LEMMA VenueReportsSound ==
  ASSUME FillsSound, NEW id \in DOMAIN venue, NEW state \in {"live", "done"},
         NEW filled \in Nat, NEW execType \in ExecTypes, NEW status \in Statuses,
         venue[id].filled <= filled, filled <= orders[id].quantity,
         VenueReports(id, state, filled, execType, status, orders[id].price)
  PROVE  FillsSound'
<1> DEFINE new == Report(id, execType, status, orders[id].price, filled)
<1>1. /\ TypeOK /\ TypeOK'
      /\ id \in DOMAIN orders /\ id # Foreign
  BY VenueReportsTypeOK, OrdersAreSent DEF FillsSound, OrderIds, Foreign
<1>2. new \in Reports
  BY <1>1, ReportType
<1>3. /\ orders' = orders /\ DOMAIN venue' = DOMAIN venue
      /\ venue'[id].filled = filled /\ venue'[id].state = state
      /\ \A o \in DOMAIN venue : o # id => venue'[o] = venue[o]
      /\ reports' = Append(reports, new)
  <2>1. /\ orders' = orders
        /\ reports' = Append(reports, new)
        /\ venue' = [venue EXCEPT ![id].state = state, ![id].filled = filled]
    BY DEF VenueReports, execution
  <2>2. venue \in [DOMAIN venue -> VenueOrders]
    <3>1. venue \in [1..(nextOrderId - 1) -> VenueOrders]
      BY <1>1 DEF TypeOK
    <3>2. QED
      BY <3>1
  <2>3. DOMAIN venue' = DOMAIN venue
    BY <2>1
  <2>4. ASSUME NEW o \in DOMAIN venue, o # id
        PROVE  venue'[o] = venue[o]
    BY <2>1, <2>4
  <2>5. venue[id] \in VenueOrders
    BY <2>2
  <2>6. venue'[id] = [venue[id] EXCEPT !.state = state, !.filled = filled]
    BY <2>1, <2>2
  <2>7. venue'[id].filled = filled /\ venue'[id].state = state
    BY <2>5, <2>6 DEF VenueOrders
  <2>8. QED
    BY <2>1, <2>3, <2>4, <2>7
<1>4. FilledNeverAhead'
  <2>1. ASSUME NEW o \in DOMAIN orders
        PROVE  orders[o].filled <= venue'[o].filled /\ venue'[o].filled <= orders[o].quantity
    <3>1. /\ orders[o].filled <= venue[o].filled /\ venue[o].filled <= orders[o].quantity
          /\ orders[o].filled \in Nat /\ venue[o].filled \in Nat /\ o \in DOMAIN venue
      BY <1>1, OrdersAreSent DEF FillsSound, FilledNeverAhead, TypeOK, Orders, VenueOrders
    <3>2. QED
      BY <1>3, <3>1
  <2>2. QED
    BY <1>3, <2>1 DEF FilledNeverAhead
<1>5. ASSUME NEW k \in DOMAIN reports', reports'[k].id # Foreign
      PROVE  /\ reports'[k].id \in DOMAIN orders
             /\ reports'[k].instrument = orders[reports'[k].id].instrument
             /\ reports'[k].side = orders[reports'[k].id].side
             /\ reports'[k].filled <= venue'[reports'[k].id].filled
  <2>1. CASE k \in DOMAIN reports
    <3>1. reports'[k] = reports[k] /\ reports[k] \in Reports
      BY <1>1, <1>2, <1>3, <2>1, AppendedReport DEF TypeOK
    <3>2. /\ reports[k].id \in DOMAIN orders
          /\ reports[k].instrument = orders[reports[k].id].instrument
          /\ reports[k].side = orders[reports[k].id].side
          /\ reports[k].filled <= venue[reports[k].id].filled
      BY <1>5, <2>1, <3>1 DEF FillsSound, ReportsFindTheirOrder, ReportedWithinVenue
    <3>3. /\ reports[k].filled \in Nat /\ venue[reports[k].id].filled \in Nat
          /\ reports[k].id \in DOMAIN venue /\ venue[id].filled \in Nat
      BY <1>1, <3>1, <3>2, OrdersAreSent DEF TypeOK, Reports, VenueOrders
    <3>4. QED
      BY <1>3, <3>1, <3>2, <3>3
  <2>2. CASE k = Len(reports) + 1
    <3>1. reports'[k] = new
      BY <1>1, <1>2, <1>3, <2>2, AppendedReport
    <3>2. QED
      BY <1>1, <1>3, <3>1 DEF Report
  <2>3. QED
    BY <1>1, <1>2, <1>3, <2>1, <2>2, AppendedReport
<1>6. SentUnfilled'
  BY <1>3 DEF FillsSound, SentUnfilled
<1>7. QED
  BY <1>1, <1>3, <1>4, <1>5, <1>6 DEF FillsSound, ReportsFindTheirOrder, ReportedWithinVenue

(* Reports only taken out or repeated leave what they say of orders true.  *)
LEMMA OldReportsSound ==
  ASSUME FillsSound, TypeOK', UNCHANGED <<orders, venue>>,
         \A k \in DOMAIN reports' :
           \/ reports'[k].id = Foreign
           \/ \E j \in DOMAIN reports : reports'[k] = reports[j]
  PROVE  FillsSound'
<1>1. ASSUME NEW k \in DOMAIN reports', reports'[k].id # Foreign
      PROVE  /\ reports'[k].id \in DOMAIN orders
             /\ reports'[k].instrument = orders[reports'[k].id].instrument
             /\ reports'[k].side = orders[reports'[k].id].side
             /\ reports'[k].filled <= venue[reports'[k].id].filled
  BY <1>1 DEF FillsSound, ReportsFindTheirOrder, ReportedWithinVenue
<1>2. FilledNeverAhead'
  BY DEF FillsSound, FilledNeverAhead
<1>3. SentUnfilled'
  BY DEF FillsSound, SentUnfilled
<1>4. QED
  BY <1>1, <1>2, <1>3 DEF FillsSound, ReportsFindTheirOrder, ReportedWithinVenue

(* Nothing is filled and nothing reported at the start.                    *)
LEMMA InitFillsSound == Init => FillsSound
BY InitTypeOK DEF Init, FillsSound, FilledNeverAhead, ReportsFindTheirOrder, ReportedWithinVenue,
                       SentUnfilled

(* Every step, faults included, keeps FillsSound.                          *)
LEMMA NextFillsSound == FillsSound /\ [Next]_vars => FillsSound'
<1> SUFFICES ASSUME FillsSound, [Next]_vars PROVE FillsSound'
  OBVIOUS
<1> USE OrdersAreSent
<1>0. TypeOK /\ TypeOK' /\ DOMAIN orders = DOMAIN venue
  BY NextTypeOK DEF FillsSound
<1>1. ASSUME NEW r \in Requests, CreateOrder(r) PROVE FillsSound'
  <2>1. /\ nextOrderId \notin DOMAIN orders /\ reports' = reports
        /\ DOMAIN orders' = DOMAIN orders \cup {nextOrderId}
        /\ \A o \in DOMAIN orders : orders'[o] = orders[o] /\ venue'[o] = venue[o]
        /\ orders'[nextOrderId] = NewOrder(r)
        /\ venue'[nextOrderId].filled = 0
        /\ DOMAIN venue' = DOMAIN venue \cup {nextOrderId}
    BY <1>0, <1>1 DEF CreateOrder, Emplace, TypeOK, OrderIds
  <2>2. NewOrder(r).filled = 0 /\ NewOrder(r).quantity \in Nat
    BY <1>1, RequestsAssumption DEF NewOrder, CreateOrder, Valid, OrderRequests
  <2>3. FilledNeverAhead'
    BY <1>0, <2>1, <2>2 DEF FillsSound, FilledNeverAhead
  <2>4. ReportsFindTheirOrder' /\ ReportedWithinVenue'
    BY <1>0, <2>1 DEF FillsSound, ReportsFindTheirOrder, ReportedWithinVenue
  <2>5. SentUnfilled'
    BY <1>0, <2>1 DEF FillsSound, SentUnfilled
  <2>6. QED
    BY <1>0, <2>3, <2>4, <2>5 DEF FillsSound
<1>2. ASSUME NEW r \in Requests, RefuseOrder(r) PROVE FillsSound'
  BY <1>0, <1>2, OldReportsSound DEF RefuseOrder
<1>3. ASSUME NEW id \in DOMAIN orders, Cancel(id) PROVE FillsSound'
  <2>1. /\ orders' = orders /\ reports' = reports /\ DOMAIN venue' = DOMAIN venue
        /\ \A o \in DOMAIN venue : venue'[o].filled = venue[o].filled
        /\ \A o \in DOMAIN venue : venue'[o].state = venue[o].state
    BY <1>0, <1>3 DEF Cancel, execution, TypeOK, VenueOrders
  <2>2. QED
    BY <1>0, <2>1 DEF FillsSound, FilledNeverAhead, ReportsFindTheirOrder, ReportedWithinVenue,
                    SentUnfilled
<1>4. ASSUME NEW k \in DOMAIN reports, Deliver(k) PROVE FillsSound'
  <2> DEFINE id == reports[k].id
  <2>1. /\ reports[k] \in Reports /\ venue' = venue
        /\ \A j \in DOMAIN reports' : \E m \in DOMAIN reports : reports'[j] = reports[m]
    BY <1>0, <1>4, RemovedReport DEF Deliver, TypeOK
  <2>2. CASE id \notin DOMAIN orders
    BY <1>0, <1>4, <2>1, <2>2, OldReportsSound DEF Deliver, ApplyExecution, execution
  <2>3. CASE id \in DOMAIN orders
    <3>1. /\ DOMAIN orders' = DOMAIN orders
          /\ orders'[id].filled = reports[k].filled
          /\ \A o \in DOMAIN orders : o # id => orders'[o] = orders[o]
          /\ \A o \in DOMAIN orders : /\ orders'[o].quantity = orders[o].quantity
                                      /\ orders'[o].instrument = orders[o].instrument
                                      /\ orders'[o].side = orders[o].side
      <4>1. orders' = [orders EXCEPT ![id].status = reports[k].status,
                                     ![id].filled = reports[k].filled]
        BY <1>4, <2>3 DEF Deliver, ApplyExecution
      <4>2. orders \in [DOMAIN orders -> Orders]
        BY <1>0 DEF TypeOK
      <4>3. QED
        BY <2>3, <4>1, <4>2 DEF Orders
    <3>2. id # Foreign
      BY <1>0, <2>3 DEF OrderIds, Foreign
    <3>3. reports[k].filled <= venue[id].filled
      BY <3>2, <1>4 DEF FillsSound, ReportedWithinVenue
    <3>4. FilledNeverAhead'
      BY <1>0, <2>1, <3>1, <3>3 DEF FillsSound, FilledNeverAhead
    <3>5. ReportsFindTheirOrder' /\ ReportedWithinVenue'
      BY <2>1, <3>1 DEF FillsSound, ReportsFindTheirOrder, ReportedWithinVenue
    <3>6. SentUnfilled'
      BY <2>1 DEF FillsSound, SentUnfilled
    <3>7. QED
      BY <1>0, <3>4, <3>5, <3>6 DEF FillsSound
  <2>4. QED
    BY <2>2, <2>3
<1>5. ASSUME NEW id \in DOMAIN venue, VenueAccept(id) \/ VenueReject(id) \/ VenueCancel(id)
      PROVE  FillsSound'
  <2>1. /\ venue[id].filled \in Nat /\ venue[id].filled <= orders[id].quantity
        /\ venue[id].state = "sent" => venue[id].filled = 0
    BY <1>0 DEF FillsSound, FilledNeverAhead, SentUnfilled, TypeOK, VenueOrders
  <2>2. \/ VenueReports(id, "live", venue[id].filled, "New", "New", orders[id].price)
        \/ VenueReports(id, "done", venue[id].filled, "Reject", "Rejected", orders[id].price)
        \/ VenueReports(id, "done", venue[id].filled, "Cancel", "Cancelled", orders[id].price)
    BY <1>5, <2>1 DEF VenueAccept, VenueReject, VenueCancel
  <2>3. QED
    BY <2>1, <2>2, VenueReportsSound DEF ExecTypes, Statuses
<1>6. ASSUME NEW id \in DOMAIN venue, NEW q \in 1..orders[id].quantity, VenueFill(id, q)
      PROVE  FillsSound'
  <2> DEFINE filled == venue[id].filled + q
             full == filled = orders[id].quantity
  <2>1. /\ filled \in Nat /\ venue[id].filled <= filled /\ filled <= orders[id].quantity
        /\ (IF full THEN "done" ELSE "live") \in {"live", "done"}
        /\ (IF full THEN "Filled" ELSE "PartiallyFilled") \in Statuses
        /\ "Trade" \in ExecTypes
    BY <1>0, <1>6 DEF VenueFill, TypeOK, VenueOrders, Orders, Statuses, ExecTypes
  <2>2. VenueReports(id, IF full THEN "done" ELSE "live", filled, "Trade",
                     IF full THEN "Filled" ELSE "PartiallyFilled", orders[id].price)
    BY <1>6 DEF VenueFill
  <2>3. QED
    BY <2>1, <2>2, VenueReportsSound
<1>7. ASSUME NEW k \in DOMAIN reports, LoseReport(k) PROVE FillsSound'
  <2>1. \A j \in DOMAIN reports' : \E m \in DOMAIN reports : reports'[j] = reports[m]
    BY <1>0, <1>7, RemovedReport DEF LoseReport
  <2>2. QED
    BY <1>0, <1>7, <2>1, OldReportsSound DEF LoseReport, Fault, execution
<1>8. ASSUME NEW k \in DOMAIN reports, RepeatReport(k) PROVE FillsSound'
  <2>1. reports[k] \in Reports /\ reports' = Append(reports, reports[k])
    BY <1>0, <1>8 DEF TypeOK, RepeatReport
  <2>2. \A j \in DOMAIN reports' : \E m \in DOMAIN reports : reports'[j] = reports[m]
    BY <1>0, <2>1, AppendedReport
  <2>3. QED
    BY <1>0, <1>8, <2>2, OldReportsSound DEF RepeatReport, Fault, execution
<1>9. ASSUME NEW i \in Instruments, NEW s \in Sides, ForeignReport(i, s) PROVE FillsSound'
  <2>1. PICK r \in Reports : r.id = Foreign /\ reports' = Append(reports, r)
    BY <1>9 DEF ForeignReport, Reports, Foreign, ExecTypes, Statuses
  <2>2. \A j \in DOMAIN reports' :
          reports'[j].id = Foreign \/ \E m \in DOMAIN reports : reports'[j] = reports[m]
    BY <1>0, <2>1, AppendedReport
  <2>3. QED
    BY <1>0, <1>9, <2>2, OldReportsSound DEF ForeignReport, Fault, execution
<1>10. CASE UNCHANGED vars
  BY <1>0, <1>10, OldReportsSound DEF vars
<1>11. QED
  BY <1>1, <1>2, <1>3, <1>4, <1>5, <1>6, <1>7, <1>8, <1>9, <1>10 DEF Next, Venue

(* Whatever is lost, repeated or reordered: the core never believes more   *)
(* filled than the venue executed, and the venue never executes more than  *)
(* was asked.                                                              *)
THEOREM FillsAreSound == Spec => []FilledNeverAhead
<1>1. FillsSound => FilledNeverAhead
  BY DEF FillsSound
<1>2. QED
  BY <1>1, InitFillsSound, NextFillsSound, PTL DEF Spec

(* And every report of an order of ours finds its order.                   *)
THEOREM ReportsAreOurs == Spec => []ReportsFindTheirOrder
<1>1. FillsSound => ReportsFindTheirOrder
  BY DEF FillsSound
<1>2. QED
  BY <1>1, InitFillsSound, NextFillsSound, PTL DEF Spec
-----------------------------------------------------------------------------
(* Reports that are neither reordered nor repeated.                        *)
InOrderDelivery == "reorder" \notin Faults /\ "duplicate" \notin Faults

(* An order known to have ended has ended at the venue.                    *)
EndedAtVenue ==
  \A id \in DOMAIN orders : orders[id].status \in Terminal => venue[id].state = "done"

(* Inductive as long as delivery is in order: losing reports is allowed.   *)
StoriesSound ==
  /\ FillsSound
  /\ ReportsInOrder
  /\ EndedAtVenue

(* What the venue reports next continues the story told so far.            *)
LEMMA VenueReportsInOrder ==
  ASSUME StoriesSound, NEW id \in DOMAIN venue, NEW state \in {"live", "done"},
         NEW filled \in Nat, NEW execType \in ExecTypes, NEW status \in Statuses,
         venue[id].state # "done", venue[id].filled <= filled,
         status \in Terminal => state = "done",
         VenueReports(id, state, filled, execType, status, orders[id].price)
  PROVE  ReportsInOrder' /\ EndedAtVenue'
<1> DEFINE new == Report(id, execType, status, orders[id].price, filled)
           last == Len(reports) + 1
<1>1. /\ TypeOK /\ FillsSound /\ id \in DOMAIN orders /\ id # Foreign
      /\ DOMAIN orders = DOMAIN venue
  BY OrdersAreSent DEF StoriesSound, FillsSound, OrderIds, Foreign
<1>2. new \in Reports /\ new.id = id /\ new.filled = filled /\ new.status = status
  BY <1>1, ReportType DEF Report
<1>3. /\ orders' = orders
      /\ venue'[id].state = state
      /\ \A o \in DOMAIN venue : o # id => venue'[o] = venue[o]
      /\ reports' = Append(reports, new)
  BY <1>1 DEF VenueReports, execution, TypeOK, VenueOrders
<1>4. /\ DOMAIN reports' = DOMAIN reports \cup {last}
      /\ DOMAIN reports = 1..Len(reports) /\ Len(reports) \in Nat
      /\ reports'[last] = new
      /\ \A j \in DOMAIN reports : reports'[j] = reports[j]
  BY <1>1, <1>2, <1>3, AppendedReport
<1>5. EndedAtVenue'
  BY <1>1, <1>3 DEF StoriesSound, EndedAtVenue
<1>6. orders[id].status \notin Terminal
  BY <1>1 DEF StoriesSound, EndedAtVenue
<1>7. ASSUME NEW j \in DOMAIN reports, reports[j].id = id
      PROVE  reports[j].filled <= filled /\ reports[j].status \notin Terminal
  <2>1. reports[j].filled <= venue[id].filled
    BY <1>1, <1>7 DEF FillsSound, ReportedWithinVenue
  <2>2. reports[j].filled \in Nat /\ venue[id].filled \in Nat
    <3>1. reports[j] \in Reports /\ venue[id] \in VenueOrders
      BY <1>1 DEF TypeOK
    <3>2. QED
      BY <3>1 DEF Reports, VenueOrders
  <2>3. reports[j].status \notin Terminal
    BY <1>1, <1>7 DEF StoriesSound, ReportsInOrder
  <2>4. QED
    BY <2>1, <2>2, <2>3
<1>8. orders[id].filled <= filled
  BY <1>1 DEF FillsSound, FilledNeverAhead, TypeOK, Orders, VenueOrders
<1>9. ASSUME NEW k \in DOMAIN reports', reports'[k].id # Foreign
      PROVE  /\ orders[reports'[k].id].filled <= reports'[k].filled
             /\ orders[reports'[k].id].status \notin Terminal
             /\ reports'[k].status \in Terminal => venue'[reports'[k].id].state = "done"
             /\ \A j \in 1..(k - 1) :
                  reports'[j].id = reports'[k].id =>
                    /\ reports'[j].filled <= reports'[k].filled
                    /\ reports'[j].status \notin Terminal
  <2>1. CASE k = last
    <3>1. /\ reports'[k].id = id /\ reports'[k].filled = filled
          /\ reports'[k].status = status
      BY <1>2, <1>4, <2>1
    <3>2. \A j \in 1..(k - 1) : j \in DOMAIN reports /\ reports'[j] = reports[j]
      BY <1>4, <2>1
    <3>3. \A j \in 1..(k - 1) :
            reports'[j].id = id =>
              reports'[j].filled <= filled /\ reports'[j].status \notin Terminal
      BY <1>7, <3>2
    <3>4. QED
      BY <1>3, <1>6, <1>8, <3>1, <3>3
  <2>2. CASE k \in DOMAIN reports
    <3>1. /\ reports'[k] = reports[k]
          /\ \A j \in 1..(k - 1) : reports'[j] = reports[j]
      BY <1>4, <2>2
    <3>2. reports[k].id \in DOMAIN venue
      BY <1>1, <1>9, <2>2, <3>1 DEF FillsSound, ReportsFindTheirOrder
    <3>3. /\ orders[reports[k].id].filled <= reports[k].filled
          /\ orders[reports[k].id].status \notin Terminal
          /\ reports[k].status \in Terminal => venue[reports[k].id].state = "done"
          /\ \A j \in 1..(k - 1) :
               reports[j].id = reports[k].id =>
                 /\ reports[j].filled <= reports[k].filled
                 /\ reports[j].status \notin Terminal
      BY <1>9, <2>2, <3>1 DEF StoriesSound, ReportsInOrder
    <3>4. reports[k].status \in Terminal => venue'[reports[k].id].state = "done"
      BY <1>3, <3>2, <3>3
    <3>5. QED
      BY <3>1, <3>3, <3>4
  <2>3. QED
    BY <1>4, <2>1, <2>2
<1>10. QED
  BY <1>3, <1>5, <1>9 DEF ReportsInOrder

(* What a report taken out of its turn, or the first one, leaves behind.   *)
LEMMA RemovedInOrder ==
  ASSUME StoriesSound, NEW k \in DOMAIN reports, reports' = RemoveAt(reports, k)
  PROVE  \A j \in DOMAIN reports' : reports'[j].id # Foreign =>
           \E m \in DOMAIN reports :
             /\ reports'[j] = reports[m] /\ m # k
             /\ k = 1 => m > 1
             /\ \A i \in 1..(j - 1) :
                  reports'[i].id = reports'[j].id =>
                    /\ reports'[i].filled <= reports'[j].filled
                    /\ reports'[i].status \notin Terminal
<1>1. TypeOK /\ ReportsInOrder
  BY DEF StoriesSound, FillsSound
<1>2. /\ DOMAIN reports = 1..Len(reports) /\ Len(reports) \in Nat
      /\ DOMAIN reports' = 1..(Len(reports) - 1)
      /\ \A j \in DOMAIN reports' :
           reports'[j] = IF j < k THEN reports[j] ELSE reports[j + 1]
  BY <1>1, RemovedReport DEF TypeOK
<1>3. ASSUME NEW j \in DOMAIN reports', reports'[j].id # Foreign
      PROVE  \E m \in DOMAIN reports :
               /\ reports'[j] = reports[m] /\ m # k
               /\ k = 1 => m > 1
               /\ \A i \in 1..(j - 1) :
                    reports'[i].id = reports'[j].id =>
                      /\ reports'[i].filled <= reports'[j].filled
                      /\ reports'[i].status \notin Terminal
  <2> DEFINE m == IF j < k THEN j ELSE j + 1
  <2>1. /\ m \in DOMAIN reports /\ reports'[j] = reports[m] /\ m # k
        /\ k = 1 => m > 1
    BY <1>2
  <2>2. ASSUME NEW i \in 1..(j - 1), reports'[i].id = reports'[j].id
        PROVE  reports'[i].filled <= reports'[j].filled /\ reports'[i].status \notin Terminal
    <3> DEFINE n == IF i < k THEN i ELSE i + 1
    <3>1. /\ n \in 1..(m - 1) /\ reports'[i] = reports[n]
      BY <1>2
    <3>2. reports[n].id = reports[m].id /\ reports[m].id # Foreign
      BY <1>3, <2>1, <2>2, <3>1
    <3>3. QED
      BY <1>1, <2>1, <3>1, <3>2 DEF ReportsInOrder
  <2>3. QED
    BY <2>1, <2>2
<1>4. QED
  BY <1>3

(* Nothing new is said of an order of ours.                                *)
LEMMA OldReportsInOrder ==
  ASSUME StoriesSound, UNCHANGED orders,
         \A id \in DOMAIN orders : venue[id].state = "done" => venue'[id].state = "done",
         \/ reports' = reports
         \/ \E k \in DOMAIN reports : reports' = RemoveAt(reports, k)
         \/ \E r \in Reports : r.id = Foreign /\ reports' = Append(reports, r)
  PROVE  ReportsInOrder' /\ EndedAtVenue'
<1>1. TypeOK /\ FillsSound
  BY DEF StoriesSound, FillsSound
<1>2. EndedAtVenue'
  BY DEF StoriesSound, EndedAtVenue
<1>3. \A k \in DOMAIN reports : reports[k].id # Foreign =>
        /\ reports[k].id \in DOMAIN orders
        /\ reports[k].status \in Terminal => venue'[reports[k].id].state = "done"
  BY <1>1 DEF StoriesSound, FillsSound, ReportsFindTheirOrder, ReportsInOrder
<1>4. CASE reports' = reports
  BY <1>2, <1>3, <1>4 DEF StoriesSound, ReportsInOrder
<1>5. ASSUME NEW k \in DOMAIN reports, reports' = RemoveAt(reports, k)
      PROVE  ReportsInOrder'
  <2>1. ASSUME NEW j \in DOMAIN reports', reports'[j].id # Foreign
        PROVE  /\ orders[reports'[j].id].filled <= reports'[j].filled
               /\ orders[reports'[j].id].status \notin Terminal
               /\ reports'[j].status \in Terminal => venue'[reports'[j].id].state = "done"
               /\ \A i \in 1..(j - 1) :
                    reports'[i].id = reports'[j].id =>
                      /\ reports'[i].filled <= reports'[j].filled
                      /\ reports'[i].status \notin Terminal
    <3>1. PICK m \in DOMAIN reports :
            /\ reports'[j] = reports[m]
            /\ \A i \in 1..(j - 1) :
                 reports'[i].id = reports'[j].id =>
                   /\ reports'[i].filled <= reports'[j].filled
                   /\ reports'[i].status \notin Terminal
      BY <1>5, <2>1, RemovedInOrder
    <3>2. /\ orders[reports[m].id].filled <= reports[m].filled
          /\ orders[reports[m].id].status \notin Terminal
      BY <2>1, <3>1 DEF StoriesSound, ReportsInOrder
    <3>3. QED
      BY <1>3, <2>1, <3>1, <3>2
  <2>2. QED
    BY <2>1 DEF ReportsInOrder
<1>6. ASSUME NEW r \in Reports, r.id = Foreign, reports' = Append(reports, r)
      PROVE  ReportsInOrder'
  <2>1. /\ DOMAIN reports' = DOMAIN reports \cup {Len(reports) + 1}
        /\ DOMAIN reports = 1..Len(reports) /\ Len(reports) \in Nat
        /\ reports'[Len(reports) + 1] = r
        /\ \A j \in DOMAIN reports : reports'[j] = reports[j]
    BY <1>1, <1>6, AppendedReport
  <2>2. ASSUME NEW k \in DOMAIN reports', reports'[k].id # Foreign
        PROVE  /\ k \in DOMAIN reports /\ reports'[k] = reports[k]
               /\ \A j \in 1..(k - 1) : reports'[j] = reports[j]
    <3>1. k # Len(reports) + 1
      BY <1>6, <2>1, <2>2
    <3>2. k \in DOMAIN reports
      BY <2>1, <3>1
    <3>3. \A j \in 1..(k - 1) : j \in DOMAIN reports
      BY <2>1, <3>2
    <3>4. QED
      BY <2>1, <3>2, <3>3
  <2>3. QED
    BY <1>3, <2>2 DEF StoriesSound, ReportsInOrder
<1>7. QED
  BY <1>2, <1>4, <1>5, <1>6

(* Applying the first report.                                              *)
LEMMA DeliverInOrder ==
  ASSUME StoriesSound, FillsSound', InOrderDelivery, NEW k \in DOMAIN reports, Deliver(k)
  PROVE  ReportsInOrder' /\ EndedAtVenue'
<1> DEFINE id == reports[k].id
<1>1. /\ TypeOK /\ FillsSound /\ reports[k] \in Reports /\ k = 1
      /\ venue' = venue /\ reports' = RemoveAt(reports, k)
  BY DEF StoriesSound, FillsSound, TypeOK, Deliver, InOrderDelivery
<1>2. CASE id \notin DOMAIN orders
  BY <1>1, <1>2, OldReportsInOrder DEF Deliver, ApplyExecution, execution
<1>3. CASE id \in DOMAIN orders
  <2>1. id # Foreign
    BY <1>1, <1>3, OrdersAreSent DEF OrderIds, Foreign
  <2>2. orders' = [orders EXCEPT ![id].status = reports[k].status,
                                 ![id].filled = reports[k].filled]
    BY <1>3 DEF Deliver, ApplyExecution
  <2>3. /\ DOMAIN orders' = DOMAIN orders
        /\ orders'[id].status = reports[k].status
        /\ orders'[id].filled = reports[k].filled
        /\ \A o \in DOMAIN orders : o # id => orders'[o] = orders[o]
    <3>1. orders \in [DOMAIN orders -> Orders]
      BY <1>1 DEF TypeOK
    <3>2. QED
      BY <1>3, <2>2, <3>1 DEF Orders
  <2>4. EndedAtVenue'
    <3>1. reports[k].status \in Terminal => venue[id].state = "done"
      BY <2>1 DEF StoriesSound, ReportsInOrder
    <3>2. QED
      BY <1>1, <2>3, <3>1 DEF StoriesSound, EndedAtVenue
  <2>5. ASSUME NEW j \in DOMAIN reports', reports'[j].id # Foreign
        PROVE  /\ orders'[reports'[j].id].filled <= reports'[j].filled
               /\ orders'[reports'[j].id].status \notin Terminal
               /\ reports'[j].status \in Terminal => venue[reports'[j].id].state = "done"
               /\ \A i \in 1..(j - 1) :
                    reports'[i].id = reports'[j].id =>
                      /\ reports'[i].filled <= reports'[j].filled
                      /\ reports'[i].status \notin Terminal
    <3>1. PICK m \in DOMAIN reports :
            /\ reports'[j] = reports[m] /\ m # k
            /\ k = 1 => m > 1
            /\ \A i \in 1..(j - 1) :
                 reports'[i].id = reports'[j].id =>
                   /\ reports'[i].filled <= reports'[j].filled
                   /\ reports'[i].status \notin Terminal
      BY <1>1, <2>5, RemovedInOrder
    <3>2. /\ orders[reports[m].id].filled <= reports[m].filled
          /\ orders[reports[m].id].status \notin Terminal
          /\ reports[m].status \in Terminal => venue[reports[m].id].state = "done"
          /\ \A i \in 1..(m - 1) :
               reports[i].id = reports[m].id =>
                 /\ reports[i].filled <= reports[m].filled
                 /\ reports[i].status \notin Terminal
          /\ reports[m].id \in DOMAIN orders
      BY <1>1, <2>5, <3>1 DEF StoriesSound, ReportsInOrder, FillsSound, ReportsFindTheirOrder
    <3>3. k \in 1..(m - 1)
      BY <1>1, <3>1 DEF TypeOK
    <3>4. CASE reports[m].id = id
      BY <2>3, <3>1, <3>2, <3>3, <3>4
    <3>5. CASE reports[m].id # id
      BY <2>3, <3>1, <3>2, <3>5
    <3>6. QED
      BY <3>4, <3>5
  <2>6. QED
    BY <1>1, <2>4, <2>5 DEF ReportsInOrder
<1>4. QED
  BY <1>2, <1>3

(* No story has begun at the start.                                        *)
LEMMA InitStoriesSound == Init => StoriesSound
BY InitFillsSound DEF Init, StoriesSound, ReportsInOrder, EndedAtVenue

(* Delivered in order, every step keeps the stories sound.                 *)
LEMMA NextStoriesSound ==
  ASSUME InOrderDelivery
  PROVE  StoriesSound /\ [Next]_vars => StoriesSound'
<1> SUFFICES ASSUME StoriesSound, [Next]_vars PROVE ReportsInOrder' /\ EndedAtVenue'
  BY NextFillsSound DEF StoriesSound
<1>0. /\ TypeOK /\ FillsSound /\ FillsSound' /\ DOMAIN orders = DOMAIN venue
      /\ Foreign \notin DOMAIN orders
  BY NextFillsSound, OrdersAreSent DEF StoriesSound, FillsSound, OrderIds, Foreign
<1>1. ASSUME NEW r \in Requests, CreateOrder(r) PROVE ReportsInOrder' /\ EndedAtVenue'
  <2>1. /\ nextOrderId \notin DOMAIN orders /\ reports' = reports
        /\ DOMAIN orders' = DOMAIN orders \cup {nextOrderId}
        /\ \A o \in DOMAIN orders : orders'[o] = orders[o] /\ venue'[o] = venue[o]
        /\ orders'[nextOrderId] = NewOrder(r)
    BY <1>0, <1>1 DEF CreateOrder, Emplace, TypeOK, OrderIds
  <2>2. NewOrder(r).status \notin Terminal
    BY DEF NewOrder, Terminal
  <2>3. EndedAtVenue'
    BY <1>0, <2>1, <2>2 DEF StoriesSound, EndedAtVenue
  <2>4. \A k \in DOMAIN reports : reports[k].id # Foreign => reports[k].id \in DOMAIN orders
    BY <1>0 DEF FillsSound, ReportsFindTheirOrder
  <2>5. QED
    BY <2>1, <2>3, <2>4 DEF StoriesSound, ReportsInOrder
<1>2. ASSUME NEW r \in Requests, RefuseOrder(r) PROVE ReportsInOrder' /\ EndedAtVenue'
  BY <1>2, OldReportsInOrder DEF RefuseOrder
<1>3. ASSUME NEW id \in DOMAIN orders, Cancel(id) PROVE ReportsInOrder' /\ EndedAtVenue'
  <2>1. \A o \in DOMAIN venue : venue'[o].state = venue[o].state
    BY <1>0, <1>3 DEF Cancel, TypeOK, VenueOrders
  <2>2. QED
    BY <1>0, <1>3, <2>1, OldReportsInOrder DEF Cancel, execution
<1>4. ASSUME NEW k \in DOMAIN reports, Deliver(k) PROVE ReportsInOrder' /\ EndedAtVenue'
  BY <1>0, <1>4, DeliverInOrder
<1>5. ASSUME NEW id \in DOMAIN venue, VenueAccept(id) \/ VenueReject(id) \/ VenueCancel(id)
      PROVE  ReportsInOrder' /\ EndedAtVenue'
  <2>1. /\ venue[id].filled \in Nat
        /\ venue[id].state = "sent" => venue[id].filled = 0
        /\ venue[id].state # "done"
    BY <1>0, <1>5 DEF FillsSound, SentUnfilled, TypeOK, VenueOrders, VenueAccept,
                      VenueReject, VenueCancel
  <2>2. \/ VenueReports(id, "live", venue[id].filled, "New", "New", orders[id].price)
        \/ VenueReports(id, "done", venue[id].filled, "Reject", "Rejected", orders[id].price)
        \/ VenueReports(id, "done", venue[id].filled, "Cancel", "Cancelled", orders[id].price)
    BY <1>5, <2>1 DEF VenueAccept, VenueReject, VenueCancel
  <2>3. QED
    BY <2>1, <2>2, VenueReportsInOrder DEF ExecTypes, Statuses, Terminal
<1>6. ASSUME NEW id \in DOMAIN venue, NEW q \in 1..orders[id].quantity, VenueFill(id, q)
      PROVE  ReportsInOrder' /\ EndedAtVenue'
  <2> DEFINE filled == venue[id].filled + q
             full == filled = orders[id].quantity
             state == IF full THEN "done" ELSE "live"
             status == IF full THEN "Filled" ELSE "PartiallyFilled"
  <2>1. /\ filled \in Nat /\ venue[id].filled <= filled /\ venue[id].state # "done"
    BY <1>0, <1>6 DEF VenueFill, TypeOK, VenueOrders, Orders
  <2>2. /\ state \in {"live", "done"}
        /\ status \in Statuses
        /\ status \in Terminal => state = "done"
        /\ "Trade" \in ExecTypes
    BY DEF Statuses, ExecTypes, Terminal
  <2>3. VenueReports(id, state, filled, "Trade", status, orders[id].price)
    BY <1>6 DEF VenueFill
  <2> HIDE DEF filled, state, status
  <2>4. QED
    BY <2>1, <2>2, <2>3, VenueReportsInOrder
<1>7. ASSUME NEW k \in DOMAIN reports, LoseReport(k) PROVE ReportsInOrder' /\ EndedAtVenue'
  BY <1>7, OldReportsInOrder DEF LoseReport, Fault, execution
<1>8. ASSUME NEW k \in DOMAIN reports, RepeatReport(k) PROVE ReportsInOrder' /\ EndedAtVenue'
  BY <1>8 DEF RepeatReport, Fault, InOrderDelivery
<1>9. ASSUME NEW i \in Instruments, NEW s \in Sides, ForeignReport(i, s)
      PROVE  ReportsInOrder' /\ EndedAtVenue'
  <2>1. \E r \in Reports : r.id = Foreign /\ reports' = Append(reports, r)
    BY <1>9 DEF ForeignReport, Reports, Foreign, ExecTypes, Statuses
  <2>2. QED
    BY <1>9, <2>1, OldReportsInOrder DEF ForeignReport, Fault, execution
<1>10. CASE UNCHANGED vars
  BY <1>10, OldReportsInOrder DEF vars
<1>11. QED
  BY <1>1, <1>2, <1>3, <1>4, <1>5, <1>6, <1>7, <1>8, <1>9, <1>10 DEF Next, Venue

(* What applying the first report does to its order and to the positions.  *)
LEMMA DeliverEffect ==
  ASSUME StoriesSound, InOrderDelivery, NEW k \in DOMAIN reports, Deliver(k),
         reports[k].id \in DOMAIN orders
  PROVE  LET id == reports[k].id
             executed == reports[k].filled - orders[id].filled
         IN  /\ orders'[id].filled = reports[k].filled
             /\ executed \in Nat
             /\ reports[k].filled <= orders[id].quantity
             /\ orders[id].status \notin Terminal
             /\ \A o \in DOMAIN orders : o # id => orders'[o] = orders[o]
             /\ \A i \in Instruments :
                  positions'[i] # positions[i] =>
                    /\ i = orders[id].instrument
                    /\ executed > 0
                    /\ positions'[i] = ApplyTrade(positions[i], reports[k].side,
                                                  reports[k].price, executed)
<1> DEFINE id == reports[k].id
           executed == reports[k].filled - orders[id].filled
<1>1. /\ TypeOK /\ FillsSound /\ reports[k] \in Reports /\ id # Foreign
      /\ orders \in [DOMAIN orders -> Orders] /\ orders[id] \in Orders
      /\ venue[id] \in VenueOrders
  BY OrdersAreSent DEF StoriesSound, FillsSound, TypeOK, OrderIds, Foreign
<1>2. /\ orders[id].filled <= reports[k].filled
      /\ orders[id].status \notin Terminal
      /\ reports[k].filled <= venue[id].filled
      /\ venue[id].filled <= orders[id].quantity
      /\ reports[k].instrument = orders[id].instrument
  BY <1>1 DEF StoriesSound, ReportsInOrder, FillsSound, ReportedWithinVenue,
              FilledNeverAhead, ReportsFindTheirOrder
<1>3. executed \in Nat /\ reports[k].filled <= orders[id].quantity
  BY <1>1, <1>2 DEF Orders, Reports, VenueOrders
<1>4. orders' = [orders EXCEPT ![id].status = reports[k].status,
                               ![id].filled = reports[k].filled]
  BY DEF Deliver, ApplyExecution
<1>5. /\ orders'[id].filled = reports[k].filled
      /\ \A o \in DOMAIN orders : o # id => orders'[o] = orders[o]
  BY <1>1, <1>4 DEF Orders
<1>6. positions' = IF reports[k].execType = "Trade" /\ executed > 0
                   THEN [positions EXCEPT ![reports[k].instrument] =
                           ApplyTrade(@, reports[k].side, reports[k].price, executed)]
                   ELSE positions
  BY DEF Deliver, ApplyExecution
<1>7. ASSUME NEW i \in Instruments, positions'[i] # positions[i]
      PROVE  /\ i = orders[id].instrument
             /\ executed > 0
             /\ positions'[i] = ApplyTrade(positions[i], reports[k].side,
                                           reports[k].price, executed)
  BY <1>1, <1>2, <1>6, <1>7 DEF TypeOK
<1>8. QED
  BY <1>2, <1>3, <1>5, <1>7

(* Every other step leaves the orders there were and all positions alone.  *)
LEMMA OnlyDeliveryMoves ==
  ASSUME TypeOK, [Next]_vars
  PROVE  \/ \E k \in DOMAIN reports : Deliver(k) /\ reports[k].id \in DOMAIN orders
         \/ /\ positions' = positions
            /\ \A o \in DOMAIN orders : orders'[o] = orders[o]
<1>1. ASSUME NEW r \in Requests, CreateOrder(r)
      PROVE  /\ positions' = positions
             /\ \A o \in DOMAIN orders : orders'[o] = orders[o]
  BY <1>1 DEF CreateOrder, Emplace
<1>2. ASSUME NEW k \in DOMAIN reports, Deliver(k), reports[k].id \notin DOMAIN orders
      PROVE  positions' = positions /\ orders' = orders
  BY <1>2 DEF Deliver, ApplyExecution, execution
<1>3. QED
  BY <1>1, <1>2 DEF Next, Venue, RefuseOrder, Cancel, VenueAccept, VenueReject, VenueCancel,
                    VenueFill, VenueReports, LoseReport, RepeatReport, ForeignReport, Fault,
                    execution, vars

(* Delivered in order -- even with losses -- reports only add fills, and   *)
(* an order that ended stays ended as it did.                              *)
THEOREM OrdersOnlyAdvance ==
  ASSUME InOrderDelivery
  PROVE  Spec => OrderNeverRegresses
<1> DEFINE Advance == \A id \in DOMAIN orders :
                        /\ orders'[id].filled >= orders[id].filled
                        /\ orders[id].status \in Terminal =>
                             orders'[id].status = orders[id].status
<1>1. StoriesSound /\ [Next]_vars => [Advance]_vars
  <2> SUFFICES ASSUME StoriesSound, [Next]_vars PROVE Advance
    OBVIOUS
  <2>1. TypeOK /\ \A o \in DOMAIN orders : orders[o].filled \in Nat
    BY DEF StoriesSound, FillsSound, TypeOK, Orders
  <2>2. CASE \A o \in DOMAIN orders : orders'[o] = orders[o]
    BY <2>1, <2>2
  <2>3. ASSUME NEW k \in DOMAIN reports, Deliver(k), reports[k].id \in DOMAIN orders
        PROVE  Advance
    <3> DEFINE id == reports[k].id
    <3>1. /\ orders'[id].filled = reports[k].filled
          /\ reports[k].filled - orders[id].filled \in Nat
          /\ orders[id].status \notin Terminal
          /\ \A o \in DOMAIN orders : o # id => orders'[o] = orders[o]
      BY <2>3, DeliverEffect
    <3>2. reports[k] \in Reports
      BY <2>1 DEF TypeOK
    <3>3. reports[k].filled \in Nat
      BY <3>2 DEF Reports
    <3>4. QED
      BY <2>1, <3>1, <3>3
  <2>4. QED
    BY <2>1, <2>2, <2>3, OnlyDeliveryMoves
<1>2. StoriesSound /\ [Next]_vars => StoriesSound'
  BY NextStoriesSound
<1>3. QED
  BY <1>1, <1>2, InitStoriesSound, PTL DEF Spec, OrderNeverRegresses

(* Delivered in order, no report moves a position by more than the order   *)
(* it is about still had open: nothing is counted twice.                   *)
THEOREM PositionsMoveByFills ==
  ASSUME InOrderDelivery
  PROVE  Spec => PositionMovesByOpenQuantity
<1> DEFINE Moves == \A i \in Instruments :
                      positions'[i].quantity # positions[i].quantity =>
                        \E id \in DOMAIN orders :
                          /\ orders[id].instrument = i
                          /\ orders[id].status \notin Terminal
                          /\ Magnitude(positions'[i].quantity - positions[i].quantity)
                               <= orders[id].quantity - orders[id].filled
<1>1. StoriesSound /\ [Next]_vars => [Moves]_vars
  <2> SUFFICES ASSUME StoriesSound, [Next]_vars,
                      NEW i \in Instruments,
                      positions'[i].quantity # positions[i].quantity
               PROVE  \E id \in DOMAIN orders :
                        /\ orders[id].instrument = i
                        /\ orders[id].status \notin Terminal
                        /\ Magnitude(positions'[i].quantity - positions[i].quantity)
                             <= orders[id].quantity - orders[id].filled
    OBVIOUS
  <2>1. TypeOK
    BY DEF StoriesSound, FillsSound
  <2>2. PICK k \in DOMAIN reports : Deliver(k) /\ reports[k].id \in DOMAIN orders
    BY <2>1, OnlyDeliveryMoves
  <2> DEFINE id == reports[k].id
             executed == reports[k].filled - orders[id].filled
             signed == Signed(reports[k].side, executed)
  <2>3. /\ executed \in Nat /\ executed > 0
        /\ reports[k].filled <= orders[id].quantity
        /\ orders[id].status \notin Terminal
        /\ i = orders[id].instrument
        /\ positions'[i] = ApplyTrade(positions[i], reports[k].side,
                                      reports[k].price, executed)
    BY <2>2, DeliverEffect
  <2>4. /\ reports[k] \in Reports /\ positions[i] \in PositionType /\ orders[id] \in Orders
    BY <2>1, <2>2 DEF TypeOK
  <2>5. positions'[i].quantity = positions[i].quantity + signed
    BY <2>3 DEF ApplyTrade
  <2>6. signed \in Int /\ Magnitude(signed) = executed
    BY <2>3, <2>4, SignedType DEF Reports, Magnitude
  <2>7. positions'[i].quantity - positions[i].quantity = signed
    BY <2>4, <2>5, <2>6 DEF PositionType
  <2>8. executed <= orders[id].quantity - orders[id].filled
    BY <2>3, <2>4 DEF Orders, Reports
  <2>9. QED
    BY <2>2, <2>3, <2>6, <2>7, <2>8
<1>2. StoriesSound /\ [Next]_vars => StoriesSound'
  BY NextStoriesSound
<1>3. QED
  BY <1>1, <1>2, InitStoriesSound, PTL DEF Spec, PositionMovesByOpenQuantity
-----------------------------------------------------------------------------
(* Only orders and executions at a positive price exist, and every         *)
(* position is consistent.                                                 *)
PricesPositive ==
  /\ \A id \in DOMAIN orders : orders[id].price > 0
  /\ \A k \in DOMAIN reports : reports[k].price > 0

PositionsConsistent ==
  /\ TypeOK
  /\ PricesPositive
  /\ \A i \in Instruments : Consistent(positions[i])

(* A report at the limit price of its order has a positive price.          *)
LEMMA VenueReportsPositive ==
  ASSUME PositionsConsistent, NEW id \in DOMAIN orders, NEW state, NEW filled \in Nat,
         NEW execType \in ExecTypes, NEW status \in Statuses,
         VenueReports(id, state, filled, execType, status, orders[id].price)
  PROVE  PricesPositive' /\ positions' = positions
<1> DEFINE new == Report(id, execType, status, orders[id].price, filled)
<1>1. TypeOK /\ new \in Reports /\ new.price = orders[id].price
  BY ReportType DEF PositionsConsistent, Report
<1>2. /\ reports' = Append(reports, new) /\ orders' = orders /\ positions' = positions
  BY DEF VenueReports, execution
<1>3. \A k \in DOMAIN reports' : reports'[k].price > 0
  BY <1>1, <1>2, AppendedReport DEF PositionsConsistent, PricesPositive
<1>4. QED
  BY <1>2, <1>3 DEF PositionsConsistent, PricesPositive

(* Every step keeps positions consistent: only a trade moves one.          *)
LEMMA NextConsistent == PositionsConsistent /\ [Next]_vars => PositionsConsistent'
<1> SUFFICES ASSUME PositionsConsistent, [Next]_vars
             PROVE  PricesPositive' /\ \A i \in Instruments : Consistent(positions'[i])
  BY NextTypeOK DEF PositionsConsistent
<1>0. /\ TypeOK /\ TypeOK' /\ DOMAIN orders = DOMAIN venue
      /\ \A i \in Instruments : Consistent(positions[i])
      /\ \A k \in DOMAIN reports : reports[k].price > 0
      /\ \A id \in DOMAIN orders : orders[id].price > 0
  BY NextTypeOK, OrdersAreSent DEF PositionsConsistent, PricesPositive
<1>1. ASSUME NEW r \in Requests, CreateOrder(r)
      PROVE  PricesPositive' /\ positions' = positions
  <2>1. /\ DOMAIN orders' = DOMAIN orders \cup {nextOrderId}
        /\ \A o \in DOMAIN orders : orders'[o] = orders[o]
        /\ nextOrderId \in DOMAIN orders \/ orders'[nextOrderId] = NewOrder(r)
        /\ reports' = reports /\ positions' = positions
    BY <1>0, <1>1 DEF CreateOrder, Emplace
  <2>2. NewOrder(r).price > 0
    BY <1>1 DEF CreateOrder, Valid, NewOrder
  <2>3. QED
    BY <1>0, <2>1, <2>2 DEF PricesPositive
<1>2. ASSUME NEW r \in Requests, RefuseOrder(r)
      PROVE  PricesPositive' /\ positions' = positions
  BY <1>0, <1>2 DEF RefuseOrder, PricesPositive
<1>3. ASSUME NEW id \in DOMAIN orders, Cancel(id)
      PROVE  PricesPositive' /\ positions' = positions
  BY <1>0, <1>3 DEF Cancel, execution, PricesPositive
<1>4. ASSUME NEW k \in DOMAIN reports, Deliver(k)
      PROVE  PricesPositive' /\ \A i \in Instruments : Consistent(positions'[i])
  <2> DEFINE id == reports[k].id
             executed == reports[k].filled - orders[id].filled
  <2>1. /\ reports[k] \in Reports
        /\ \A j \in DOMAIN reports' : \E m \in DOMAIN reports : reports'[j] = reports[m]
    BY <1>0, <1>4, RemovedReport DEF Deliver, TypeOK
  <2>2. CASE id \notin DOMAIN orders
    BY <1>0, <1>4, <2>1, <2>2 DEF Deliver, ApplyExecution, execution, PricesPositive
  <2>3. CASE id \in DOMAIN orders
    <3>1. orders' = [orders EXCEPT ![id].status = reports[k].status,
                                   ![id].filled = reports[k].filled]
      BY <1>4, <2>3 DEF Deliver, ApplyExecution
    <3>2. orders \in [DOMAIN orders -> Orders]
      BY <1>0 DEF TypeOK
    <3>3. DOMAIN orders' = DOMAIN orders
          /\ \A o \in DOMAIN orders : orders'[o].price = orders[o].price
      BY <2>3, <3>1, <3>2 DEF Orders
    <3>4. PricesPositive'
      BY <1>0, <2>1, <3>3 DEF PricesPositive
    <3>5. CASE reports[k].execType = "Trade" /\ executed > 0
      <4>1. /\ positions' = [positions EXCEPT ![reports[k].instrument] =
                               ApplyTrade(@, reports[k].side, reports[k].price, executed)]
        BY <1>4, <2>3, <3>5 DEF Deliver, ApplyExecution
      <4>2. /\ executed \in Nat \ {0} /\ reports[k].price \in Nat \ {0}
            /\ reports[k].side \in Sides /\ reports[k].instrument \in Instruments
        <5>1. reports[k].filled \in Nat /\ orders[id].filled \in Nat
          BY <2>1, <2>3, <3>2 DEF Reports, Orders
        <5>2. QED
          BY <1>0, <1>4, <2>1, <3>5, <5>1 DEF Reports
      <4>3. Consistent(ApplyTrade(positions[reports[k].instrument], reports[k].side,
                                  reports[k].price, executed))
        BY <1>0, <4>2, ApplyTradeConsistent
      <4>4. ASSUME NEW i \in Instruments PROVE Consistent(positions'[i])
        BY <1>0, <4>1, <4>2, <4>3 DEF TypeOK
      <4>5. QED
        BY <3>4, <4>4
    <3>6. CASE ~(reports[k].execType = "Trade" /\ executed > 0)
      BY <1>0, <1>4, <2>3, <3>4, <3>6 DEF Deliver, ApplyExecution
    <3>7. QED
      BY <3>5, <3>6
  <2>4. QED
    BY <2>2, <2>3
<1>5. ASSUME NEW id \in DOMAIN venue,
             \/ VenueAccept(id) \/ VenueReject(id) \/ VenueCancel(id)
             \/ \E q \in 1..orders[id].quantity : VenueFill(id, q)
      PROVE  PricesPositive' /\ positions' = positions
  <2>1. id \in DOMAIN orders /\ venue[id].filled \in Nat
    BY <1>0, <1>5 DEF TypeOK, VenueOrders
  <2>2. PICK state \in {"live", "done"}, filled \in Nat, execType \in ExecTypes,
             status \in Statuses :
          VenueReports(id, state, filled, execType, status, orders[id].price)
    <3>1. CASE VenueAccept(id) \/ VenueReject(id) \/ VenueCancel(id)
      BY <2>1, <3>1 DEF VenueAccept, VenueReject, VenueCancel, ExecTypes, Statuses
    <3>2. ASSUME NEW q \in 1..orders[id].quantity, VenueFill(id, q)
          PROVE  \E state \in {"live", "done"}, filled \in Nat, execType \in ExecTypes,
                    status \in Statuses :
                   VenueReports(id, state, filled, execType, status, orders[id].price)
      <4>1. venue[id].filled + q \in Nat
        BY <2>1
      <4>2. QED
        BY <3>2, <4>1 DEF VenueFill, ExecTypes, Statuses
    <3>3. QED
      BY <1>5, <3>1, <3>2
  <2>3. QED
    BY <2>1, <2>2, VenueReportsPositive
<1>6. ASSUME NEW k \in DOMAIN reports, LoseReport(k)
      PROVE  PricesPositive' /\ positions' = positions
  <2>1. \A j \in DOMAIN reports' : \E m \in DOMAIN reports : reports'[j] = reports[m]
    BY <1>0, <1>6, RemovedReport DEF LoseReport
  <2>2. QED
    BY <1>0, <1>6, <2>1 DEF LoseReport, Fault, execution, PricesPositive
<1>7. ASSUME NEW r \in Reports, r.price > 0, reports' = Append(reports, r),
             UNCHANGED execution
      PROVE  PricesPositive' /\ positions' = positions
  BY <1>0, <1>7, AppendedReport DEF execution, PricesPositive
<1>8. ASSUME NEW k \in DOMAIN reports, RepeatReport(k)
      PROVE  PricesPositive' /\ positions' = positions
  <2>1. reports[k] \in Reports
    BY <1>0 DEF TypeOK
  <2>2. QED
    BY <1>0, <1>7, <1>8, <2>1 DEF RepeatReport, Fault
<1>9. ASSUME NEW i \in Instruments, NEW s \in Sides, ForeignReport(i, s)
      PROVE  PricesPositive' /\ positions' = positions
  <2>1. \E r \in Reports : r.price > 0 /\ reports' = Append(reports, r)
    BY <1>9 DEF ForeignReport, Reports, Foreign, ExecTypes, Statuses
  <2>2. QED
    BY <1>7, <1>9, <2>1 DEF ForeignReport, Fault
<1>10. CASE UNCHANGED vars
  BY <1>0, <1>10 DEF vars, PricesPositive
<1>11. QED
  BY <1>0, <1>1, <1>2, <1>3, <1>4, <1>5, <1>6, <1>8, <1>9, <1>10 DEF Next, Venue

(* Whatever happens to the reports, a position is flat exactly when it has *)
(* no entry price: no sequence of executions leaves a stale price behind   *)
(* or an open position without one.                                        *)
THEOREM AverageIffOpen == Spec => []AveragePriceIffOpen
<1>1. Init => PositionsConsistent
  BY InitTypeOK DEF Init, PositionsConsistent, PricesPositive, Consistent, PositionType, Flat
<1>2. PositionsConsistent => AveragePriceIffOpen
  BY DEF PositionsConsistent, AveragePriceIffOpen, Consistent
<1>3. QED
  BY <1>1, <1>2, NextConsistent, PTL DEF Spec
-----------------------------------------------------------------------------
(* The reports under way about an order of ours tell its story in order.   *)
THEOREM StoriesInOrder ==
  ASSUME InOrderDelivery
  PROVE  Spec => []ReportsInOrder
<1>1. StoriesSound => ReportsInOrder
  BY DEF StoriesSound
<1>2. StoriesSound /\ [Next]_vars => StoriesSound'
  BY NextStoriesSound
<1>3. QED
  BY <1>1, <1>2, InitStoriesSound, PTL DEF Spec

-----------------------------------------------------------------------------
(* Reports that are not lost either: what remains of the faults are the    *)
(* reports about orders of another session.                                *)
FaithfulDelivery == InOrderDelivery /\ "lose" \notin Faults

(* What the venue executed of an order is known or is on its way.          *)
VenueReported ==
  \A id \in DOMAIN orders :
    \/ orders[id].filled = venue[id].filled
    \/ \E k \in DOMAIN reports : reports[k].id = id /\ reports[k].filled = venue[id].filled

(* A report that is not of a trade says nothing new of the fills: it       *)
(* repeats what the order knows or what an earlier report says.            *)
OnlyTradesFill ==
  \A k \in DOMAIN reports :
    reports[k].id # Foreign /\ reports[k].execType # "Trade" =>
      \/ orders[reports[k].id].filled = reports[k].filled
      \/ \E j \in 1..(k - 1) : /\ reports[j].id = reports[k].id
                               /\ reports[j].filled = reports[k].filled

(* Inductive when every report arrives, once and in its turn.              *)
FillsAccounted ==
  /\ StoriesSound
  /\ VenueReported
  /\ OnlyTradesFill
  /\ PositionMatchesFills

OrdersOf(i) == {id \in DOMAIN orders : orders[id].instrument = i}

(* There are finitely many orders, and each adds an integer to the sums.   *)
LEMMA FillsAreIntegers ==
  ASSUME TypeOK, NEW i
  PROVE  /\ IsFiniteSet(DOMAIN orders)
         /\ IsFiniteSet(OrdersOf(i)) /\ OrdersOf(i) \subseteq DOMAIN orders
         /\ \A id \in DOMAIN orders : /\ Fills(orders)[id] \in Int
                                      /\ Fills(venue)[id] \in Int
                                      /\ Remaining[id] \in Int
<1>1. IsFiniteSet(DOMAIN orders)
  BY FS_Interval DEF TypeOK, OrderIds
<1>2. OrdersOf(i) \subseteq DOMAIN orders
  BY DEF OrdersOf
<1>3. ASSUME NEW id \in DOMAIN orders
      PROVE  Fills(orders)[id] \in Int /\ Fills(venue)[id] \in Int /\ Remaining[id] \in Int
  <2>1. /\ orders[id].side \in Sides /\ orders[id].filled \in Int
        /\ orders[id].quantity \in Int /\ venue[id].filled \in Int
    BY <1>3 DEF TypeOK, Orders, VenueOrders
  <2>2. QED
    BY <2>1, SignedType DEF Fills, Remaining
<1>4. QED
  BY <1>1, <1>2, <1>3, FS_Subset

(* A new order has no fills yet and changes no sum of fills.               *)
LEMMA CreateOrderFills ==
  ASSUME TypeOK, NEW r \in Requests, CreateOrder(r), NEW i
  PROVE  SignedFills(i, orders)' = SignedFills(i, orders)
<1> DEFINE id == nextOrderId
<1>0. /\ SignedFills(i, orders) = SumFunctionOnSet(Fills(orders), OrdersOf(i))
      /\ SignedFills(i, orders)' = SumFunctionOnSet(Fills(orders)', OrdersOf(i)')
  BY DEF SignedFills, OrdersOf
<1>1. /\ id \notin DOMAIN orders
      /\ DOMAIN orders' = DOMAIN orders \cup {id}
      /\ \A o \in DOMAIN orders : orders'[o] = orders[o]
      /\ orders'[id] = NewOrder(r)
  BY DEF CreateOrder, Emplace, TypeOK, OrderIds
<1>2. Fills(orders)'[id] = 0
  BY <1>1 DEF Fills, NewOrder, Signed
<1>3. \A o \in OrdersOf(i) : Fills(orders)'[o] = Fills(orders)[o]
  BY <1>1 DEF Fills, OrdersOf
<1>4. IsFiniteSet(OrdersOf(i)) /\ \A o \in OrdersOf(i) : Fills(orders)[o] \in Int
  BY FillsAreIntegers
<1>5. SumFunctionOnSet(Fills(orders)', OrdersOf(i)) = SumFunctionOnSet(Fills(orders), OrdersOf(i))
  BY <1>3, <1>4, SumAgrees
<1>6. CASE OrdersOf(i)' = OrdersOf(i)
  BY <1>0, <1>5, <1>6
<1>7. CASE OrdersOf(i)' = OrdersOf(i) \cup {id}
  <2>1. id \notin OrdersOf(i)
    BY <1>1 DEF OrdersOf
  <2>2. \A o \in OrdersOf(i) \cup {id} : Fills(orders)'[o] \in Int
    BY <1>2, <1>3, <1>4
  <2>3. SumFunctionOnSet(Fills(orders)', OrdersOf(i) \cup {id})
          = Fills(orders)'[id] + SumFunctionOnSet(Fills(orders)', OrdersOf(i))
    BY <1>4, <2>1, <2>2, SumInsert
  <2>4. SumFunctionOnSet(Fills(orders), OrdersOf(i)) \in Int
    BY <1>4, SumSplits
  <2>5. QED
    BY <1>0, <1>2, <1>5, <1>7, <2>3, <2>4
<1>8. OrdersOf(i)' = OrdersOf(i) \/ OrdersOf(i)' = OrdersOf(i) \cup {id}
  BY <1>1 DEF OrdersOf
<1>9. QED
  BY <1>6, <1>7, <1>8

(* Applying a report changes the sum of the fills of its instrument by     *)
(* what the report adds, and no other sum.                                 *)
LEMMA DeliverFills ==
  ASSUME StoriesSound, InOrderDelivery, NEW k \in DOMAIN reports, Deliver(k),
         reports[k].id \in DOMAIN orders, NEW i
  PROVE  LET id == reports[k].id
             executed == reports[k].filled - orders[id].filled
         IN  SignedFills(i, orders)' =
               IF orders[id].instrument = i
               THEN SignedFills(i, orders) + Signed(orders[id].side, executed)
               ELSE SignedFills(i, orders)
<1> DEFINE id == reports[k].id
           executed == reports[k].filled - orders[id].filled
           old == SumFunctionOnSet(Fills(orders), OrdersOf(i))
<1>0. /\ SignedFills(i, orders) = old
      /\ SignedFills(i, orders)' = SumFunctionOnSet(Fills(orders)', OrdersOf(i)')
  BY DEF SignedFills, OrdersOf
<1>1. /\ TypeOK /\ orders \in [DOMAIN orders -> Orders] /\ orders[id] \in Orders
      /\ reports[k] \in Reports
  BY DEF StoriesSound, FillsSound, TypeOK
<1>2. orders' = [orders EXCEPT ![id].status = reports[k].status,
                               ![id].filled = reports[k].filled]
  BY DEF Deliver, ApplyExecution
<1>3. /\ DOMAIN orders' = DOMAIN orders
      /\ \A o \in DOMAIN orders : o # id => orders'[o] = orders[o]
      /\ \A o \in DOMAIN orders : /\ orders'[o].instrument = orders[o].instrument
                                  /\ orders'[o].side = orders[o].side
      /\ orders'[id].filled = reports[k].filled
  BY <1>1, <1>2 DEF Orders
<1>4. OrdersOf(i)' = OrdersOf(i)
  BY <1>3 DEF OrdersOf
<1>5. /\ \A o \in OrdersOf(i) \ {id} : Fills(orders)'[o] = Fills(orders)[o]
      /\ Fills(orders)'[id] = Signed(orders[id].side, reports[k].filled)
      /\ Fills(orders)[id] = Signed(orders[id].side, orders[id].filled)
  BY <1>3 DEF Fills, OrdersOf
<1>6. /\ orders[id].side \in Sides /\ orders[id].filled \in Int
      /\ reports[k].filled \in Int
  BY <1>1 DEF Orders, Reports
<1>7. /\ Fills(orders)'[id] - Fills(orders)[id] = Signed(orders[id].side, executed)
      /\ Fills(orders)'[id] \in Int /\ Fills(orders)[id] \in Int
  BY <1>5, <1>6 DEF Signed
<1>8. /\ IsFiniteSet(OrdersOf(i))
      /\ \A o \in OrdersOf(i) : Fills(orders)[o] \in Int
  BY <1>1, FillsAreIntegers
<1>9. old \in Int
  BY <1>8, SumSplits
<1>10. CASE id \in OrdersOf(i)
  <2>1. SumFunctionOnSet(Fills(orders)', OrdersOf(i))
          = old - Fills(orders)[id] + Fills(orders)'[id]
    BY <1>5, <1>7, <1>8, <1>10, SumChange
  <2>2. orders[id].instrument = i
    BY <1>10 DEF OrdersOf
  <2> HIDE DEF old, executed
  <2>3. SumFunctionOnSet(Fills(orders)', OrdersOf(i)) = old + Signed(orders[id].side, executed)
    BY <1>7, <1>9, <2>1
  <2>4. QED
    BY <1>0, <1>4, <2>2, <2>3 DEF old, executed
<1>11. CASE id \notin OrdersOf(i)
  <2>1. SumFunctionOnSet(Fills(orders)', OrdersOf(i)) = old
    BY <1>5, <1>8, <1>11, SumAgrees
  <2>2. orders[id].instrument # i
    BY <1>11 DEF OrdersOf
  <2>3. QED
    BY <1>0, <1>4, <2>1, <2>2
<1>12. QED
  BY <1>10, <1>11

(* So position and orders move together.                                   *)
LEMMA DeliverMatches ==
  ASSUME FillsAccounted, InOrderDelivery, NEW k \in DOMAIN reports, Deliver(k),
         reports[k].id \in DOMAIN orders
  PROVE  PositionMatchesFills'
<1> DEFINE id == reports[k].id
           executed == reports[k].filled - orders[id].filled
           signed == Signed(orders[id].side, executed)
<1>1. /\ TypeOK /\ StoriesSound /\ FillsSound /\ k = 1 /\ id # Foreign
      /\ orders[id] \in Orders /\ reports[k] \in Reports
  BY OrdersAreSent DEF FillsAccounted, StoriesSound, FillsSound, TypeOK, Deliver,
                       InOrderDelivery, OrderIds, Foreign
<1>2. /\ reports[k].instrument = orders[id].instrument
      /\ reports[k].side = orders[id].side
  BY <1>1 DEF FillsSound, ReportsFindTheirOrder
<1>3. executed \in Nat
  BY <1>1, DeliverEffect
<1>4. reports[k].execType # "Trade" => executed = 0
  <2>1. reports[k].execType # "Trade" => orders[id].filled = reports[k].filled
    BY <1>1 DEF FillsAccounted, OnlyTradesFill
  <2>2. QED
    BY <1>1, <2>1 DEF Orders
<1>5. signed \in Int /\ (executed = 0 => signed = 0)
  BY <1>1, <1>3, SignedType DEF Orders, Signed
<1>6. positions' = IF reports[k].execType = "Trade" /\ executed > 0
                   THEN [positions EXCEPT ![reports[k].instrument] =
                           ApplyTrade(@, reports[k].side, reports[k].price, executed)]
                   ELSE positions
  BY DEF Deliver, ApplyExecution
<1>7. SUFFICES ASSUME NEW i \in Instruments
               PROVE  positions'[i].quantity = SignedFills(i, orders)'
  BY DEF PositionMatchesFills
<1>8. /\ positions[i] \in PositionType
      /\ positions[i].quantity \in Int
      /\ positions[i].quantity = SignedFills(i, orders)
  BY <1>1 DEF TypeOK, PositionType, FillsAccounted, PositionMatchesFills
<1>9. positions'[i].quantity = IF orders[id].instrument = i
                               THEN positions[i].quantity + signed
                               ELSE positions[i].quantity
  <2>1. CASE reports[k].execType = "Trade" /\ executed > 0
    <3>1. positions' = [positions EXCEPT ![orders[id].instrument] =
                          ApplyTrade(@, orders[id].side, reports[k].price, executed)]
      BY <1>2, <1>6, <2>1
    <3>2. executed # 0
      BY <1>3, <2>1
    <3>3. CASE orders[id].instrument = i
      <4>1. positions'[i] = ApplyTrade(positions[i], orders[id].side, reports[k].price, executed)
        BY <1>1, <3>1, <3>3 DEF TypeOK
      <4>2. QED
        BY <3>2, <3>3, <4>1 DEF ApplyTrade
    <3>4. CASE orders[id].instrument # i
      BY <1>1, <3>1, <3>4 DEF TypeOK
    <3>5. QED
      BY <3>3, <3>4
  <2>2. CASE ~(reports[k].execType = "Trade" /\ executed > 0)
    <3>1. executed = 0
      BY <1>3, <1>4, <2>2
    <3>2. signed = 0 /\ positions' = positions
      BY <1>5, <1>6, <2>2, <3>1
    <3> HIDE DEF signed
    <3>3. QED
      BY <1>8, <3>2
  <2>3. QED
    BY <2>1, <2>2
<1>10. SignedFills(i, orders)' = IF orders[id].instrument = i
                                 THEN SignedFills(i, orders) + signed
                                 ELSE SignedFills(i, orders)
  BY <1>1, DeliverFills
<1>11. QED
  BY <1>8, <1>9, <1>10

(* A step that reports nothing, and leaves the fills of every order alone. *)
LEMMA NothingReported ==
  ASSUME FillsAccounted, reports' = reports,
         DOMAIN orders' = DOMAIN orders \/ DOMAIN orders' = DOMAIN orders \cup {nextOrderId},
         \A id \in DOMAIN orders : /\ orders'[id].filled = orders[id].filled
                                   /\ venue'[id].filled = venue[id].filled,
         nextOrderId \in DOMAIN orders' =>
           orders'[nextOrderId].filled = venue'[nextOrderId].filled
  PROVE  VenueReported' /\ OnlyTradesFill'
<1>1. VenueReported /\ OnlyTradesFill /\ ReportsFindTheirOrder
  BY DEF FillsAccounted, StoriesSound, FillsSound
<1>2. VenueReported'
  BY <1>1 DEF VenueReported
<1>3. OnlyTradesFill'
  BY <1>1 DEF OnlyTradesFill, ReportsFindTheirOrder
<1>4. QED
  BY <1>2, <1>3

(* A new report: of an order of another session, or of what the venue has  *)
(* executed of an order of ours by now.                                    *)
LEMMA OneMoreReported ==
  ASSUME FillsAccounted, NEW r \in Reports, reports' = Append(reports, r), orders' = orders,
         r.id # Foreign => r.id \in DOMAIN orders /\ venue'[r.id].filled = r.filled,
         r.id # Foreign /\ r.execType # "Trade" => venue[r.id].filled = r.filled,
         \A id \in DOMAIN orders : id # r.id => venue'[id].filled = venue[id].filled
  PROVE  VenueReported' /\ OnlyTradesFill'
<1> DEFINE last == Len(reports) + 1
<1>1. /\ TypeOK /\ VenueReported /\ OnlyTradesFill /\ Foreign \notin DOMAIN orders
  BY OrdersAreSent DEF FillsAccounted, StoriesSound, FillsSound, OrderIds, Foreign
<1>2. /\ reports'[last] = r
      /\ \A j \in DOMAIN reports : reports'[j] = reports[j]
      /\ DOMAIN reports' = DOMAIN reports \cup {last}
      /\ DOMAIN reports = 1..Len(reports) /\ Len(reports) \in Nat
  BY <1>1, AppendedReport
<1>3. ASSUME NEW id \in DOMAIN orders
      PROVE  \/ orders[id].filled = venue'[id].filled
             \/ \E k \in DOMAIN reports' : /\ reports'[k].id = id
                                           /\ reports'[k].filled = venue'[id].filled
  <2>1. CASE id = r.id
    BY <1>1, <1>2, <2>1
  <2>2. CASE id # r.id
    BY <1>1, <1>2, <2>2 DEF VenueReported
  <2>3. QED
    BY <2>1, <2>2
<1>4. ASSUME NEW k \in DOMAIN reports', reports'[k].id # Foreign, reports'[k].execType # "Trade"
      PROVE  \/ orders[reports'[k].id].filled = reports'[k].filled
             \/ \E j \in 1..(k - 1) : /\ reports'[j].id = reports'[k].id
                                      /\ reports'[j].filled = reports'[k].filled
  <2>1. CASE k = last
    <3>1. /\ reports'[k] = r /\ r.id \in DOMAIN orders /\ venue[r.id].filled = r.filled
      BY <1>2, <1>4, <2>1
    <3>2. \/ orders[r.id].filled = r.filled
          \/ \E j \in DOMAIN reports : reports[j].id = r.id /\ reports[j].filled = r.filled
      BY <1>1, <3>1 DEF VenueReported
    <3>3. \A j \in DOMAIN reports : j \in 1..(k - 1) /\ reports'[j] = reports[j]
      BY <1>2, <2>1
    <3>4. QED
      BY <3>1, <3>2, <3>3
  <2>2. CASE k \in DOMAIN reports
    <3>1. \A j \in 1..(k - 1) : reports'[j] = reports[j]
      BY <1>2, <2>2
    <3>2. reports'[k] = reports[k]
      BY <1>2, <2>2
    <3>3. QED
      BY <1>1, <1>4, <2>2, <3>1, <3>2 DEF OnlyTradesFill
  <2>3. QED
    BY <1>2, <2>1, <2>2
<1>5. QED
  BY <1>3, <1>4 DEF VenueReported, OnlyTradesFill

(* The first report applied: what it said is known now.                    *)
LEMMA FirstReported ==
  ASSUME FillsAccounted, InOrderDelivery, NEW k \in DOMAIN reports, Deliver(k)
  PROVE  VenueReported' /\ OnlyTradesFill'
<1> DEFINE first == reports[k]
<1>1. /\ TypeOK /\ StoriesSound /\ VenueReported /\ OnlyTradesFill /\ k = 1
      /\ Foreign \notin DOMAIN orders
      /\ reports' = RemoveAt(reports, k) /\ venue' = venue
  BY OrdersAreSent DEF FillsAccounted, StoriesSound, FillsSound, OrderIds, Foreign, Deliver,
                       InOrderDelivery
<1>2. /\ DOMAIN reports = 1..Len(reports) /\ Len(reports) \in Nat
      /\ DOMAIN reports' = 1..(Len(reports) - 1)
      /\ \A j \in DOMAIN reports' : j + 1 \in DOMAIN reports /\ reports'[j] = reports[j + 1]
      /\ first \in Reports
  BY <1>1, RemovedReport DEF TypeOK
<1>3. \A m \in DOMAIN reports : m # k => m - 1 \in DOMAIN reports' /\ reports'[m - 1] = reports[m]
  BY <1>1, <1>2
<1>4. /\ DOMAIN orders' = DOMAIN orders
      /\ \A o \in DOMAIN orders : o # first.id => orders'[o].filled = orders[o].filled
      /\ first.id \in DOMAIN orders => orders'[first.id].filled = first.filled
  <2>1. CASE first.id \notin DOMAIN orders
    BY <2>1 DEF Deliver, ApplyExecution, execution
  <2>2. CASE first.id \in DOMAIN orders
    <3>1. orders' = [orders EXCEPT ![first.id].status = first.status,
                                   ![first.id].filled = first.filled]
      BY <2>2 DEF Deliver, ApplyExecution
    <3>2. orders \in [DOMAIN orders -> Orders]
      BY <1>1 DEF TypeOK
    <3>3. QED
      BY <2>2, <3>1, <3>2 DEF Orders
  <2>3. QED
    BY <2>1, <2>2
<1>5. ASSUME first.id \in DOMAIN orders
      PROVE  /\ orders[first.id].filled \in Nat /\ first.filled \in Nat
             /\ venue[first.id].filled \in Nat
             /\ orders[first.id].filled <= first.filled
             /\ first.filled <= venue[first.id].filled
  <2>1. /\ orders[first.id].filled <= first.filled
        /\ first.filled <= venue[first.id].filled
    BY <1>1, <1>5 DEF StoriesSound, ReportsInOrder, FillsSound, ReportedWithinVenue
  <2>2. /\ orders[first.id] \in Orders /\ venue[first.id] \in VenueOrders
    BY <1>1, <1>5, OrdersAreSent DEF TypeOK
  <2>3. QED
    BY <1>2, <2>1, <2>2 DEF Orders, VenueOrders, Reports
<1>6. ASSUME NEW id \in DOMAIN orders
      PROVE  \/ orders'[id].filled = venue[id].filled
             \/ \E m \in DOMAIN reports' : /\ reports'[m].id = id
                                           /\ reports'[m].filled = venue[id].filled
  <2>1. CASE orders[id].filled = venue[id].filled
    <3>1. CASE id = first.id
      BY <1>4, <1>5, <2>1, <3>1
    <3>2. CASE id # first.id
      BY <1>4, <2>1, <3>2
    <3>3. QED
      BY <3>1, <3>2
  <2>2. ASSUME NEW m \in DOMAIN reports, reports[m].id = id,
               reports[m].filled = venue[id].filled
        PROVE  \/ orders'[id].filled = venue[id].filled
               \/ \E j \in DOMAIN reports' : /\ reports'[j].id = id
                                             /\ reports'[j].filled = venue[id].filled
    <3>1. CASE m = k
      BY <1>4, <2>2, <3>1
    <3>2. CASE m # k
      BY <1>3, <2>2, <3>2
    <3>3. QED
      BY <3>1, <3>2
  <2>3. QED
    BY <1>1, <2>1, <2>2 DEF VenueReported
<1>7. ASSUME NEW j \in DOMAIN reports', reports'[j].id # Foreign, reports'[j].execType # "Trade"
      PROVE  \/ orders'[reports'[j].id].filled = reports'[j].filled
             \/ \E n \in 1..(j - 1) : /\ reports'[n].id = reports'[j].id
                                      /\ reports'[n].filled = reports'[j].filled
  <2> DEFINE m == j + 1
             id == reports[m].id
  <2>1. /\ m \in DOMAIN reports /\ reports'[j] = reports[m] /\ m # k
        /\ id \in DOMAIN orders
    BY <1>1, <1>2, <1>7 DEF StoriesSound, FillsSound, ReportsFindTheirOrder
  <2>2. CASE orders[id].filled = reports[m].filled
    <3>1. CASE id = first.id
      <4>1. first.filled <= reports[m].filled
        <5>1. k \in 1..(m - 1)
          BY <1>1, <1>2, <2>1
        <5>2. QED
          BY <1>1, <1>7, <2>1, <3>1, <5>1 DEF StoriesSound, ReportsInOrder
      <4>2. first.filled = reports[m].filled
        BY <1>5, <2>1, <2>2, <3>1, <4>1
      <4>3. QED
        BY <1>4, <2>1, <3>1, <4>2
    <3>2. CASE id # first.id
      BY <1>4, <2>1, <2>2, <3>2
    <3>3. QED
      BY <3>1, <3>2
  <2>3. ASSUME NEW n \in 1..(m - 1), reports[n].id = id, reports[n].filled = reports[m].filled
        PROVE  \/ orders'[id].filled = reports[m].filled
               \/ \E i \in 1..(j - 1) : /\ reports'[i].id = id
                                        /\ reports'[i].filled = reports[m].filled
    <3>1. CASE n = k
      BY <1>4, <2>1, <2>3, <3>1
    <3>2. CASE n # k
      <4>1. n - 1 \in 1..(j - 1) /\ n \in DOMAIN reports
        BY <1>1, <1>2, <2>1, <2>3, <3>2
      <4>2. reports'[n - 1] = reports[n]
        BY <1>3, <3>2, <4>1
      <4>3. QED
        BY <2>3, <4>1, <4>2
    <3>3. QED
      BY <3>1, <3>2
  <2>4. QED
    BY <1>1, <1>7, <2>1, <2>2, <2>3 DEF OnlyTradesFill
<1>8. QED
  BY <1>1, <1>4, <1>6, <1>7 DEF VenueReported, OnlyTradesFill

(* Steps that change neither orders nor positions keep the sums.           *)
LEMMA SumsStay ==
  ASSUME PositionMatchesFills, orders' = orders, positions' = positions
  PROVE  PositionMatchesFills'
<1>1. ASSUME NEW i PROVE SignedFills(i, orders)' = SignedFills(i, orders)
  BY DEF SignedFills, Fills
<1>2. QED
  BY <1>1 DEF PositionMatchesFills

(* Nothing is ordered, nothing is filled, every position is flat.          *)
LEMMA InitFillsAccounted == Init => FillsAccounted
<1> SUFFICES ASSUME Init PROVE FillsAccounted
  OBVIOUS
<1>1. StoriesSound /\ orders = <<>> /\ reports = <<>>
  BY InitStoriesSound DEF Init
<1>2. DOMAIN orders = {} /\ DOMAIN reports = {}
  BY <1>1
<1>3. ASSUME NEW i \in Instruments PROVE positions[i].quantity = SignedFills(i, orders)
  <2>1. {id \in DOMAIN orders : orders[id].instrument = i} = {}
    BY <1>2
  <2>2. SignedFills(i, orders) = 0
    BY <2>1, SumEmpty DEF SignedFills
  <2>3. QED
    BY <2>2 DEF Init, Flat
<1>4. VenueReported /\ OnlyTradesFill
  BY <1>2 DEF VenueReported, OnlyTradesFill
<1>5. QED
  BY <1>1, <1>3, <1>4 DEF FillsAccounted, PositionMatchesFills

LEMMA NextFillsAccounted ==
  ASSUME FaithfulDelivery
  PROVE  FillsAccounted /\ [Next]_vars => FillsAccounted'
<1> SUFFICES ASSUME FillsAccounted, [Next]_vars
             PROVE  VenueReported' /\ OnlyTradesFill' /\ PositionMatchesFills'
  BY NextStoriesSound DEF FillsAccounted, FaithfulDelivery
<1>0. /\ TypeOK /\ StoriesSound /\ FillsSound /\ DOMAIN orders = DOMAIN venue
      /\ PositionMatchesFills /\ VenueReported /\ InOrderDelivery
      /\ nextOrderId \notin DOMAIN orders /\ Foreign \notin DOMAIN orders
  BY OrdersAreSent DEF FillsAccounted, StoriesSound, FillsSound, FaithfulDelivery, TypeOK,
                       OrderIds, Foreign
<1>1. ASSUME NEW r \in Requests, CreateOrder(r)
      PROVE  VenueReported' /\ OnlyTradesFill' /\ PositionMatchesFills'
  <2>1. /\ reports' = reports
        /\ DOMAIN orders' = DOMAIN orders \cup {nextOrderId}
        /\ \A o \in DOMAIN orders : orders'[o] = orders[o] /\ venue'[o] = venue[o]
        /\ orders'[nextOrderId].filled = 0 /\ venue'[nextOrderId].filled = 0
    BY <1>0, <1>1 DEF CreateOrder, Emplace, NewOrder
  <2>2. VenueReported' /\ OnlyTradesFill'
    BY <2>1, NothingReported
  <2>3. PositionMatchesFills'
    BY <1>0, <1>1, CreateOrderFills DEF CreateOrder, PositionMatchesFills
  <2>4. QED
    BY <2>2, <2>3
<1>2. ASSUME NEW r \in Requests, RefuseOrder(r)
      PROVE  VenueReported' /\ OnlyTradesFill' /\ PositionMatchesFills'
  BY <1>0, <1>2, NothingReported, SumsStay DEF RefuseOrder
<1>3. ASSUME NEW id \in DOMAIN orders, Cancel(id)
      PROVE  VenueReported' /\ OnlyTradesFill' /\ PositionMatchesFills'
  <2>1. /\ orders' = orders /\ reports' = reports /\ positions' = positions
        /\ \A o \in DOMAIN orders : venue'[o].filled = venue[o].filled
    BY <1>0, <1>3 DEF Cancel, execution, TypeOK, VenueOrders
  <2>2. QED
    BY <1>0, <2>1, NothingReported, SumsStay
<1>4. ASSUME NEW k \in DOMAIN reports, Deliver(k)
      PROVE  VenueReported' /\ OnlyTradesFill' /\ PositionMatchesFills'
  <2>1. CASE reports[k].id \in DOMAIN orders
    BY <1>0, <1>4, <2>1, FirstReported, DeliverMatches
  <2>2. CASE reports[k].id \notin DOMAIN orders
    <3>1. orders' = orders /\ positions' = positions
      BY <1>4, <2>2 DEF Deliver, ApplyExecution, execution
    <3>2. QED
      BY <1>0, <1>4, <3>1, FirstReported, SumsStay
  <2>3. QED
    BY <2>1, <2>2
<1>5. ASSUME NEW id \in DOMAIN venue, NEW state, NEW filled \in Nat, NEW execType \in ExecTypes,
             NEW status \in Statuses, filled = venue[id].filled \/ execType = "Trade",
             VenueReports(id, state, filled, execType, status, orders[id].price)
      PROVE  VenueReported' /\ OnlyTradesFill' /\ PositionMatchesFills'
  <2> DEFINE new == Report(id, execType, status, orders[id].price, filled)
  <2>1. /\ new \in Reports /\ new.id = id /\ new.filled = filled /\ new.execType = execType
        /\ reports' = Append(reports, new) /\ orders' = orders /\ positions' = positions
    BY <1>0, <1>5, ReportType DEF VenueReports, Report, execution
  <2>2. /\ venue'[id].filled = filled
        /\ \A o \in DOMAIN orders : o # id => venue'[o].filled = venue[o].filled
    BY <1>0, <1>5 DEF VenueReports, TypeOK, VenueOrders
  <2> HIDE DEF new
  <2>3. VenueReported' /\ OnlyTradesFill'
    BY <1>0, <1>5, <2>1, <2>2, OneMoreReported
  <2>4. QED
    BY <1>0, <2>1, <2>3, SumsStay
<1>6. ASSUME NEW id \in DOMAIN venue, VenueAccept(id) \/ VenueReject(id) \/ VenueCancel(id)
      PROVE  VenueReported' /\ OnlyTradesFill' /\ PositionMatchesFills'
  <2>1. /\ venue[id].filled \in Nat
        /\ venue[id].state = "sent" => venue[id].filled = 0
    BY <1>0 DEF FillsSound, SentUnfilled, TypeOK, VenueOrders
  <2>2. \/ VenueReports(id, "live", venue[id].filled, "New", "New", orders[id].price)
        \/ VenueReports(id, "done", venue[id].filled, "Reject", "Rejected", orders[id].price)
        \/ VenueReports(id, "done", venue[id].filled, "Cancel", "Cancelled", orders[id].price)
    BY <1>6, <2>1 DEF VenueAccept, VenueReject, VenueCancel
  <2>3. QED
    BY <1>5, <2>1, <2>2 DEF ExecTypes, Statuses
<1>7. ASSUME NEW id \in DOMAIN venue, NEW q \in 1..orders[id].quantity, VenueFill(id, q)
      PROVE  VenueReported' /\ OnlyTradesFill' /\ PositionMatchesFills'
  <2> DEFINE filled == venue[id].filled + q
             full == filled = orders[id].quantity
             state == IF full THEN "done" ELSE "live"
             status == IF full THEN "Filled" ELSE "PartiallyFilled"
  <2>1. /\ filled \in Nat /\ status \in Statuses /\ "Trade" \in ExecTypes
    BY <1>0, <1>7 DEF TypeOK, VenueOrders, Orders, Statuses, ExecTypes
  <2>2. VenueReports(id, state, filled, "Trade", status, orders[id].price)
    BY <1>7 DEF VenueFill
  <2> HIDE DEF filled, state, status
  <2>3. QED
    BY <1>5, <2>1, <2>2
<1>8. ASSUME NEW i \in Instruments, NEW s \in Sides, ForeignReport(i, s)
      PROVE  VenueReported' /\ OnlyTradesFill' /\ PositionMatchesFills'
  <2>1. PICK r \in Reports : r.id = Foreign /\ reports' = Append(reports, r)
    BY <1>8 DEF ForeignReport, Reports, Foreign, ExecTypes, Statuses
  <2>2. orders' = orders /\ positions' = positions /\ venue' = venue
    BY <1>8 DEF ForeignReport, Fault, execution
  <2>3. VenueReported' /\ OnlyTradesFill'
    BY <2>1, <2>2, OneMoreReported
  <2>4. QED
    BY <1>0, <2>2, <2>3, SumsStay
<1>9. ASSUME NEW k \in DOMAIN reports PROVE ~LoseReport(k) /\ ~RepeatReport(k)
  BY DEF LoseReport, RepeatReport, Fault, FaithfulDelivery, InOrderDelivery
<1>10. CASE UNCHANGED vars
  BY <1>0, <1>10, NothingReported, SumsStay DEF vars
<1>11. QED
  BY <1>0, <1>1, <1>2, <1>3, <1>4, <1>6, <1>7, <1>8, <1>9, <1>10 DEF Next, Venue

(* When every report arrives, once and in its turn, the position of an     *)
(* instrument is the signed sum of the fills of its orders, ...            *)
THEOREM PositionsMatchOrders ==
  ASSUME FaithfulDelivery
  PROVE  Spec => []PositionMatchesFills
<1>1. FillsAccounted => PositionMatchesFills
  BY DEF FillsAccounted
<1>2. FillsAccounted /\ [Next]_vars => FillsAccounted'
  BY NextFillsAccounted
<1>3. QED
  BY <1>1, <1>2, InitFillsAccounted, PTL DEF Spec

(* ... and, once no report is under way, of what the venue executed.       *)
THEOREM PositionsMatchVenue ==
  ASSUME FaithfulDelivery
  PROVE  Spec => []PositionMatchesVenueWhenQuiet
<1>1. FillsAccounted => PositionMatchesVenueWhenQuiet
  <2> SUFFICES ASSUME FillsAccounted, reports = <<>>, NEW i \in Instruments
               PROVE  positions[i].quantity = SignedFills(i, venue)
    BY DEF PositionMatchesVenueWhenQuiet
  <2>1. \A id \in DOMAIN orders : orders[id].filled = venue[id].filled
    BY DEF FillsAccounted, VenueReported
  <2>2. Fills(orders) = Fills(venue)
    BY <2>1 DEF Fills
  <2>3. QED
    BY <2>2 DEF FillsAccounted, PositionMatchesFills, SignedFills
<1>2. FillsAccounted /\ [Next]_vars => FillsAccounted'
  BY NextFillsAccounted
<1>3. QED
  BY <1>1, <1>2, InitFillsAccounted, PTL DEF Spec
-----------------------------------------------------------------------------
(* The open quantities are sums of integers over finitely many orders.     *)
LEMMA OpenIsInteger ==
  ASSUME TypeOK, NEW i, NEW side
  PROVE  /\ IsFiniteSet(OpenOrders(i, side)) /\ OpenOrders(i, side) \subseteq DOMAIN orders
         /\ \A id \in OpenOrders(i, side) : Remaining[id] \in Int
         /\ OpenQuantity(i, side) \in Int
<1>1. OpenOrders(i, side) \subseteq DOMAIN orders
  BY DEF OpenOrders
<1>2. IsFiniteSet(OpenOrders(i, side)) /\ \A id \in OpenOrders(i, side) : Remaining[id] \in Int
  BY <1>1, FillsAreIntegers, FS_Subset
<1>3. OpenQuantity(i, side) \in Int
  BY <1>2, SumSplits DEF OpenQuantity
<1>4. QED
  BY <1>1, <1>2, <1>3

(* A new order opens what it asks for, on its side of its instrument.      *)
LEMMA CreateOrderOpen ==
  ASSUME TypeOK, NEW r \in Requests, CreateOrder(r), NEW i, NEW side
  PROVE  OpenQuantity(i, side)' = IF i = r.instrument /\ side = r.side
                                  THEN OpenQuantity(i, side) + r.quantity
                                  ELSE OpenQuantity(i, side)
<1> DEFINE id == nextOrderId
           open == OpenOrders(i, side)
<1>0. /\ OpenQuantity(i, side) = SumFunctionOnSet(Remaining, open)
      /\ OpenQuantity(i, side)' = SumFunctionOnSet(Remaining', open')
  BY DEF OpenQuantity
<1>1. /\ id \notin DOMAIN orders
      /\ DOMAIN orders' = DOMAIN orders \cup {id}
      /\ \A o \in DOMAIN orders : orders'[o] = orders[o]
      /\ orders'[id] = NewOrder(r)
  BY DEF CreateOrder, Emplace, TypeOK, OrderIds
<1>2. r.quantity \in Int
  BY RequestsAssumption DEF OrderRequests
<1>3. Remaining'[id] = r.quantity
  BY <1>1, <1>2 DEF Remaining, NewOrder
<1>4. \A o \in open : Remaining'[o] = Remaining[o]
  BY <1>1 DEF Remaining, OpenOrders
<1>5. IsFiniteSet(open) /\ (\A o \in open : Remaining[o] \in Int)
      /\ SumFunctionOnSet(Remaining, open) \in Int /\ id \notin open
  BY <1>0, <1>1, OpenIsInteger
<1>6. SumFunctionOnSet(Remaining', open) = SumFunctionOnSet(Remaining, open)
  BY <1>4, <1>5, SumAgrees
<1>7. CASE i = r.instrument /\ side = r.side
  <2>1. open' = open \cup {id}
    BY <1>1, <1>7 DEF OpenOrders, NewOrder, Terminal
  <2>2. \A o \in open \cup {id} : Remaining'[o] \in Int
    BY <1>2, <1>3, <1>4, <1>5
  <2>3. SumFunctionOnSet(Remaining', open \cup {id})
          = Remaining'[id] + SumFunctionOnSet(Remaining', open)
    BY <1>5, <2>2, SumInsert
  <2> HIDE DEF open
  <2>4. SumFunctionOnSet(Remaining', open') = r.quantity + SumFunctionOnSet(Remaining, open)
    BY <1>3, <1>6, <2>1, <2>3
  <2>5. QED
    BY <1>0, <1>2, <1>5, <1>7, <2>4
<1>8. CASE ~(i = r.instrument /\ side = r.side)
  <2>1. open' = open
    BY <1>1, <1>8 DEF OpenOrders, NewOrder
  <2>2. QED
    BY <1>0, <1>6, <1>8, <2>1
<1>9. QED
  BY <1>7, <1>8

(* A report closes what it adds to the fills, or more: all that remained   *)
(* when it ends the order.                                                 *)
LEMMA DeliverOpen ==
  ASSUME StoriesSound, InOrderDelivery, NEW k \in DOMAIN reports, Deliver(k),
         reports[k].id \in DOMAIN orders, NEW i, NEW side
  PROVE  LET order == orders[reports[k].id]
             executed == reports[k].filled - order.filled
         IN  /\ OpenQuantity(i, side)' \in Int
             /\ OpenQuantity(i, side)' <= IF i = order.instrument /\ side = order.side
                                          THEN OpenQuantity(i, side) - executed
                                          ELSE OpenQuantity(i, side)
<1> DEFINE id == reports[k].id
           executed == reports[k].filled - orders[id].filled
           open == OpenOrders(i, side)
           old == SumFunctionOnSet(Remaining, open)
<1>0. /\ OpenQuantity(i, side) = old
      /\ OpenQuantity(i, side)' = SumFunctionOnSet(Remaining', open')
  BY DEF OpenQuantity
<1>1. /\ TypeOK /\ orders \in [DOMAIN orders -> Orders] /\ orders[id] \in Orders
      /\ reports[k] \in Reports
  BY DEF StoriesSound, FillsSound, TypeOK
<1>2. orders' = [orders EXCEPT ![id].status = reports[k].status,
                               ![id].filled = reports[k].filled]
  BY DEF Deliver, ApplyExecution
<1>3. /\ DOMAIN orders' = DOMAIN orders
      /\ \A o \in DOMAIN orders : o # id => orders'[o] = orders[o]
      /\ orders'[id].instrument = orders[id].instrument
      /\ orders'[id].side = orders[id].side
      /\ orders'[id].quantity = orders[id].quantity
      /\ orders'[id].filled = reports[k].filled
      /\ orders'[id].status = reports[k].status
  BY <1>1, <1>2 DEF Orders
<1>4. /\ orders[id].filled \in Int /\ orders[id].quantity \in Int /\ reports[k].filled \in Int
      /\ reports[k].filled <= orders[id].quantity
      /\ orders[id].status \notin Terminal
  BY <1>1, DeliverEffect DEF Orders, Reports
<1>5. /\ Remaining[id] = orders[id].quantity - orders[id].filled
      /\ Remaining'[id] = orders[id].quantity - reports[k].filled
      /\ \A o \in open \ {id} : Remaining'[o] = Remaining[o]
  BY <1>3 DEF Remaining, OpenOrders
<1>6. /\ Remaining[id] \in Int /\ Remaining'[id] \in Int /\ executed \in Int
      /\ Remaining'[id] = Remaining[id] - executed
      /\ executed <= Remaining[id]
  <2> DEFINE r == Remaining[id]
             s == Remaining'[id]
             q == orders[id].quantity
             f == orders[id].filled
             g == reports[k].filled
  <2>1. q \in Int /\ f \in Int /\ g \in Int /\ g <= q /\ r = q - f /\ s = q - g
    BY <1>4, <1>5
  <2> HIDE DEF r, s, q, f, g
  <2>2. r \in Int /\ s \in Int /\ g - f \in Int /\ s = r - (g - f) /\ g - f <= r
    BY <2>1
  <2>3. QED
    BY <2>2 DEF r, s, q, f, g
<1>7. /\ IsFiniteSet(open) /\ (\A o \in open : Remaining[o] \in Int) /\ old \in Int
      /\ IsFiniteSet(open \ {id})
  BY <1>0, <1>1, OpenIsInteger, FS_Subset
<1>8. CASE ~(i = orders[id].instrument /\ side = orders[id].side)
  <2>1. id \notin open /\ open' = open
    BY <1>3, <1>8 DEF OpenOrders
  <2>2. SumFunctionOnSet(Remaining', open) = old
    BY <1>5, <1>7, <2>1, SumAgrees
  <2>3. QED
    BY <1>0, <1>7, <1>8, <2>1, <2>2
<1>9. CASE (i = orders[id].instrument /\ side = orders[id].side) /\ reports[k].status \notin Terminal
  <2>1. id \in open /\ open' = open
    BY <1>3, <1>4, <1>9 DEF OpenOrders
  <2>2. SumFunctionOnSet(Remaining', open) = old - Remaining[id] + Remaining'[id]
    BY <1>5, <1>6, <1>7, <2>1, SumChange
  <2> HIDE DEF old, executed, open
  <2>3. SumFunctionOnSet(Remaining', open) = old - executed
    BY <1>6, <1>7, <2>2
  <2>4. QED
    BY <1>0, <1>6, <1>7, <1>9, <2>1, <2>3 DEF executed
<1>10. CASE (i = orders[id].instrument /\ side = orders[id].side) /\ reports[k].status \in Terminal
  <2>1. id \in open /\ open' = open \ {id}
    BY <1>3, <1>4, <1>10 DEF OpenOrders
  <2>2. old = Remaining[id] + SumFunctionOnSet(Remaining, open \ {id})
    BY <1>7, <2>1, SumSplits
  <2>3. \A o \in open \ {id} : Remaining[o] \in Int
    BY <1>7
  <2>4. /\ SumFunctionOnSet(Remaining', open \ {id}) = SumFunctionOnSet(Remaining, open \ {id})
        /\ SumFunctionOnSet(Remaining, open \ {id}) \in Int
    BY <1>5, <1>7, <2>3, SumAgrees, SumSplits
  <2> HIDE DEF old, executed, open
  <2>5. /\ SumFunctionOnSet(Remaining', open') \in Int
        /\ SumFunctionOnSet(Remaining', open') <= old - executed
    BY <1>6, <1>7, <2>1, <2>2, <2>4
  <2>6. QED
    BY <1>0, <1>10, <2>5 DEF executed
<1>11. QED
  BY <1>8, <1>9, <1>10

(* Inductive when delivery is in order, losses or not.                     *)
ExposureSound ==
  /\ StoriesSound
  /\ beside \in [Instruments -> [Sides -> Int]]
  /\ ExposureBounded

LEMMA LargerOfTwo ==
  ASSUME NEW a \in Int, NEW b \in Int
  PROVE  Max({a, b}) \in Int /\ a <= Max({a, b}) /\ b <= Max({a, b})
<1>1. \E x \in {a, b} : \A y \in {a, b} : x >= y
  OBVIOUS
<1>2. QED
  BY <1>1 DEF Max

(* What an accepted risk check promises of the position.                   *)
LEMMA AcceptedByRisk ==
  ASSUME NEW limits, NEW request, NEW quantity,
         RiskReason(limits, request, quantity) = "None", limits.maxPositionQuantity # 0
  PROVE  ~(Magnitude(quantity + Signed(request.side, request.quantity))
             > limits.maxPositionQuantity)
<1>1. CASE \/ request.quantity <= 0
           \/ Exceeds(request.quantity, limits.maxOrderQuantity)
  BY <1>1 DEF RiskReason
<1>2. CASE ~(\/ request.quantity <= 0
             \/ Exceeds(request.quantity, limits.maxOrderQuantity))
  <2>1. ~Exceeds(Magnitude(ResultingPosition(request, quantity)), limits.maxPositionQuantity)
    BY <1>2 DEF RiskReason
  <2>2. QED
    BY <2>1 DEF Exceeds, ResultingPosition
<1>3. QED
  BY <1>1, <1>2

(* A quantity counted on its own side, or against the other one.           *)
LEMMA SignedOfSum ==
  ASSUME NEW side \in Sides, NEW other \in Sides, NEW p \in Int, NEW q \in Nat
  PROVE  /\ Signed(side, p) \in Int
         /\ Signed(side, p + Signed(side, q)) = Signed(side, p) + q
         /\ other # side => Signed(other, p + Signed(side, q)) <= Signed(other, p)
         /\ Signed(side, p) <= Magnitude(p)
BY DEF Signed, Sides, Magnitude

(* An admitted order: the check bounds the position it leads to, and what  *)
(* was open beside it is recorded.                                         *)
LEMMA CreateOrderExposure ==
  ASSUME ExposureSound, NEW r \in Requests, CreateOrder(r)
  PROVE  ExposureBounded' /\ beside' \in [Instruments -> [Sides -> Int]]
<1>1. /\ TypeOK /\ ExposureBounded /\ beside \in [Instruments -> [Sides -> Int]]
      /\ positions' = positions
  BY DEF ExposureSound, StoriesSound, FillsSound, CreateOrder
<1>2. /\ r.instrument \in Instruments /\ r.side \in Sides /\ r.quantity \in Nat
  BY RequestsAssumption DEF OrderRequests, CreateOrder, Valid
<1> DEFINE was == beside[r.instrument][r.side]
           now == Max({was, OpenQuantity(r.instrument, r.side)})
<1>3. /\ was \in Int /\ now \in Int /\ was <= now /\ OpenQuantity(r.instrument, r.side) <= now
  BY <1>1, <1>2, OpenIsInteger, LargerOfTwo
<1>4. beside' = [beside EXCEPT ![r.instrument][r.side] = now]
  BY DEF CreateOrder
<1> HIDE DEF now
<1>5. beside' \in [Instruments -> [Sides -> Int]]
  BY <1>1, <1>2, <1>3, <1>4
<1>6. ASSUME Limits.maxPositionQuantity # 0, NEW i \in Instruments, NEW side \in Sides
      PROVE  Signed(side, positions[i].quantity) + OpenQuantity(i, side)'
               <= Limits.maxPositionQuantity + beside'[i][side]
  <2>1. /\ positions[i] \in PositionType /\ positions[i].quantity \in Int
        /\ Limits.maxPositionQuantity \in Int
    BY <1>1, LimitsAssumption DEF TypeOK, PositionType, RiskLimits
  <2>2. /\ OpenQuantity(i, side) \in Int /\ beside[i][side] \in Int
        /\ Signed(side, positions[i].quantity) \in Int
    BY <1>1, <2>1, OpenIsInteger, SignedType
  <2>3. CASE i = r.instrument /\ side = r.side
    <3>1. ~(Magnitude(positions[i].quantity + Signed(side, r.quantity))
              > Limits.maxPositionQuantity)
      BY <1>6, <2>3, AcceptedByRisk DEF CreateOrder, CheckedReason
    <3> DEFINE sum == positions[i].quantity + Signed(side, r.quantity)
    <3>2. sum \in Int /\ Magnitude(sum) \in Int
      BY <1>2, <2>1, SignedType DEF Magnitude
    <3>3. /\ Signed(side, sum) = Signed(side, positions[i].quantity) + r.quantity
          /\ Signed(side, sum) <= Magnitude(sum) /\ Signed(side, sum) \in Int
      BY <1>2, <2>1, <3>2, SignedOfSum
    <3>4. OpenQuantity(i, side)' = OpenQuantity(i, side) + r.quantity
      BY <1>1, <2>3, CreateOrderOpen
    <3>5. beside'[i][side] = now /\ OpenQuantity(i, side) <= now
      BY <1>1, <1>3, <1>4, <2>3
    <3>6. Magnitude(sum) <= Limits.maxPositionQuantity
      BY <2>1, <3>1, <3>2
    <3> HIDE DEF sum
    <3>7. Signed(side, positions[i].quantity) + r.quantity <= Limits.maxPositionQuantity
      BY <2>1, <3>2, <3>3, <3>6
    <3>8. QED
      BY <1>2, <1>3, <2>1, <2>2, <3>4, <3>5, <3>7
  <2>4. CASE ~(i = r.instrument /\ side = r.side)
    <3>1. beside'[i][side] = beside[i][side]
      BY <1>1, <1>2, <1>4, <2>4
    <3>2. OpenQuantity(i, side)' = OpenQuantity(i, side)
      BY <1>1, <2>4, CreateOrderOpen
    <3>3. QED
      BY <1>1, <1>6, <3>1, <3>2 DEF ExposureBounded
  <2>5. QED
    BY <2>3, <2>4
<1>7. QED
  BY <1>1, <1>5, <1>6 DEF ExposureBounded

(* An applied report: what it moves into the position was open before.     *)
LEMMA DeliverExposure ==
  ASSUME ExposureSound, InOrderDelivery, NEW k \in DOMAIN reports, Deliver(k),
         reports[k].id \in DOMAIN orders
  PROVE  ExposureBounded'
<1> DEFINE id == reports[k].id
           executed == reports[k].filled - orders[id].filled
<1>1. /\ TypeOK /\ StoriesSound /\ FillsSound /\ ExposureBounded
      /\ beside \in [Instruments -> [Sides -> Int]] /\ beside' = beside
      /\ id # Foreign /\ orders[id] \in Orders
  BY OrdersAreSent DEF ExposureSound, StoriesSound, FillsSound, Deliver, ApplyExecution, TypeOK,
                       OrderIds, Foreign
<1>2. reports[k].side = orders[id].side
  BY <1>1 DEF FillsSound, ReportsFindTheirOrder
<1>3. orders[id].side \in Sides
  BY <1>1 DEF Orders
<1>4. SUFFICES ASSUME Limits.maxPositionQuantity # 0, NEW i \in Instruments, NEW side \in Sides
               PROVE  Signed(side, positions'[i].quantity) + OpenQuantity(i, side)'
                        <= Limits.maxPositionQuantity + beside[i][side]
  BY <1>1 DEF ExposureBounded
<1>5. executed \in Nat
  BY <1>1, DeliverEffect
<1>6. \/ positions'[i] = positions[i]
      \/ /\ i = orders[id].instrument
         /\ positions'[i].quantity = positions[i].quantity + Signed(orders[id].side, executed)
  <2>1. CASE positions'[i] # positions[i]
    <3>1. /\ i = orders[id].instrument /\ executed > 0
          /\ positions'[i] = ApplyTrade(positions[i], reports[k].side, reports[k].price, executed)
      BY <1>1, <2>1, DeliverEffect
    <3>2. executed # 0
      BY <1>5, <3>1
    <3> HIDE DEF executed
    <3>3. QED
      BY <1>2, <3>1, <3>2 DEF ApplyTrade
  <2>2. QED
    BY <2>1
<1>7. OpenQuantity(i, side)' <= IF i = orders[id].instrument /\ side = orders[id].side
                                THEN OpenQuantity(i, side) - executed
                                ELSE OpenQuantity(i, side)
  BY <1>1, DeliverOpen
<1>8. /\ positions[i] \in PositionType /\ positions[i].quantity \in Int
      /\ Limits.maxPositionQuantity \in Int
  BY <1>1, LimitsAssumption DEF TypeOK, PositionType, RiskLimits
<1>9. /\ OpenQuantity(i, side) \in Int /\ OpenQuantity(i, side)' \in Int
      /\ beside[i][side] \in Int /\ Signed(side, positions[i].quantity) \in Int
  BY <1>1, <1>8, OpenIsInteger, DeliverOpen, SignedType
<1>10. Signed(side, positions[i].quantity) + OpenQuantity(i, side)
         <= Limits.maxPositionQuantity + beside[i][side]
  BY <1>1, <1>4 DEF ExposureBounded
<1> HIDE DEF executed
<1>11. CASE positions'[i] = positions[i]
  <2>1. OpenQuantity(i, side)' <= OpenQuantity(i, side)
    BY <1>5, <1>7, <1>9
  <2>2. QED
    BY <1>8, <1>9, <1>10, <1>11, <2>1
<1>12. CASE /\ i = orders[id].instrument
            /\ positions'[i].quantity = positions[i].quantity + Signed(orders[id].side, executed)
  <2>1. Signed(side, positions'[i].quantity) \in Int
    <3>1. positions'[i].quantity \in Int
      BY <1>3, <1>5, <1>8, <1>12, SignedType
    <3>2. QED
      BY <3>1, SignedType
  <2>2. CASE side = orders[id].side
    <3>1. Signed(side, positions'[i].quantity) = Signed(side, positions[i].quantity) + executed
      BY <1>5, <1>8, <1>12, <2>2, SignedOfSum
    <3>2. OpenQuantity(i, side)' <= OpenQuantity(i, side) - executed
      BY <1>7, <1>12, <2>2
    <3>3. QED
      BY <1>5, <1>8, <1>9, <1>10, <3>1, <3>2
  <2>3. CASE side # orders[id].side
    <3>1. Signed(side, positions'[i].quantity) <= Signed(side, positions[i].quantity)
      BY <1>3, <1>5, <1>8, <1>12, <2>3, SignedOfSum
    <3>2. OpenQuantity(i, side)' <= OpenQuantity(i, side)
      BY <1>7, <2>3
    <3>3. QED
      BY <1>8, <1>9, <1>10, <2>1, <3>1, <3>2
  <2>4. QED
    BY <2>2, <2>3
<1>13. QED
  BY <1>6, <1>11, <1>12

(* Nothing is open beside an order that was never admitted.                *)
LEMMA InitExposureSound == Init => ExposureSound
<1> SUFFICES ASSUME Init PROVE ExposureSound
  OBVIOUS
<1>1. /\ StoriesSound /\ TypeOK
      /\ beside = [i \in Instruments |-> [s \in Sides |-> 0]]
      /\ positions = [i \in Instruments |-> Flat]
  BY InitStoriesSound, InitTypeOK DEF Init
<1>2. DOMAIN orders = {}
  BY DEF Init
<1>3. ASSUME NEW i \in Instruments, NEW side \in Sides
      PROVE  /\ OpenQuantity(i, side) = 0
             /\ Signed(side, positions[i].quantity) = 0
  <2>1. OpenOrders(i, side) = {}
    BY <1>2 DEF OpenOrders
  <2>2. QED
    BY <1>1, <2>1, SumEmpty DEF OpenQuantity, Flat, Signed
<1>4. ExposureBounded
  BY <1>1, <1>3, LimitsAssumption DEF ExposureBounded, RiskLimits
<1>5. QED
  BY <1>1, <1>4 DEF ExposureSound

(* Every other step leaves positions, orders and the record alone.         *)
LEMMA ExposureStays ==
  ASSUME ExposureSound, orders' = orders, positions' = positions, beside' = beside
  PROVE  ExposureBounded' /\ beside' \in [Instruments -> [Sides -> Int]]
<1>1. ASSUME NEW i, NEW side PROVE OpenQuantity(i, side)' = OpenQuantity(i, side)
  BY DEF OpenQuantity, OpenOrders, Remaining
<1>2. QED
  BY <1>1 DEF ExposureSound, ExposureBounded

LEMMA NextExposureSound ==
  ASSUME InOrderDelivery
  PROVE  ExposureSound /\ [Next]_vars => ExposureSound'
<1> SUFFICES ASSUME ExposureSound, [Next]_vars
             PROVE  ExposureBounded' /\ beside' \in [Instruments -> [Sides -> Int]]
  BY NextStoriesSound DEF ExposureSound
<1>1. ASSUME NEW k \in DOMAIN reports, Deliver(k)
      PROVE  ExposureBounded' /\ beside' \in [Instruments -> [Sides -> Int]]
  <2>1. CASE reports[k].id \in DOMAIN orders
    <3>1. beside' = beside
      BY <1>1, <2>1 DEF Deliver, ApplyExecution
    <3>2. QED
      BY <1>1, <2>1, <3>1, DeliverExposure DEF ExposureSound
  <2>2. CASE reports[k].id \notin DOMAIN orders
    BY <1>1, <2>2, ExposureStays DEF Deliver, ApplyExecution, execution
  <2>3. QED
    BY <2>1, <2>2
<1>2. CASE /\ orders' = orders /\ positions' = positions /\ beside' = beside
  BY <1>2, ExposureStays
<1>3. QED
  BY <1>1, <1>2, CreateOrderExposure
     DEF Next, Venue, RefuseOrder, Cancel, VenueAccept, VenueReject, VenueCancel, VenueFill,
         VenueReports, LoseReport, RepeatReport, ForeignReport, Fault, execution, vars

(* Delivered in order -- even with losses -- no position, and none that    *)
(* all open orders could lead to, exceeds its limit by more than what was  *)
(* open beside an order when it was admitted.                              *)
THEOREM ExposureIsBounded ==
  ASSUME InOrderDelivery
  PROVE  Spec => []ExposureBounded
<1>1. ExposureSound => ExposureBounded
  BY DEF ExposureSound
<1>2. ExposureSound /\ [Next]_vars => ExposureSound'
  BY NextExposureSound
<1>3. QED
  BY <1>1, <1>2, InitExposureSound, PTL DEF Spec
=============================================================================
