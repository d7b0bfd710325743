----------------------- MODULE TradingPipelineProofs -----------------------
(***************************************************************************)
(* Theorems about TradingPipeline, for every set of queues that may be     *)
(* closed and every bound: orders and events keep the order of the updates *)
(* they follow from, reports are recorded before they are applied, and     *)
(* nothing is under way after a stop.                                      *)
(***************************************************************************)
EXTENDS TradingPipeline, SequenceTheorems, ArithmeticTheorems

Kinds == {"update", "event", "request", "report", "trade"}
Items == [kind : Kinds, number : Nat]
Deliveries == [to : Places, item : Items]

(* What kinds a place holds, ...                                           *)
Holds == [bookUpdateQueue |-> {"update"}, tradeQueue |-> {"trade"},
          strategyEventQueue |-> {"event"},
          recordingEventQueue |-> {"event", "request", "report"},
          executionQueue |-> {"request", "report"}, gateway |-> {"request"},
          orderManager |-> {"report"}, recorder |-> {"event", "report"},
          tradeProcessor |-> {"trade"}]

(* ... what kinds a module hands on, and where to.                         *)
Makes == [bookBuilder |-> {"event"}, trade |-> {"trade"}, strategy |-> {"request"},
          execution |-> {"request", "report"}, recording |-> {"event", "report"},
          executionReport |-> {"report"}, marketData |-> {"update", "trade"}]

Serves == [bookBuilder |-> {"strategyEventQueue", "recordingEventQueue"},
           trade |-> {"tradeProcessor"}, strategy |-> {"executionQueue"},
           execution |-> {"recordingEventQueue", "gateway", "orderManager"},
           recording |-> {"recorder"}, executionReport |-> {"executionQueue"},
           marketData |-> {"bookUpdateQueue", "tradeQueue"}]

(* Every place holds items of its kinds, every module makes deliveries of  *)
(* its own, and but for trades only one to a place at a time.              *)
ItemsOK ==
  /\ contents \in [Places -> Seq(Items)]
  /\ \A p \in Places : \A k \in DOMAIN contents[p] : contents[p][k].kind \in Holds[p]
  /\ todo \in [Modules -> Seq(Deliveries)]
  /\ \A m \in Modules : \A k \in DOMAIN todo[m] :
       /\ todo[m][k].to \in Serves[m]
       /\ todo[m][k].item.kind \in Makes[m] \cap Holds[todo[m][k].to]
       /\ \A j \in DOMAIN todo[m] :
            j # k /\ todo[m][j].to = todo[m][k].to => todo[m][k].to = "tradeQueue"
  /\ received \in [{"update", "trade", "report"} -> Nat]

(* The numbers of the items of a kind a place holds, and of those a module *)
(* has to deliver to a place.                                              *)
Held(p, kind) ==
  {contents[p][k].number : k \in {j \in DOMAIN contents[p] : contents[p][j].kind = kind}}

Due(m, p, kind) ==
  {todo[m][k].item.number :
     k \in {j \in DOMAIN todo[m] : todo[m][j].to = p /\ todo[m][j].item.kind = kind}}

(* The way from an update received to an order sent, and to an event       *)
(* recorded: which numbers are where on it.                                *)
OrderRoute ==
  {a \in (1..8) \X Nat :
     \/ a[1] = 1 /\ a[2] \in Due("marketData", "bookUpdateQueue", "update")
     \/ a[1] = 2 /\ a[2] \in Held("bookUpdateQueue", "update")
     \/ a[1] = 3 /\ a[2] \in Due("bookBuilder", "strategyEventQueue", "event")
     \/ a[1] = 4 /\ a[2] \in Held("strategyEventQueue", "event")
     \/ a[1] = 5 /\ a[2] \in Due("strategy", "executionQueue", "request")
     \/ a[1] = 6 /\ a[2] \in Held("executionQueue", "request")
     \/ a[1] = 7 /\ a[2] \in Due("execution", "gateway", "request")
     \/ a[1] = 8 /\ a[2] \in Held("gateway", "request")}

RecordRoute ==
  {a \in (1..6) \X Nat :
     \/ a[1] = 1 /\ a[2] \in Due("marketData", "bookUpdateQueue", "update")
     \/ a[1] = 2 /\ a[2] \in Held("bookUpdateQueue", "update")
     \/ a[1] = 3 /\ a[2] \in Due("bookBuilder", "recordingEventQueue", "event")
     \/ a[1] = 4 /\ a[2] \in Held("recordingEventQueue", "event")
     \/ a[1] = 5 /\ a[2] \in Due("recording", "recorder", "event")
     \/ a[1] = 6 /\ a[2] \in Held("recorder", "event")}

(* What is further on its way follows from an older update.                *)
Falling(route) == \A a, b \in route : a[1] < b[1] => b[2] < a[2]

(* The items of a kind lie in a place in the order of their updates.       *)
Sorted(p, kind) ==
  \A j, k \in DOMAIN contents[p] :
    j < k /\ contents[p][j].kind = kind /\ contents[p][k].kind = kind
      => contents[p][j].number < contents[p][k].number

Ordered ==
  /\ ItemsOK
  /\ \A a \in OrderRoute \cup RecordRoute : a[2] \in 1..received["update"]
  /\ Falling(OrderRoute) /\ Falling(RecordRoute)
  /\ Sorted("bookUpdateQueue", "update") /\ Sorted("strategyEventQueue", "event")
  /\ Sorted("executionQueue", "request") /\ Sorted("gateway", "request")
  /\ Sorted("recordingEventQueue", "event") /\ Sorted("recorder", "event")

(* What execution does with a report: record it, then apply it.            *)
AppliedLast(deliveries) ==
  \/ \A k \in DOMAIN deliveries : deliveries[k].item.kind # "report"
  \/ \E report \in Items :
       /\ report.kind = "report"
       /\ \/ deliveries = <<To("recordingEventQueue", report), To("orderManager", report)>>
          \/ deliveries = <<To("orderManager", report)>>

(* The report recorded that is about to be applied.                        *)
Applying ==
  IF Len(todo["execution"]) = 1 /\ Head(todo["execution"]).to = "orderManager"
  THEN <<Head(todo["execution"]).item>> ELSE <<>>

RecordedFirst ==
  /\ closed \subseteq Queues
  /\ AppliedLast(todo["execution"])
  /\ "recordingEventQueue" \notin closed =>
       OfKind(HandedToRecording, "report") = contents["orderManager"] \o Applying

Served == Looping \ {"bookBuilder"}

(* What a module serves is closed and empty.                               *)
Done(m) == Input[m] \in closed /\ contents[Input[m]] = <<>>

(* The modules the call of Application under way has still to go through.  *)
ToDo == {left[k] : k \in DOMAIN left}

CallOK ==
  /\ running \in BOOLEAN
  /\ phase \in {"idle", "starting", "stopping"}
  /\ left \in Seq(Modules)
  /\ \A j, k \in DOMAIN left : left[j] = left[k] => j = k
  /\ flag \in [Modules -> BOOLEAN]
  /\ phase = "idle" <=> left = <<>>
  /\ phase # "idle" => running
  /\ phase = "idle" => \A m \in Modules : flag[m] = running
  /\ phase = "starting" => \A m \in Modules : flag[m] \/ m \in ToDo
  /\ phase = "stopping" => \A m \in Modules : flag[m] <=> m \in ToDo

(* A module is out of a call of stop only when its thread has ended, and   *)
(* that only when there is nothing left for it.                            *)
ThreadsOK ==
  /\ thread \in [Workers -> {"none", "starting", "looping", "ended"}]
  /\ \A w \in Workers : thread[w] = "none" <=> ~flag[w]
  /\ \A w \in Workers : thread[w] # "looping" => todo[w] = <<>>
  /\ \A m \in Served : thread[m] = "ended" => Done(m)
  /\ phase = "stopping" => \A m \in Served : flag[m] \/ Done(m)
  /\ ~running => \/ \A m \in Served : Done(m)
                 \/ /\ \A m \in Modules : todo[m] = <<>>
                    /\ \A p \in Places : contents[p] = <<>>
-----------------------------------------------------------------------------
(* The function OfKind is defined by: what is kept of the first n items.   *)
Keeps(s, kind, to, f) ==
  f = [n \in 0..to |-> IF n = 0 THEN <<>>
                       ELSE IF s[n].kind = kind THEN Append(f[n - 1], s[n]) ELSE f[n - 1]]

LEMMA KeepsExists ==
  ASSUME NEW s, NEW kind
  PROVE  \A n \in Nat : \E f : Keeps(s, kind, n, f)
<1> DEFINE P == {n \in Nat : \E f : Keeps(s, kind, n, f)}
<1>1. 0 \in P
  <2>1. Keeps(s, kind, 0, [n \in 0..0 |-> <<>>])
    BY DEF Keeps
  <2>2. QED
    BY <2>1
<1>2. ASSUME NEW n \in P PROVE n + 1 \in P
  <2>1. PICK f : Keeps(s, kind, n, f)
    OBVIOUS
  <2> DEFINE next == IF s[n + 1].kind = kind THEN Append(f[n], s[n + 1]) ELSE f[n]
             g == [m \in 0..(n + 1) |-> IF m = n + 1 THEN next ELSE f[m]]
  <2>2. /\ \A m \in 0..n : f[m] = IF m = 0 THEN <<>>
                                  ELSE IF s[m].kind = kind THEN Append(f[m - 1], s[m])
                                       ELSE f[m - 1]
    BY <2>1 DEF Keeps
  <2>3. /\ g[n + 1] = next
        /\ \A m \in 0..n : g[m] = f[m]
    OBVIOUS
  <2> HIDE DEF next
  <2>4. ASSUME NEW m \in 0..(n + 1)
        PROVE  g[m] = IF m = 0 THEN <<>>
                      ELSE IF s[m].kind = kind THEN Append(g[m - 1], s[m]) ELSE g[m - 1]
    <3>1. CASE m = n + 1
      <4>1. m # 0 /\ m - 1 = n /\ n \in 0..n
        BY <3>1
      <4>2. g[m - 1] = f[n]
        BY <2>3, <4>1
      <4>3. QED
        BY <2>3, <3>1, <4>1, <4>2 DEF next
    <3>2. CASE m # n + 1
      <4>1. m \in 0..n /\ (m # 0 => m - 1 \in 0..n)
        BY <3>2
      <4>2. QED
        BY <2>2, <2>3, <4>1
    <3>3. QED
      BY <3>1, <3>2
  <2>5. Keeps(s, kind, n + 1, g)
    BY <2>4 DEF Keeps
  <2>6. QED
    BY <2>5
<1> HIDE DEF P
<1>3. \A n \in Nat : n \in P
  BY <1>1, <1>2, SetInduction DEF P
<1>4. QED
  BY <1>3 DEF P

(* It depends on the items alone, not on where the sequence ends.          *)
LEMMA KeepsUnique ==
  ASSUME NEW s, NEW t, NEW kind, NEW to \in Nat, \A n \in 1..to : s[n] = t[n],
         NEW f, NEW g, NEW more \in Nat, NEW most \in Nat, to <= more, to <= most,
         Keeps(s, kind, more, f), Keeps(t, kind, most, g)
  PROVE  f[to] = g[to]
<1> DEFINE P == {n \in Nat : n <= to => f[n] = g[n]}
<1>1. /\ \A n \in 0..more : f[n] = IF n = 0 THEN <<>>
                                   ELSE IF s[n].kind = kind THEN Append(f[n - 1], s[n])
                                        ELSE f[n - 1]
      /\ \A n \in 0..most : g[n] = IF n = 0 THEN <<>>
                                   ELSE IF t[n].kind = kind THEN Append(g[n - 1], t[n])
                                        ELSE g[n - 1]
  BY DEF Keeps
<1>2. 0 \in P
  <2>1. 0 \in 0..more /\ 0 \in 0..most
    OBVIOUS
  <2>2. f[0] = <<>> /\ g[0] = <<>>
    BY <1>1, <2>1
  <2>3. QED
    BY <2>2
<1>3. ASSUME NEW n \in P PROVE n + 1 \in P
  <2>1. SUFFICES ASSUME n + 1 <= to PROVE f[n + 1] = g[n + 1]
    OBVIOUS
  <2>2. /\ n + 1 \in 0..more /\ n + 1 \in 0..most /\ n + 1 # 0 /\ (n + 1) - 1 = n
        /\ n + 1 \in 1..to /\ n <= to
    BY <2>1
  <2>3. f[n] = g[n] /\ s[n + 1] = t[n + 1]
    BY <2>2
  <2>4. QED
    BY <1>1, <2>2, <2>3
<1> HIDE DEF P
<1>4. \A n \in Nat : n \in P
  BY <1>2, <1>3, SetInduction DEF P
<1>5. QED
  BY <1>4 DEF P

LEMMA OfKindKeeps ==
  ASSUME NEW s, Len(s) \in Nat, NEW kind
  PROVE  \E f : Keeps(s, kind, Len(s), f) /\ OfKind(s, kind) = f[Len(s)]
<1>1. \E f : Keeps(s, kind, Len(s), f)
  BY KeepsExists
<1>2. QED
  BY <1>1 DEF Keeps, OfKind

LEMMA OfKindEmpty == ASSUME NEW kind PROVE OfKind(<<>>, kind) = <<>>
<1>1. Len(<<>>) = 0 /\ Len(<<>>) \in Nat
  OBVIOUS
<1>2. PICK f : Keeps(<<>>, kind, Len(<<>>), f) /\ OfKind(<<>>, kind) = f[Len(<<>>)]
  BY <1>1, OfKindKeeps
<1>3. QED
  BY <1>1, <1>2 DEF Keeps

(* An item more is kept or not.                                            *)
LEMMA OfKindAppend ==
  ASSUME NEW S, NEW s \in Seq(S), NEW x \in S, NEW kind
  PROVE  OfKind(Append(s, x), kind) =
           IF x.kind = kind THEN Append(OfKind(s, kind), x) ELSE OfKind(s, kind)
<1> DEFINE t == Append(s, x)
<1>1. /\ Len(s) \in Nat /\ Len(t) = Len(s) + 1 /\ Len(t) \in Nat /\ t[Len(t)] = x
      /\ \A n \in 1..Len(s) : s[n] = t[n]
  OBVIOUS
<1> HIDE DEF t
<1>2. PICK f : Keeps(s, kind, Len(s), f) /\ OfKind(s, kind) = f[Len(s)]
  BY <1>1, OfKindKeeps
<1>3. PICK g : Keeps(t, kind, Len(t), g) /\ OfKind(t, kind) = g[Len(t)]
  BY <1>1, OfKindKeeps
<1>4. f[Len(s)] = g[Len(s)]
  <2> DEFINE few == Len(s)
             all == Len(t)
  <2>1. /\ few \in Nat /\ all \in Nat /\ few <= few /\ few <= all
        /\ \A n \in 1..few : s[n] = t[n]
        /\ Keeps(s, kind, few, f) /\ Keeps(t, kind, all, g)
    BY <1>1, <1>2, <1>3
  <2> HIDE DEF few, all
  <2>2. f[few] = g[few]
    BY <2>1, KeepsUnique
  <2>3. QED
    BY <2>2 DEF few
<1>5. g[Len(t)] = IF t[Len(t)].kind = kind THEN Append(g[Len(t) - 1], t[Len(t)])
                  ELSE g[Len(t) - 1]
  <2>1. Len(t) \in 0..Len(t) /\ Len(t) # 0
    BY <1>1
  <2>2. \A n \in 0..Len(t) : g[n] = IF n = 0 THEN <<>>
                                    ELSE IF t[n].kind = kind THEN Append(g[n - 1], t[n])
                                         ELSE g[n - 1]
    BY <1>3 DEF Keeps
  <2>3. QED
    BY <2>1, <2>2
<1>6. Len(t) - 1 = Len(s)
  BY <1>1
<1>7. OfKind(t, kind) = IF x.kind = kind THEN Append(OfKind(s, kind), x) ELSE OfKind(s, kind)
  BY <1>1, <1>2, <1>3, <1>4, <1>5, <1>6
<1>8. QED
  BY <1>7 DEF t

LEMMA OfKindType ==
  ASSUME NEW S, NEW kind
  PROVE  \A t \in Seq(S) : OfKind(t, kind) \in Seq(S)
<1> DEFINE P == {n \in Nat : \A t \in Seq(S) : Len(t) = n => OfKind(t, kind) \in Seq(S)}
<1>1. 0 \in P
  <2>1. ASSUME NEW t \in Seq(S), Len(t) = 0 PROVE OfKind(t, kind) \in Seq(S)
    <3>1. t = <<>> /\ <<>> \in Seq(S)
      BY <2>1, EmptySeq
    <3>2. QED
      BY <3>1, OfKindEmpty
  <2>2. QED
    BY <2>1
<1>2. ASSUME NEW n \in P PROVE n + 1 \in P
  <2>1. SUFFICES ASSUME NEW t \in Seq(S), Len(t) = n + 1 PROVE OfKind(t, kind) \in Seq(S)
    OBVIOUS
  <2>2. PICK u \in Seq(S), x \in S : t = Append(u, x)
    BY <2>1, SequenceEmptyOrAppend
  <2>3. Len(u) = n
    BY <2>1, <2>2
  <2>4. OfKind(u, kind) \in Seq(S)
    BY <2>3
  <2>5. OfKind(t, kind) = IF x.kind = kind THEN Append(OfKind(u, kind), x) ELSE OfKind(u, kind)
    BY <2>2, OfKindAppend
  <2>6. QED
    BY <2>4, <2>5
<1> HIDE DEF P
<1>3. \A n \in Nat : n \in P
  BY <1>1, <1>2, SetInduction DEF P
<1>4. QED
  BY <1>3 DEF P

LEMMA AppendConcat ==
  ASSUME NEW S, NEW a \in Seq(S), NEW b \in Seq(S), NEW x \in S
  PROVE  a \o Append(b, x) = Append(a \o b, x)
<1>1. a \o b \in Seq(S) /\ <<x>> \in Seq(S)
  OBVIOUS
<1>2. Append(a \o b, x) = (a \o b) \o <<x>> /\ Append(b, x) = b \o <<x>>
  BY <1>1, AppendIsConcat
<1>3. (a \o b) \o <<x>> = a \o (b \o <<x>>)
  BY <1>1, ConcatAssociative
<1>4. QED
  BY <1>2, <1>3

(* The items of a kind of two sequences, one after the other.              *)
LEMMA OfKindConcat ==
  ASSUME NEW S, NEW s \in Seq(S), NEW kind
  PROVE  \A t \in Seq(S) : OfKind(s \o t, kind) = OfKind(s, kind) \o OfKind(t, kind)
<1> DEFINE joined(t) == OfKind(s \o t, kind) = OfKind(s, kind) \o OfKind(t, kind)
           P == {n \in Nat : \A t \in Seq(S) : Len(t) = n => joined(t)}
<1>1. 0 \in P
  <2>1. ASSUME NEW t \in Seq(S), Len(t) = 0 PROVE joined(t)
    <3>1. t = <<>>
      BY <2>1, EmptySeq
    <3>2. /\ s \o <<>> = s
          /\ OfKind(s, kind) \o <<>> = OfKind(s, kind)
      BY ConcatEmptySeq, OfKindType
    <3>3. QED
      BY <3>1, <3>2, OfKindEmpty
  <2>2. QED
    BY <2>1
<1>2. ASSUME NEW n \in P PROVE n + 1 \in P
  <2>1. ASSUME NEW t \in Seq(S), Len(t) = n + 1 PROVE joined(t)
    <3>0. t # <<>>
      BY <2>1
    <3>1. PICK u \in Seq(S), x \in S : t = Append(u, x)
      BY <3>0, SequenceEmptyOrAppend
    <3>2. Len(u) = n
      BY <2>1, <3>1
    <3>3. joined(u)
      BY <3>2
    <3> DEFINE w == s \o u
    <3>4. w \in Seq(S) /\ s \o t = Append(w, x)
      BY <3>1, AppendConcat
    <3> HIDE DEF w
    <3>5. /\ OfKind(t, kind) = IF x.kind = kind THEN Append(OfKind(u, kind), x)
                               ELSE OfKind(u, kind)
          /\ OfKind(s \o t, kind) = IF x.kind = kind THEN Append(OfKind(w, kind), x)
                                    ELSE OfKind(w, kind)
      BY <3>1, <3>4, OfKindAppend
    <3>6. OfKind(s, kind) \in Seq(S) /\ OfKind(u, kind) \in Seq(S)
      BY OfKindType
    <3>7. OfKind(s, kind) \o Append(OfKind(u, kind), x)
            = Append(OfKind(s, kind) \o OfKind(u, kind), x)
      BY <3>6, AppendConcat
    <3>8. OfKind(w, kind) = OfKind(s, kind) \o OfKind(u, kind)
      BY <3>3 DEF w
    <3>9. QED
      BY <3>5, <3>7, <3>8
  <2>2. QED
    BY <2>1
<1> HIDE DEF P
<1>3. \A n \in Nat : n \in P
  BY <1>1, <1>2, SetInduction DEF P
<1>4. QED
  BY <1>3 DEF P

-----------------------------------------------------------------------------
(* What is left of a sequence without its first element.                   *)
LEMMA WithoutHead ==
  ASSUME NEW S, NEW s \in Seq(S), s # <<>>
  PROVE  /\ Head(s) = s[1] /\ 1 \in DOMAIN s /\ s[1] \in S
         /\ Tail(s) \in Seq(S) /\ Len(Tail(s)) = Len(s) - 1
         /\ \A k \in DOMAIN Tail(s) :
              k \in Nat \ {0} /\ k + 1 \in DOMAIN s /\ Tail(s)[k] = s[k + 1]
OBVIOUS

LEMMA WithLast ==
  ASSUME NEW S, NEW s \in Seq(S), NEW x \in S
  PROVE  /\ Append(s, x) \in Seq(S)
         /\ DOMAIN Append(s, x) = DOMAIN s \cup {Len(s) + 1}
         /\ DOMAIN s = 1..Len(s) /\ Len(s) \in Nat
         /\ \A k \in DOMAIN s : Append(s, x)[k] = s[k]
         /\ Append(s, x)[Len(s) + 1] = x
OBVIOUS

(* A delivery: the first of the list leaves it and, unless the queue is    *)
(* closed, is the last where it arrives.                                   *)
LEMMA DeliverMoves ==
  ASSUME ItemsOK, NEW m \in Modules, Deliver(m)
  PROVE  LET d == todo[m][1]
         IN  /\ 1 \in DOMAIN todo[m] /\ d \in Deliveries
             /\ d.to \in Serves[m] /\ d.item.kind \in Makes[m] \cap Holds[d.to]
             /\ todo' \in [Modules -> Seq(Deliveries)]
             /\ \A w \in Modules : w # m => todo'[w] = todo[w]
             /\ Len(todo'[m]) = Len(todo[m]) - 1
             /\ \A k \in DOMAIN todo'[m] :
                  k \in Nat \ {0} /\ k + 1 \in DOMAIN todo[m] /\ todo'[m][k] = todo[m][k + 1]
             /\ contents' \in [Places -> Seq(Items)]
             /\ \A p \in Places : \/ contents'[p] = contents[p]
                                  \/ p = d.to /\ contents'[p] = Append(contents[p], d.item)
             /\ d.to \notin closed => contents'[d.to] = Append(contents[d.to], d.item)
             /\ \A p \in Places : p # d.to \/ d.to \in closed => contents'[p] = contents[p]
             /\ received' = received /\ closed' = closed
<1> DEFINE d == todo[m][1]
<1>1. /\ todo[m] \in Seq(Deliveries) /\ todo[m] # <<>>
      /\ todo \in [Modules -> Seq(Deliveries)] /\ contents \in [Places -> Seq(Items)]
  BY DEF ItemsOK, Deliver
<1>2. /\ Head(todo[m]) = d /\ 1 \in DOMAIN todo[m] /\ d \in Deliveries
      /\ Tail(todo[m]) \in Seq(Deliveries) /\ Len(Tail(todo[m])) = Len(todo[m]) - 1
      /\ \A k \in DOMAIN Tail(todo[m]) :
           k \in Nat \ {0} /\ k + 1 \in DOMAIN todo[m] /\ Tail(todo[m])[k] = todo[m][k + 1]
  BY <1>1, WithoutHead
<1>3. d.to \in Serves[m] /\ d.item.kind \in Makes[m] \cap Holds[d.to]
  BY <1>2 DEF ItemsOK
<1>4. d.to \in Places /\ d.item \in Items
  BY <1>2 DEF Deliveries
<1>5. todo' = [todo EXCEPT ![m] = Tail(todo[m])]
  BY DEF Deliver
<1>6. /\ todo' \in [Modules -> Seq(Deliveries)] /\ todo'[m] = Tail(todo[m])
      /\ \A w \in Modules : w # m => todo'[w] = todo[w]
  BY <1>1, <1>2, <1>5
<1>7. contents' = IF d.to \in closed THEN contents
                  ELSE [contents EXCEPT ![d.to] = Append(contents[d.to], d.item)]
  BY <1>2 DEF Deliver
<1>8. Append(contents[d.to], d.item) \in Seq(Items)
  BY <1>1, <1>4
<1> HIDE DEF d
<1>9. /\ contents' \in [Places -> Seq(Items)]
      /\ \A p \in Places : \/ contents'[p] = contents[p]
                           \/ p = d.to /\ contents'[p] = Append(contents[p], d.item)
      /\ d.to \notin closed => contents'[d.to] = Append(contents[d.to], d.item)
      /\ \A p \in Places : p # d.to \/ d.to \in closed => contents'[p] = contents[p]
  BY <1>1, <1>4, <1>7, <1>8
<1>10. received' = received /\ closed' = closed
  BY DEF Deliver
<1>11. QED
  BY <1>2, <1>3, <1>6, <1>9, <1>10 DEF d

(* What taking an item makes a module do: deliveries of the kinds it       *)
(* makes, each to another place, about the item taken.                     *)
Follows(m, item, deliveries) ==
  /\ deliveries \in Seq(Deliveries)
  /\ \A k \in DOMAIN deliveries :
       /\ deliveries[k].to \in Serves[m]
       /\ deliveries[k].item.kind \in Makes[m] \cap Holds[deliveries[k].to]
       /\ deliveries[k].item.number = item.number
       /\ m \in {"execution", "recording"} => deliveries[k].item = item
       /\ \A j \in DOMAIN deliveries : j # k => deliveries[j].to # deliveries[k].to

(* An item is taken from the front of the queue.                           *)
LEMMA TakeMoves ==
  ASSUME ItemsOK, NEW m \in Looping, NEW item, NEW deliveries \in Seq(Deliveries),
         Take(m, item, deliveries)
  PROVE  LET q == Input[m]
         IN  /\ q \in Queues /\ q \in Places /\ m \in Modules
             /\ item \in Items /\ item.kind \in Holds[q]
             /\ 1 \in DOMAIN contents[q] /\ item = contents[q][1]
             /\ todo[m] = <<>> /\ todo'[m] = deliveries
             /\ \A w \in Modules : w # m => todo'[w] = todo[w]
             /\ todo' \in [Modules -> Seq(Deliveries)]
             /\ contents' \in [Places -> Seq(Items)]
             /\ \A p \in Places : p # q => contents'[p] = contents[p]
             /\ contents[q] # <<>> /\ contents'[q] = Tail(contents[q])
             /\ \A k \in DOMAIN contents'[q] :
                  k \in Nat \ {0} /\ k + 1 \in DOMAIN contents[q]
                  /\ contents'[q][k] = contents[q][k + 1]
             /\ received' = received /\ closed' = closed
<1> DEFINE q == Input[m]
<1>1. q \in Queues /\ q \in Places /\ m \in Modules
  BY DEF Looping, Input, Queues, Places, Modules, Workers
<1>2. /\ todo \in [Modules -> Seq(Deliveries)] /\ contents \in [Places -> Seq(Items)]
      /\ contents[q] \in Seq(Items) /\ contents[q] # <<>>
      /\ \A k \in DOMAIN contents[q] : contents[q][k].kind \in Holds[q]
  BY <1>1 DEF ItemsOK, Take
<1>3. /\ Head(contents[q]) = contents[q][1] /\ 1 \in DOMAIN contents[q]
      /\ contents[q][1] \in Items /\ Tail(contents[q]) \in Seq(Items)
      /\ \A k \in DOMAIN Tail(contents[q]) :
           k \in Nat \ {0} /\ k + 1 \in DOMAIN contents[q] /\ Tail(contents[q])[k] = contents[q][k + 1]
  BY <1>2, WithoutHead
<1>4. /\ item = Head(contents[q]) /\ todo[m] = <<>>
      /\ contents' = [contents EXCEPT ![q] = Tail(contents[q])]
      /\ todo' = [todo EXCEPT ![m] = deliveries]
      /\ received' = received /\ closed' = closed
  BY DEF Take
<1> HIDE DEF q
<1>5. /\ todo'[m] = deliveries
      /\ \A w \in Modules : w # m => todo'[w] = todo[w]
      /\ todo' \in [Modules -> Seq(Deliveries)]
  BY <1>1, <1>2, <1>4
<1>6. /\ contents' \in [Places -> Seq(Items)]
      /\ \A p \in Places : p # q => contents'[p] = contents[p]
      /\ contents'[q] = Tail(contents[q])
  BY <1>1, <1>2, <1>3, <1>4
<1>7. item \in Items /\ item.kind \in Holds[q] /\ item = contents[q][1]
  BY <1>2, <1>3, <1>4
<1>8. QED
  BY <1>1, <1>2, <1>3, <1>4, <1>5, <1>6, <1>7 DEF q

(* Every turn of a module's loop takes an item and follows it up.          *)
LEMMA ProcessTakes ==
  ASSUME ItemsOK, NEW m \in Looping, Process(m)
  PROVE  \E item \in Items : \E deliveries \in Seq(Deliveries) :
           /\ Take(m, item, deliveries)
           /\ Follows(m, item, deliveries)
           /\ m = "execution" =>
                AppliedLast(deliveries) /\ (Len(deliveries) = 1 => item.kind = "request")
           /\ m = "recording" =>
                deliveries = IF item.kind = "request" THEN <<>> ELSE <<To("recorder", item)>>
<1>1. PICK item \in Range(contents[Input[m]]) :
        \/ m = "bookBuilder" /\ BuildEvent(item)
        \/ m = "strategy" /\ Evaluate(item)
        \/ m = "execution" /\ (ProcessRequest(item) \/ ProcessReport(item))
        \/ m = "recording" /\ Record(item)
        \/ m = "trade" /\ ProcessTrade(item)
  BY DEF Process
<1>2. item \in Items /\ item.kind \in Holds[Input[m]] /\ item.number \in Nat
  <2>1. Input[m] \in Places
    BY DEF Looping, Input, Queues, Places
  <2>2. /\ contents[Input[m]] \in Seq(Items)
        /\ \A k \in DOMAIN contents[Input[m]] : contents[Input[m]][k].kind \in Holds[Input[m]]
    BY <2>1 DEF ItemsOK
  <2>3. PICK k \in DOMAIN contents[Input[m]] : item = contents[Input[m]][k]
    BY DEF Range
  <2>4. contents[Input[m]][k] \in Items
    BY <2>2
  <2>5. QED
    BY <2>2, <2>3, <2>4 DEF Items
<1> DEFINE Good(deliveries) ==
             /\ Follows(m, item, deliveries)
             /\ m = "execution" =>
                  AppliedLast(deliveries) /\ (Len(deliveries) = 1 => item.kind = "request")
<1>3. Good(<<>>)
  BY DEF Follows, AppliedLast
<1>4. ASSUME m = "bookBuilder" PROVE Good(Announcement(Item("event", item.number)))
  <2>1. Item("event", item.number) \in Items /\ Item("event", item.number).number = item.number
        /\ Item("event", item.number).kind = "event"
    BY <1>2 DEF Item, Items, Kinds
  <2>2. QED
    BY <1>4, <2>1 DEF Announcement, Follows, To, Deliveries, Places, Queues, Serves, Makes, Holds
<1>5. ASSUME m = "strategy" PROVE Good(Request(item))
  <2>1. Item("request", item.number) \in Items
        /\ Item("request", item.number).number = item.number
        /\ Item("request", item.number).kind = "request"
    BY <1>2 DEF Item, Items, Kinds
  <2>2. QED
    BY <1>5, <2>1 DEF Request, Follows, To, Deliveries, Places, Queues, Serves, Makes, Holds
<1>6. ASSUME m = "execution", item.kind = "request"
      PROVE  /\ Good(<<To("recordingEventQueue", item), To("gateway", item)>>)
             /\ Good(<<To("recordingEventQueue", item)>>)
  <2> DEFINE both == <<To("recordingEventQueue", item), To("gateway", item)>>
             one == <<To("recordingEventQueue", item)>>
  <2>1. AppliedLast(both) /\ AppliedLast(one)
    <3>1. To("recordingEventQueue", item).item = item /\ To("gateway", item).item = item
      BY DEF To
    <3>2. \A k \in DOMAIN both : both[k].item = item
      BY <3>1
    <3>3. \A k \in DOMAIN one : one[k].item = item
      BY <3>1
    <3>4. QED
      BY <1>6, <3>2, <3>3 DEF AppliedLast
  <2>2. Follows(m, item, both) /\ Follows(m, item, one)
    BY <1>2, <1>6 DEF Follows, To, Deliveries, Places, Queues, Sinks, Serves, Makes, Holds
  <2>3. QED
    BY <1>6, <2>1, <2>2
<1>7. ASSUME m = "execution", item.kind = "report"
      PROVE  Good(<<To("recordingEventQueue", item), To("orderManager", item)>>)
  <2> DEFINE both == <<To("recordingEventQueue", item), To("orderManager", item)>>
  <2>1. AppliedLast(both) /\ Len(both) = 2
    BY <1>2, <1>7 DEF AppliedLast
  <2>2. Follows(m, item, both)
    BY <1>2, <1>7 DEF Follows, To, Deliveries, Places, Queues, Sinks, Serves, Makes, Holds
  <2>3. QED
    BY <2>1, <2>2
<1>8. ASSUME m = "recording", item.kind # "request" PROVE Good(Recorded(item))
  BY <1>2, <1>8 DEF Recorded, Follows, To, Deliveries, Places, Sinks, Serves, Makes, Holds, Input
<1>9. ASSUME m = "trade" PROVE Good(<<To("tradeProcessor", item)>>)
  BY <1>2, <1>9 DEF Follows, To, Deliveries, Places, Sinks, Serves, Makes, Holds, Input
<1> HIDE DEF Good
<1>10. \E deliveries :
         /\ Take(m, item, deliveries) /\ Good(deliveries)
         /\ m = "recording" =>
              deliveries = IF item.kind = "request" THEN <<>> ELSE <<To("recorder", item)>>
  <2>1. CASE m = "recording"
    <3> DEFINE made == IF item.kind = "request" THEN <<>> ELSE <<To("recorder", item)>>
    <3>1. Take(m, item, made)
      BY <1>1, <2>1 DEF Record, Recorded
    <3>2. Good(made)
      BY <1>3, <1>8, <2>1 DEF Recorded
    <3>3. QED
      BY <3>1, <3>2
  <2>2. CASE m # "recording"
    BY <1>1, <1>3, <1>4, <1>5, <1>6, <1>7, <1>9, <2>2
       DEF BuildEvent, Evaluate, ProcessRequest, ProcessReport, ProcessTrade
  <2>3. QED
    BY <2>1, <2>2
<1>11. QED
  BY <1>2, <1>10 DEF Good, Follows

LEMMA InitItemsOK == Init => ItemsOK
<1> SUFFICES ASSUME Init PROVE ItemsOK
  OBVIOUS
<1>1. /\ \A p \in Places : contents[p] = <<>>
      /\ \A m \in Modules : todo[m] = <<>>
      /\ received \in [{"update", "trade", "report"} -> Nat]
      /\ contents \in [Places -> Seq(Items)] /\ todo \in [Modules -> Seq(Deliveries)]
  BY DEF Init
<1>2. QED
  BY <1>1 DEF ItemsOK

LEMMA DeliverItemsOK ==
  ASSUME ItemsOK, NEW m \in Modules, Deliver(m)
  PROVE  ItemsOK'
<1> DEFINE d == todo[m][1]
<1>1. /\ d \in Deliveries /\ d.item.kind \in Holds[d.to] /\ d.to \in Places /\ d.item \in Items
      /\ todo' \in [Modules -> Seq(Deliveries)]
      /\ \A w \in Modules : w # m => todo'[w] = todo[w]
      /\ \A k \in DOMAIN todo'[m] :
           k \in Nat \ {0} /\ k + 1 \in DOMAIN todo[m] /\ todo'[m][k] = todo[m][k + 1]
      /\ contents' \in [Places -> Seq(Items)]
      /\ \A p \in Places : \/ contents'[p] = contents[p]
                           \/ p = d.to /\ contents'[p] = Append(contents[p], d.item)
      /\ received' = received
  BY DeliverMoves DEF Deliveries
<1>2. ASSUME NEW p \in Places, NEW k \in DOMAIN contents'[p]
      PROVE  contents'[p][k].kind \in Holds[p]
  <2>1. CASE contents'[p] = contents[p]
    BY <1>2, <2>1 DEF ItemsOK
  <2>2. CASE p = d.to /\ contents'[p] = Append(contents[p], d.item)
    <3>1. contents[p] \in Seq(Items)
      BY DEF ItemsOK
    <3>2. CASE k \in DOMAIN contents[p]
      <4>1. contents'[p][k] = contents[p][k]
        BY <1>1, <2>2, <3>1, <3>2, WithLast
      <4>2. QED
        BY <3>2, <4>1 DEF ItemsOK
    <3>3. CASE k \notin DOMAIN contents[p]
      <4>1. contents'[p][k] = d.item
        BY <1>1, <1>2, <2>2, <3>1, <3>3, WithLast
      <4>2. QED
        BY <1>1, <2>2, <4>1
    <3>4. QED
      BY <3>2, <3>3
  <2>3. QED
    BY <1>1, <2>1, <2>2
<1>3. ASSUME NEW w \in Modules, NEW k \in DOMAIN todo'[w]
      PROVE  /\ todo'[w][k].to \in Serves[w]
             /\ todo'[w][k].item.kind \in Makes[w] \cap Holds[todo'[w][k].to]
             /\ \A j \in DOMAIN todo'[w] :
                  j # k /\ todo'[w][j].to = todo'[w][k].to => todo'[w][k].to = "tradeQueue"
  <2>1. CASE w # m
    BY <1>1, <1>3, <2>1 DEF ItemsOK
  <2>2. CASE w = m
    <3>1. \A j \in DOMAIN todo'[m] : j # k => j + 1 # k + 1
      BY <1>1, <1>3, <2>2
    <3>2. QED
      BY <1>1, <1>3, <2>2, <3>1 DEF ItemsOK
  <2>3. QED
    BY <2>1, <2>2
<1>4. QED
  BY <1>1, <1>2, <1>3 DEF ItemsOK

LEMMA TakeItemsOK ==
  ASSUME ItemsOK, NEW m \in Looping, NEW item, NEW deliveries,
         Take(m, item, deliveries), Follows(m, item, deliveries)
  PROVE  ItemsOK'
<1> DEFINE q == Input[m]
<1>0. deliveries \in Seq(Deliveries)
  BY DEF Follows
<1>1. /\ q \in Places /\ m \in Modules
      /\ todo'[m] = deliveries
      /\ \A w \in Modules : w # m => todo'[w] = todo[w]
      /\ todo' \in [Modules -> Seq(Deliveries)]
      /\ contents' \in [Places -> Seq(Items)]
      /\ \A p \in Places : p # q => contents'[p] = contents[p]
      /\ \A k \in DOMAIN contents'[q] :
           k + 1 \in DOMAIN contents[q] /\ contents'[q][k] = contents[q][k + 1]
      /\ received' = received
  BY <1>0, TakeMoves
<1>2. ASSUME NEW p \in Places, NEW k \in DOMAIN contents'[p]
      PROVE  contents'[p][k].kind \in Holds[p]
  <2>1. CASE p # q
    <3>1. contents'[p] = contents[p]
      BY <1>1, <2>1
    <3>2. QED
      BY <1>2, <3>1 DEF ItemsOK
  <2>2. CASE p = q
    <3>1. k + 1 \in DOMAIN contents[q] /\ contents'[q][k] = contents[q][k + 1]
      BY <1>1, <1>2, <2>2
    <3>2. QED
      BY <1>1, <2>2, <3>1 DEF ItemsOK
  <2>3. QED
    BY <2>1, <2>2
<1>3. ASSUME NEW w \in Modules, NEW k \in DOMAIN todo'[w]
      PROVE  /\ todo'[w][k].to \in Serves[w]
             /\ todo'[w][k].item.kind \in Makes[w] \cap Holds[todo'[w][k].to]
             /\ \A j \in DOMAIN todo'[w] :
                  j # k /\ todo'[w][j].to = todo'[w][k].to => todo'[w][k].to = "tradeQueue"
  <2>1. CASE w # m
    BY <1>1, <1>3, <2>1 DEF ItemsOK
  <2>2. CASE w = m
    BY <1>1, <1>3, <2>2 DEF Follows
  <2>3. QED
    BY <2>1, <2>2
<1>4. QED
  BY <1>1, <1>2, <1>3 DEF ItemsOK

(* New deliveries of a module that had none.                               *)
LEMMA GivenItemsOK ==
  ASSUME ItemsOK, NEW m \in Modules, NEW deliveries \in Seq(Deliveries),
         todo' = [todo EXCEPT ![m] = deliveries], contents' = contents,
         received' \in [{"update", "trade", "report"} -> Nat],
         \A k \in DOMAIN deliveries :
           /\ deliveries[k].to \in Serves[m]
           /\ deliveries[k].item.kind \in Makes[m] \cap Holds[deliveries[k].to]
           /\ \A j \in DOMAIN deliveries :
                j # k /\ deliveries[j].to = deliveries[k].to => deliveries[k].to = "tradeQueue"
  PROVE  ItemsOK'
<1>1. todo \in [Modules -> Seq(Deliveries)]
  BY DEF ItemsOK
<1>2. /\ todo'[m] = deliveries /\ todo' \in [Modules -> Seq(Deliveries)]
      /\ \A w \in Modules : w # m => todo'[w] = todo[w]
  BY <1>1
<1>3. QED
  BY <1>2 DEF ItemsOK

(* What the sources hand in, item by item.                                 *)
LEMMA UpdateReceived ==
  ASSUME ItemsOK, ReceiveUpdate
  PROVE  LET d == To("bookUpdateQueue", Item("update", received["update"] + 1))
         IN  /\ todo' = [todo EXCEPT !["marketData"] = <<d>>] /\ <<d>> \in Seq(Deliveries)
             /\ todo["marketData"] = <<>> /\ contents' = contents
             /\ received'["update"] = received["update"] + 1
             /\ ItemsOK'
<1> DEFINE d == To("bookUpdateQueue", Item("update", received["update"] + 1))
<1>1. /\ received["update"] \in Nat
      /\ received' = [received EXCEPT !["update"] = @ + 1]
      /\ received' \in [{"update", "trade", "report"} -> Nat]
      /\ received'["update"] = received["update"] + 1
  BY DEF ItemsOK, ReceiveUpdate
<1>2. todo' = [todo EXCEPT !["marketData"] = <<d>>]
  BY <1>1 DEF ReceiveUpdate
<1>3. <<d>> \in Seq(Deliveries) /\ "marketData" \in Modules
  BY <1>1 DEF To, Item, Deliveries, Items, Kinds, Places, Queues, Modules
<1>4. \A k \in DOMAIN <<d>> : /\ k = 1 /\ <<d>>[k].to \in Serves["marketData"]
                              /\ <<d>>[k].item.kind \in Makes["marketData"] \cap Holds[<<d>>[k].to]
  BY DEF To, Item, Serves, Makes, Holds
<1>5. todo["marketData"] = <<>> /\ contents' = contents
  BY DEF ReceiveUpdate
<1> HIDE DEF d
<1>6. ItemsOK'
  BY <1>1, <1>2, <1>3, <1>4, <1>5, GivenItemsOK
<1>7. QED
  BY <1>1, <1>2, <1>3, <1>5, <1>6 DEF d

LEMMA TradesReceived ==
  ASSUME ItemsOK, NEW count \in 1..MaxTrades, ReceiveTrades(count)
  PROVE  /\ \E deliveries \in Seq(Deliveries) :
              /\ todo' = [todo EXCEPT !["marketData"] = deliveries]
              /\ \A k \in DOMAIN deliveries : deliveries[k].to = "tradeQueue"
         /\ todo["marketData"] = <<>> /\ contents' = contents
         /\ received'["update"] = received["update"]
         /\ ItemsOK'
<1> DEFINE ds == [k \in 1..count |-> To("tradeQueue", Item("trade", received["trade"] + k))]
<1>0. count \in Nat
  BY BoundsAssumption
<1>1. /\ received["trade"] \in Nat
      /\ received' \in [{"update", "trade", "report"} -> Nat]
      /\ received'["update"] = received["update"]
  BY <1>0 DEF ItemsOK, ReceiveTrades
<1>2. todo' = [todo EXCEPT !["marketData"] = ds]
  BY DEF ReceiveTrades
<1>3. \A k \in 1..count : To("tradeQueue", Item("trade", received["trade"] + k)) \in Deliveries
  BY <1>0, <1>1 DEF To, Item, Deliveries, Items, Kinds, Places, Queues
<1>4. ds \in Seq(Deliveries) /\ DOMAIN ds = 1..count
  BY <1>0, <1>3, IsASeq
<1>5. \A k \in DOMAIN ds : ds[k].to = "tradeQueue" /\ ds[k].item.kind = "trade"
  BY <1>4 DEF To, Item
<1>6. todo["marketData"] = <<>> /\ contents' = contents /\ "marketData" \in Modules
  BY DEF ReceiveTrades, Modules
<1> HIDE DEF ds
<1>7. \A k \in DOMAIN ds : /\ ds[k].to \in Serves["marketData"]
                           /\ ds[k].item.kind \in Makes["marketData"] \cap Holds[ds[k].to]
  BY <1>5 DEF Serves, Makes, Holds
<1>8. ItemsOK'
  BY <1>1, <1>2, <1>4, <1>5, <1>6, <1>7, GivenItemsOK
<1>9. QED
  BY <1>1, <1>2, <1>4, <1>5, <1>6, <1>8

LEMMA ReportReceived ==
  ASSUME ItemsOK, ReceiveReport
  PROVE  /\ \E d \in Deliveries : /\ todo' = [todo EXCEPT !["executionReport"] = <<d>>]
                                  /\ d.to = "executionQueue" /\ d.item.kind = "report"
         /\ contents' = contents /\ received'["update"] = received["update"]
         /\ ItemsOK'
<1>1. PICK k \in DOMAIN contents["gateway"] :
        todo' = [todo EXCEPT !["executionReport"] = Published(contents["gateway"][k].number)]
  BY DEF ReceiveReport
<1> DEFINE d == To("executionQueue", Item("report", contents["gateway"][k].number))
<1>2. contents["gateway"][k].number \in Nat
  <2>1. contents["gateway"] \in Seq(Items)
    BY DEF ItemsOK, Places, Sinks
  <2>2. contents["gateway"][k] \in Items
    BY <2>1
  <2>3. QED
    BY <2>2 DEF Items
<1>3. /\ todo' = [todo EXCEPT !["executionReport"] = <<d>>]
      /\ d \in Deliveries /\ d.to = "executionQueue" /\ d.item.kind = "report"
  BY <1>1, <1>2 DEF Published, To, Item, Deliveries, Items, Kinds, Places, Queues
<1>4. /\ received' \in [{"update", "trade", "report"} -> Nat] /\ contents' = contents
      /\ received'["update"] = received["update"] /\ "executionReport" \in Modules
  BY DEF ItemsOK, ReceiveReport, Modules, Workers
<1> HIDE DEF d
<1>5. /\ <<d>> \in Seq(Deliveries)
      /\ \A j \in DOMAIN <<d>> : /\ j = 1 /\ <<d>>[j].to \in Serves["executionReport"]
              /\ <<d>>[j].item.kind \in Makes["executionReport"] \cap Holds[<<d>>[j].to]
  BY <1>3 DEF Serves, Makes, Holds
<1>6. ItemsOK'
  BY <1>3, <1>4, <1>5, GivenItemsOK
<1>7. QED
  BY <1>3, <1>4, <1>6

(* All other steps move nothing.                                           *)
Still == UNCHANGED <<todo, contents, received>>

LEMMA Moves ==
  ASSUME [Next]_vars
  PROVE  \/ \E m \in Modules : Deliver(m)
         \/ \E m \in Looping : Process(m)
         \/ ReceiveUpdate
         \/ \E count \in 1..MaxTrades : ReceiveTrades(count)
         \/ ReceiveReport
         \/ Still
BY DEF Next, Main, Start, StartModule, Stop, StopModule, Advance, Close, EndLoop, ApplySnapshot,
       Sources, ReportSourceReturns, Still, vars, application

LEMMA NextItemsOK == ItemsOK /\ [Next]_vars => ItemsOK'
<1> SUFFICES ASSUME ItemsOK, [Next]_vars PROVE ItemsOK'
  OBVIOUS
<1>1. ASSUME NEW m \in Looping, Process(m) PROVE ItemsOK'
  BY <1>1, ProcessTakes, TakeItemsOK
<1>2. CASE Still
  BY <1>2 DEF Still, ItemsOK
<1>3. QED
  BY <1>1, <1>2, Moves, DeliverItemsOK, UpdateReceived, TradesReceived, ReportReceived

-----------------------------------------------------------------------------
(* One number goes one stage further along a route, the least of those     *)
(* where it was; others only disappear.                                    *)
LEMMA MovedAlong ==
  ASSUME NEW stages \in Nat, NEW old \in SUBSET ((1..stages) \X Nat),
         NEW new \in SUBSET ((1..stages) \X Nat), Falling(old), NEW at \in old,
         \A b \in new : \/ b \in old /\ (b[1] = at[1] => at[2] < b[2])
                        \/ b[1] = at[1] + 1 /\ b[2] = at[2]
  PROVE  Falling(new)
<1>1. \A a \in old \cup new : a[1] \in Nat /\ a[2] \in Nat
  OBVIOUS
<1>2. SUFFICES ASSUME NEW a \in new, NEW b \in new, a[1] < b[1]
               PROVE  b[2] < a[2]
  BY DEF Falling
<1>3. CASE a \in old /\ b \in old
  BY <1>2, <1>3 DEF Falling
<1>4. CASE /\ a \in old /\ (a[1] = at[1] => at[2] < a[2])
           /\ b[1] = at[1] + 1 /\ b[2] = at[2]
  <2>1. a[1] = at[1] \/ a[1] < at[1]
    BY <1>1, <1>2, <1>4
  <2>2. QED
    BY <1>4, <2>1 DEF Falling
<1>5. CASE a[1] = at[1] + 1 /\ a[2] = at[2] /\ b \in old
  <2>1. at[1] < b[1]
    BY <1>1, <1>2, <1>5
  <2>2. QED
    BY <1>5, <2>1 DEF Falling
<1>6. CASE a[1] = at[1] + 1 /\ b[1] = at[1] + 1
  BY <1>1, <1>2, <1>6
<1>7. QED
  BY <1>3, <1>4, <1>5, <1>6

LEMMA FewerAlong ==
  ASSUME NEW old, NEW new \in SUBSET old, Falling(old)
  PROVE  Falling(new)
BY DEF Falling

LEMMA RouteTypes ==
  OrderRoute \in SUBSET ((1..8) \X Nat) /\ RecordRoute \in SUBSET ((1..6) \X Nat)
BY DEF OrderRoute, RecordRoute

(* What a delivery does to the numbers due and held.                       *)
LEMMA DeliverNumbers ==
  ASSUME ItemsOK, NEW m \in Modules, Deliver(m)
  PROVE  LET d == todo[m][1]
         IN  /\ d.item.number \in Due(m, d.to, d.item.kind)
             /\ d.to \in Serves[m] /\ d.item.kind \in Makes[m] \cap Holds[d.to]
             /\ d.item.number \in Nat
             /\ \A w \in Modules : w # m => \A p, kind : Due(w, p, kind)' = Due(w, p, kind)
             /\ \A p, kind : Due(m, p, kind)' \subseteq Due(m, p, kind)
             /\ \A p, kind : p = d.to /\ p # "tradeQueue" => Due(m, p, kind)' = {}
             /\ \A p \in Places : \A kind : \A n \in Held(p, kind)' :
                  \/ n \in Held(p, kind)
                  \/ p = d.to /\ kind = d.item.kind /\ n = d.item.number
<1> DEFINE d == todo[m][1]
<1>1. /\ 1 \in DOMAIN todo[m] /\ d \in Deliveries /\ d.to \in Serves[m]
      /\ d.item.kind \in Makes[m] \cap Holds[d.to]
      /\ \A w \in Modules : w # m => todo'[w] = todo[w]
      /\ \A k \in DOMAIN todo'[m] :
           k \in Nat \ {0} /\ k + 1 \in DOMAIN todo[m] /\ todo'[m][k] = todo[m][k + 1]
      /\ \A p \in Places : \/ contents'[p] = contents[p]
                           \/ p = d.to /\ contents'[p] = Append(contents[p], d.item)
  BY DeliverMoves
<1>2. d.item.number \in Nat /\ d.item.number \in Due(m, d.to, d.item.kind)
  BY <1>1 DEF Due, Deliveries, Items
<1>3. \A w \in Modules : w # m => \A p, kind : Due(w, p, kind)' = Due(w, p, kind)
  BY <1>1 DEF Due
<1>4. \A p, kind : Due(m, p, kind)' \subseteq Due(m, p, kind)
  BY <1>1 DEF Due
<1>5. ASSUME NEW p, p = d.to, p # "tradeQueue", NEW kind PROVE Due(m, p, kind)' = {}
  <2>1. \A k \in DOMAIN todo'[m] : todo'[m][k].to # p
    <3>1. SUFFICES ASSUME NEW k \in DOMAIN todo'[m], todo'[m][k].to = p PROVE FALSE
      OBVIOUS
    <3>2. k + 1 \in DOMAIN todo[m] /\ k + 1 # 1 /\ todo[m][k + 1].to = todo[m][1].to
      BY <1>1, <1>5, <3>1
    <3>3. QED
      BY <1>1, <1>5, <3>2 DEF ItemsOK
  <2>2. QED
    BY <2>1 DEF Due
<1>6. ASSUME NEW p \in Places, NEW kind, NEW n \in Held(p, kind)'
      PROVE  \/ n \in Held(p, kind)
             \/ p = d.to /\ kind = d.item.kind /\ n = d.item.number
  <2>1. PICK k \in DOMAIN contents'[p] : contents'[p][k].kind = kind /\ n = contents'[p][k].number
    BY <1>6 DEF Held
  <2>2. CASE contents'[p] = contents[p]
    BY <2>1, <2>2 DEF Held
  <2>3. CASE p = d.to /\ contents'[p] = Append(contents[p], d.item)
    <3>1. contents[p] \in Seq(Items) /\ d.item \in Items
      BY <1>1 DEF ItemsOK, Deliveries
    <3>2. \/ k \in DOMAIN contents[p] /\ contents'[p][k] = contents[p][k]
          \/ contents'[p][k] = d.item
      BY <2>1, <2>3, <3>1, WithLast
    <3>3. QED
      BY <2>1, <2>3, <3>2 DEF Held
  <2>4. QED
    BY <1>1, <2>2, <2>3
<1>7. QED
  BY <1>1, <1>2, <1>3, <1>4, <1>5, <1>6

(* What taking an item does to them.                                       *)
LEMMA TakeNumbers ==
  ASSUME ItemsOK, NEW m \in Looping, NEW item, NEW deliveries,
         Take(m, item, deliveries), Follows(m, item, deliveries)
  PROVE  LET q == Input[m]
         IN  /\ q \in Places /\ item \in Items /\ item.number \in Nat
             /\ item.kind \in Holds[q] /\ item.number \in Held(q, item.kind)
             /\ \A w \in Modules : w # m => \A p, kind : Due(w, p, kind)' = Due(w, p, kind)
             /\ \A p, kind : \A n \in Due(m, p, kind)' :
                  /\ n = item.number /\ p \in Serves[m] /\ kind \in Makes[m]
                  /\ m \in {"execution", "recording"} => kind = item.kind
             /\ \A p \in Places : \A kind : Held(p, kind)' \subseteq Held(p, kind)
             /\ Sorted(q, item.kind) => \A n \in Held(q, item.kind)' : item.number < n
<1> DEFINE q == Input[m]
<1>0. deliveries \in Seq(Deliveries)
  BY DEF Follows
<1>1. /\ q \in Places /\ item \in Items /\ item.kind \in Holds[q]
      /\ 1 \in DOMAIN contents[q] /\ item = contents[q][1]
      /\ todo'[m] = deliveries
      /\ \A w \in Modules : w # m => todo'[w] = todo[w]
      /\ \A p \in Places : p # q => contents'[p] = contents[p]
      /\ \A k \in DOMAIN contents'[q] :
           k \in Nat \ {0} /\ k + 1 \in DOMAIN contents[q] /\ contents'[q][k] = contents[q][k + 1]
  BY <1>0, TakeMoves
<1>2. item.number \in Nat /\ item.number \in Held(q, item.kind)
  BY <1>1 DEF Held, Items
<1>3. \A w \in Modules : w # m => \A p, kind : Due(w, p, kind)' = Due(w, p, kind)
  BY <1>1 DEF Due
<1>4. ASSUME NEW p, NEW kind, NEW n \in Due(m, p, kind)'
      PROVE  /\ n = item.number /\ p \in Serves[m] /\ kind \in Makes[m]
             /\ m \in {"execution", "recording"} => kind = item.kind
  BY <1>1, <1>4 DEF Due, Follows
<1>5. ASSUME NEW p \in Places, NEW kind PROVE Held(p, kind)' \subseteq Held(p, kind)
  <2>1. CASE p # q
    BY <1>1, <2>1 DEF Held
  <2>2. CASE p = q
    BY <1>1, <2>2 DEF Held
  <2>3. QED
    BY <2>1, <2>2
<1>6. ASSUME Sorted(q, item.kind), NEW n \in Held(q, item.kind)' PROVE item.number < n
  <2>1. PICK k \in DOMAIN contents'[q] :
          contents'[q][k].kind = item.kind /\ n = contents'[q][k].number
    BY <1>6 DEF Held
  <2>2. /\ k + 1 \in DOMAIN contents[q] /\ 1 < k + 1
        /\ contents[q][k + 1].kind = item.kind /\ contents[q][k + 1].number = n
    BY <1>1, <2>1
  <2>3. QED
    BY <1>1, <1>6, <2>2 DEF Sorted
<1>7. QED
  BY <1>1, <1>2, <1>3, <1>4, <1>5, <1>6

(* A place stays sorted when what arrives is newer than all it holds, ...  *)
LEMMA SortedAfterDelivery ==
  ASSUME ItemsOK, NEW m \in Modules, Deliver(m), NEW p \in Places, NEW kind, Sorted(p, kind),
         p = todo[m][1].to /\ kind = todo[m][1].item.kind =>
           \A n \in Held(p, kind) : n < todo[m][1].item.number
  PROVE  Sorted(p, kind)'
<1> DEFINE d == todo[m][1]
<1>1. /\ d \in Deliveries /\ d.item \in Items
      /\ \/ contents'[p] = contents[p]
         \/ p = d.to /\ contents'[p] = Append(contents[p], d.item)
  BY DeliverMoves DEF Deliveries
<1>2. CASE contents'[p] = contents[p]
  BY <1>2 DEF Sorted
<1>3. CASE p = d.to /\ contents'[p] = Append(contents[p], d.item)
  <2>1. /\ DOMAIN contents'[p] = DOMAIN contents[p] \cup {Len(contents[p]) + 1}
        /\ DOMAIN contents[p] = 1..Len(contents[p]) /\ Len(contents[p]) \in Nat
        /\ \A k \in DOMAIN contents[p] : contents'[p][k] = contents[p][k]
        /\ contents'[p][Len(contents[p]) + 1] = d.item
    <3> DEFINE last == d.item
               held == contents[p]
    <3>1. held \in Seq(Items) /\ last \in Items /\ contents'[p] = Append(held, last)
      BY <1>1, <1>3 DEF ItemsOK
    <3> HIDE DEF last, held
    <3>2. /\ DOMAIN Append(held, last) = DOMAIN held \cup {Len(held) + 1}
          /\ DOMAIN held = 1..Len(held) /\ Len(held) \in Nat
          /\ \A k \in DOMAIN held : Append(held, last)[k] = held[k]
          /\ Append(held, last)[Len(held) + 1] = last
      BY <3>1, WithLast
    <3>3. QED
      BY <3>1, <3>2 DEF last, held
  <2>2. ASSUME NEW j \in DOMAIN contents'[p], NEW k \in DOMAIN contents'[p], j < k,
               contents'[p][j].kind = kind, contents'[p][k].kind = kind
        PROVE  contents'[p][j].number < contents'[p][k].number
    <3>1. j \in DOMAIN contents[p] /\ contents'[p][j] = contents[p][j]
      BY <2>1, <2>2
    <3>2. CASE k \in DOMAIN contents[p]
      BY <2>1, <2>2, <3>1, <3>2 DEF Sorted
    <3>3. CASE k = Len(contents[p]) + 1
      <4>1. contents[p][j].number \in Held(p, kind)
        BY <2>2, <3>1 DEF Held
      <4>2. contents'[p][k] = d.item
        BY <2>1, <3>3
      <4>3. QED
        BY <1>3, <2>2, <3>1, <4>1, <4>2
    <3>4. QED
      BY <2>1, <2>2, <3>2, <3>3
  <2>3. QED
    BY <2>2 DEF Sorted
<1>4. QED
  BY <1>1, <1>2, <1>3

(* ... and when its first item is taken.                                   *)
LEMMA SortedAfterTake ==
  ASSUME ItemsOK, NEW m \in Looping, NEW item, NEW deliveries,
         Take(m, item, deliveries), Follows(m, item, deliveries),
         NEW p \in Places, NEW kind, Sorted(p, kind)
  PROVE  Sorted(p, kind)'
<1>0. deliveries \in Seq(Deliveries)
  BY DEF Follows
<1>1. \/ contents'[p] = contents[p]
      \/ \A k \in DOMAIN contents'[p] :
           k \in Nat \ {0} /\ k + 1 \in DOMAIN contents[p] /\ contents'[p][k] = contents[p][k + 1]
  BY <1>0, TakeMoves
<1>2. CASE contents'[p] = contents[p]
  BY <1>2 DEF Sorted
<1>3. CASE \A k \in DOMAIN contents'[p] :
             k \in Nat \ {0} /\ k + 1 \in DOMAIN contents[p] /\ contents'[p][k] = contents[p][k + 1]
  BY <1>3 DEF Sorted
<1>4. QED
  BY <1>1, <1>2, <1>3

(* A delivery moves its number on from a stage where it was alone, or none *)
(* on this route.                                                          *)
LEMMA DeliverAlongOrders ==
  ASSUME ItemsOK, NEW m \in Modules, Deliver(m), Falling(OrderRoute)
  PROVE  /\ Falling(OrderRoute')
         /\ \A b \in OrderRoute' : \E a \in OrderRoute : a[2] = b[2]
         /\ \A p \in {"bookUpdateQueue", "strategyEventQueue", "executionQueue", "gateway"},
               kind \in {"update", "event", "request"} :
              p = todo[m][1].to /\ kind = todo[m][1].item.kind =>
                \A n \in Held(p, kind) : n < todo[m][1].item.number
<1> DEFINE d == todo[m][1]
           x == d.item.number
           place == d.to
           kind0 == d.item.kind
           stage == IF m = "marketData" /\ place = "bookUpdateQueue" THEN 1
                    ELSE IF m = "bookBuilder" /\ place = "strategyEventQueue" THEN 3
                    ELSE IF m = "strategy" THEN 5
                    ELSE IF m = "execution" /\ place = "gateway" THEN 7 ELSE 0
<1>1. /\ x \in Due(m, place, kind0) /\ x \in Nat
      /\ place \in Serves[m] /\ kind0 \in Makes[m] \cap Holds[place]
      /\ \A w \in Modules : w # m => \A p, kind : Due(w, p, kind)' = Due(w, p, kind)
      /\ \A p, kind : Due(m, p, kind)' \subseteq Due(m, p, kind)
      /\ \A p, kind : p = place /\ p # "tradeQueue" => Due(m, p, kind)' = {}
      /\ \A p \in Places : \A kind : \A n \in Held(p, kind)' :
           n \in Held(p, kind) \/ (p = place /\ kind = kind0 /\ n = x)
  BY DeliverNumbers
<1> HIDE DEF d, x, place, kind0
<1>2. \/ m = "marketData" /\ place = "bookUpdateQueue" /\ kind0 = "update"
      \/ m = "bookBuilder" /\ place = "strategyEventQueue" /\ kind0 = "event"
      \/ m = "strategy" /\ place = "executionQueue" /\ kind0 = "request"
      \/ m = "execution" /\ place = "gateway" /\ kind0 = "request"
      \/ /\ stage = 0
         /\ place \notin {"bookUpdateQueue", "strategyEventQueue", "gateway"}
         /\ place # "executionQueue" \/ kind0 = "report"
  BY <1>1 DEF Modules, Workers, Looping, Input, Serves, Makes, Holds
<1>3. stage # 0 => <<stage, x>> \in OrderRoute
  BY <1>1, <1>2 DEF OrderRoute
<1>4. ASSUME NEW b \in OrderRoute'
      PROVE  \/ b \in OrderRoute /\ b[1] # stage
             \/ stage # 0 /\ b[1] = stage + 1 /\ b[2] = x
  <2>1. /\ b \in (1..8) \X Nat
        /\ \/ b[1] = 1 /\ b[2] \in Due("marketData", "bookUpdateQueue", "update")'
           \/ b[1] = 2 /\ b[2] \in Held("bookUpdateQueue", "update")'
           \/ b[1] = 3 /\ b[2] \in Due("bookBuilder", "strategyEventQueue", "event")'
           \/ b[1] = 4 /\ b[2] \in Held("strategyEventQueue", "event")'
           \/ b[1] = 5 /\ b[2] \in Due("strategy", "executionQueue", "request")'
           \/ b[1] = 6 /\ b[2] \in Held("executionQueue", "request")'
           \/ b[1] = 7 /\ b[2] \in Due("execution", "gateway", "request")'
           \/ b[1] = 8 /\ b[2] \in Held("gateway", "request")'
    BY <1>4 DEF OrderRoute
  <2>2. /\ {"bookUpdateQueue", "strategyEventQueue", "executionQueue", "gateway"} \subseteq Places
        /\ {"marketData", "bookBuilder", "strategy", "execution"} \subseteq Modules
    BY DEF Places, Queues, Sinks, Modules, Workers, Looping, Input
  <2>3. CASE b[1] = 1
    BY <1>1, <1>2, <2>1, <2>2, <2>3 DEF OrderRoute
  <2>4. CASE b[1] = 2
    BY <1>1, <1>2, <2>1, <2>2, <2>4 DEF OrderRoute
  <2>5. CASE b[1] = 3
    BY <1>1, <1>2, <2>1, <2>2, <2>5 DEF OrderRoute
  <2>6. CASE b[1] = 4
    BY <1>1, <1>2, <2>1, <2>2, <2>6 DEF OrderRoute
  <2>7. CASE b[1] = 5
    BY <1>1, <1>2, <2>1, <2>2, <2>7 DEF OrderRoute
  <2>8. CASE b[1] = 6
    BY <1>1, <1>2, <2>1, <2>2, <2>8 DEF OrderRoute
  <2>9. CASE b[1] = 7
    BY <1>1, <1>2, <2>1, <2>2, <2>9 DEF OrderRoute
  <2>10. CASE b[1] = 8
    BY <1>1, <1>2, <2>1, <2>2, <2>10 DEF OrderRoute
  <2>11. QED
    BY <2>1, <2>3, <2>4, <2>5, <2>6, <2>7, <2>8, <2>9, <2>10
<1>5. Falling(OrderRoute')
  <2>1. OrderRoute' \in SUBSET ((1..8) \X Nat) /\ OrderRoute \in SUBSET ((1..8) \X Nat)
    BY DEF OrderRoute
  <2>2. CASE stage = 0
    BY <1>4, <2>2, FewerAlong
  <2>3. CASE stage # 0
    <3> DEFINE at == <<stage, x>>
    <3>1. at \in OrderRoute /\ at[1] = stage /\ at[2] = x
      BY <1>3, <2>3
    <3> HIDE DEF at, stage
    <3>2. \A b \in OrderRoute' : \/ b \in OrderRoute /\ (b[1] = at[1] => at[2] < b[2])
                                 \/ b[1] = at[1] + 1 /\ b[2] = at[2]
      BY <1>4, <3>1
    <3>3. QED
      BY <2>1, <3>1, <3>2, MovedAlong
  <2>4. QED
    BY <2>2, <2>3
<1>6. ASSUME NEW p \in {"bookUpdateQueue", "strategyEventQueue", "executionQueue", "gateway"},
             NEW kind \in {"update", "event", "request"}, p = place, kind = kind0,
             NEW n \in Held(p, kind)
      PROVE  n < x
  <2>1. stage # 0 /\ <<stage, x>> \in OrderRoute
    BY <1>2, <1>3, <1>6
  <2>2. n \in Nat
    <3>1. p \in Places
      BY DEF Places, Queues, Sinks
    <3>2. contents[p] \in Seq(Items)
      BY <3>1 DEF ItemsOK
    <3>3. \A k \in DOMAIN contents[p] : contents[p][k] \in Items
      BY <3>2
    <3>4. QED
      BY <1>6, <3>3 DEF Held, Items
  <2>3. <<stage + 1, n>> \in OrderRoute
    BY <1>2, <1>6, <2>2 DEF OrderRoute
  <2>4. <<stage, x>>[1] < <<stage + 1, n>>[1]
    OBVIOUS
  <2>5. <<stage + 1, n>>[2] < <<stage, x>>[2]
    BY <2>1, <2>3, <2>4 DEF Falling
  <2>6. QED
    BY <2>5
<1>7. \A b \in OrderRoute' : \E a \in OrderRoute : a[2] = b[2]
  <2>1. SUFFICES ASSUME NEW b \in OrderRoute' PROVE \E a \in OrderRoute : a[2] = b[2]
    OBVIOUS
  <2>2. CASE b \in OrderRoute
    BY <2>2
  <2>3. CASE stage # 0 /\ b[2] = x
    <3>1. <<stage, x>>[2] = x
      OBVIOUS
    <3>2. QED
      BY <1>3, <2>3, <3>1
  <2>4. QED
    BY <1>4, <2>1, <2>2, <2>3
<1>8. QED
  BY <1>5, <1>6, <1>7 DEF x, place, kind0, d

LEMMA DeliverAlongRecords ==
  ASSUME ItemsOK, NEW m \in Modules, Deliver(m), Falling(RecordRoute)
  PROVE  /\ Falling(RecordRoute')
         /\ \A b \in RecordRoute' : \E a \in RecordRoute : a[2] = b[2]
         /\ \A p \in {"bookUpdateQueue", "recordingEventQueue", "recorder"},
               kind \in {"update", "event"} :
              p = todo[m][1].to /\ kind = todo[m][1].item.kind =>
                \A n \in Held(p, kind) : n < todo[m][1].item.number
<1> DEFINE d == todo[m][1]
           x == d.item.number
           place == d.to
           kind0 == d.item.kind
           stage == IF m = "marketData" /\ place = "bookUpdateQueue" THEN 1
                    ELSE IF m = "bookBuilder" /\ place = "recordingEventQueue" THEN 3
                    ELSE IF m = "recording" /\ kind0 = "event" THEN 5 ELSE 0
<1>1. /\ x \in Due(m, place, kind0) /\ x \in Nat
      /\ place \in Serves[m] /\ kind0 \in Makes[m] \cap Holds[place]
      /\ \A w \in Modules : w # m => \A p, kind : Due(w, p, kind)' = Due(w, p, kind)
      /\ \A p, kind : Due(m, p, kind)' \subseteq Due(m, p, kind)
      /\ \A p, kind : p = place /\ p # "tradeQueue" => Due(m, p, kind)' = {}
      /\ \A p \in Places : \A kind : \A n \in Held(p, kind)' :
           n \in Held(p, kind) \/ (p = place /\ kind = kind0 /\ n = x)
  BY DeliverNumbers
<1> HIDE DEF d, x, place, kind0
<1>2. \/ m = "marketData" /\ place = "bookUpdateQueue" /\ kind0 = "update"
      \/ m = "bookBuilder" /\ place = "recordingEventQueue" /\ kind0 = "event"
      \/ m = "recording" /\ place = "recorder" /\ kind0 = "event"
      \/ /\ stage = 0
         /\ place # "bookUpdateQueue"
         /\ place \notin {"recordingEventQueue", "recorder"} \/ kind0 \notin {"update", "event"}
  BY <1>1 DEF Modules, Workers, Looping, Input, Serves, Makes, Holds
<1>3. stage # 0 => <<stage, x>> \in RecordRoute
  BY <1>1, <1>2 DEF RecordRoute
<1>4. ASSUME NEW b \in RecordRoute'
      PROVE  \/ b \in RecordRoute /\ b[1] # stage
             \/ stage # 0 /\ b[1] = stage + 1 /\ b[2] = x
  <2>1. /\ b \in (1..6) \X Nat
        /\ \/ b[1] = 1 /\ b[2] \in Due("marketData", "bookUpdateQueue", "update")'
           \/ b[1] = 2 /\ b[2] \in Held("bookUpdateQueue", "update")'
           \/ b[1] = 3 /\ b[2] \in Due("bookBuilder", "recordingEventQueue", "event")'
           \/ b[1] = 4 /\ b[2] \in Held("recordingEventQueue", "event")'
           \/ b[1] = 5 /\ b[2] \in Due("recording", "recorder", "event")'
           \/ b[1] = 6 /\ b[2] \in Held("recorder", "event")'
    BY <1>4 DEF RecordRoute
  <2>2. /\ {"bookUpdateQueue", "recordingEventQueue", "recorder"} \subseteq Places
        /\ {"marketData", "bookBuilder", "recording"} \subseteq Modules
    BY DEF Places, Queues, Sinks, Modules, Workers, Looping, Input
  <2>3. CASE b[1] = 1
    BY <1>1, <1>2, <2>1, <2>2, <2>3 DEF RecordRoute
  <2>4. CASE b[1] = 2
    BY <1>1, <1>2, <2>1, <2>2, <2>4 DEF RecordRoute
  <2>5. CASE b[1] = 3
    BY <1>1, <1>2, <2>1, <2>2, <2>5 DEF RecordRoute
  <2>6. CASE b[1] = 4
    BY <1>1, <1>2, <2>1, <2>2, <2>6 DEF RecordRoute
  <2>7. CASE b[1] = 5
    BY <1>1, <1>2, <2>1, <2>2, <2>7 DEF RecordRoute
  <2>8. CASE b[1] = 6
    BY <1>1, <1>2, <2>1, <2>2, <2>8 DEF RecordRoute
  <2>9. QED
    BY <2>1, <2>3, <2>4, <2>5, <2>6, <2>7, <2>8
<1>5. Falling(RecordRoute')
  <2>1. RecordRoute' \in SUBSET ((1..6) \X Nat) /\ RecordRoute \in SUBSET ((1..6) \X Nat)
    BY DEF RecordRoute
  <2>2. CASE stage = 0
    BY <1>4, <2>2, FewerAlong
  <2>3. CASE stage # 0
    <3> DEFINE at == <<stage, x>>
    <3>1. at \in RecordRoute /\ at[1] = stage /\ at[2] = x
      BY <1>3, <2>3
    <3> HIDE DEF at, stage
    <3>2. \A b \in RecordRoute' : \/ b \in RecordRoute /\ (b[1] = at[1] => at[2] < b[2])
                                  \/ b[1] = at[1] + 1 /\ b[2] = at[2]
      BY <1>4, <3>1
    <3>3. QED
      BY <2>1, <3>1, <3>2, MovedAlong
  <2>4. QED
    BY <2>2, <2>3
<1>6. ASSUME NEW p \in {"bookUpdateQueue", "recordingEventQueue", "recorder"},
             NEW kind \in {"update", "event"}, p = place, kind = kind0,
             NEW n \in Held(p, kind)
      PROVE  n < x
  <2>1. stage # 0 /\ <<stage, x>> \in RecordRoute
    BY <1>2, <1>3, <1>6
  <2>2. n \in Nat
    <3>1. p \in Places
      BY DEF Places, Queues, Sinks
    <3>2. contents[p] \in Seq(Items)
      BY <3>1 DEF ItemsOK
    <3>3. \A k \in DOMAIN contents[p] : contents[p][k] \in Items
      BY <3>2
    <3>4. QED
      BY <1>6, <3>3 DEF Held, Items
  <2>3. <<stage + 1, n>> \in RecordRoute
    BY <1>2, <1>6, <2>2 DEF RecordRoute
  <2>4. <<stage, x>>[1] < <<stage + 1, n>>[1]
    OBVIOUS
  <2>5. <<stage + 1, n>>[2] < <<stage, x>>[2]
    BY <2>1, <2>3, <2>4 DEF Falling
  <2>6. QED
    BY <2>5
<1>7. \A b \in RecordRoute' : \E a \in RecordRoute : a[2] = b[2]
  <2>1. SUFFICES ASSUME NEW b \in RecordRoute' PROVE \E a \in RecordRoute : a[2] = b[2]
    OBVIOUS
  <2>2. CASE b \in RecordRoute
    BY <2>2
  <2>3. CASE stage # 0 /\ b[2] = x
    <3>1. <<stage, x>>[2] = x
      OBVIOUS
    <3>2. QED
      BY <1>3, <2>3, <3>1
  <2>4. QED
    BY <1>4, <2>1, <2>2, <2>3
<1>8. QED
  BY <1>5, <1>6, <1>7 DEF x, place, kind0, d

(* Taking an item moves its number on from a stage where it was the least, *)
(* or none on this route.                                                  *)
LEMMA TakeAlongOrders ==
  ASSUME ItemsOK, NEW m \in Looping, NEW item, NEW deliveries,
         Take(m, item, deliveries), Follows(m, item, deliveries), Falling(OrderRoute),
         Sorted("bookUpdateQueue", "update"),
         Sorted("strategyEventQueue", "event"),
         Sorted("executionQueue", "request")
  PROVE  /\ Falling(OrderRoute')
         /\ \A b \in OrderRoute' : \E a \in OrderRoute : a[2] = b[2]
<1> DEFINE q == Input[m]
           x == item.number
           kind0 == item.kind
           stage == IF m = "bookBuilder" THEN 2
                    ELSE IF m = "strategy" THEN 4
                    ELSE IF m = "execution" /\ kind0 = "request" THEN 6 ELSE 0
<1>1. /\ q \in Places /\ x \in Nat /\ kind0 \in Holds[q] /\ x \in Held(q, kind0)
      /\ \A w \in Modules : w # m => \A p, kind : Due(w, p, kind)' = Due(w, p, kind)
      /\ \A p, kind : \A n \in Due(m, p, kind)' :
           /\ n = x /\ p \in Serves[m] /\ kind \in Makes[m]
           /\ m \in {"execution", "recording"} => kind = kind0
      /\ \A p \in Places : \A kind : Held(p, kind)' \subseteq Held(p, kind)
      /\ \A p, kind : p = q /\ kind = kind0 /\ Sorted(p, kind) => \A n \in Held(p, kind)' : x < n
  BY TakeNumbers
<1> HIDE DEF x, kind0
<1>2. \/ m = "bookBuilder" /\ q = "bookUpdateQueue" /\ kind0 = "update"
      \/ m = "strategy" /\ q = "strategyEventQueue" /\ kind0 = "event"
      \/ m = "execution" /\ q = "executionQueue" /\ kind0 = "request"
      \/ m = "execution" /\ q = "executionQueue" /\ kind0 = "report"
      \/ m \in {"trade", "recording"}
  BY <1>1 DEF Looping, Input, Holds
<1>3. stage # 0 => <<stage, x>> \in OrderRoute
  BY <1>1, <1>2 DEF OrderRoute, Input
<1>4. ASSUME NEW b \in OrderRoute'
      PROVE  \/ b \in OrderRoute /\ (stage # 0 /\ b[1] = stage => x < b[2])
             \/ stage # 0 /\ b[1] = stage + 1 /\ b[2] = x
  <2>1. /\ b \in (1..8) \X Nat
        /\ \/ b[1] = 1 /\ b[2] \in Due("marketData", "bookUpdateQueue", "update")'
           \/ b[1] = 2 /\ b[2] \in Held("bookUpdateQueue", "update")'
           \/ b[1] = 3 /\ b[2] \in Due("bookBuilder", "strategyEventQueue", "event")'
           \/ b[1] = 4 /\ b[2] \in Held("strategyEventQueue", "event")'
           \/ b[1] = 5 /\ b[2] \in Due("strategy", "executionQueue", "request")'
           \/ b[1] = 6 /\ b[2] \in Held("executionQueue", "request")'
           \/ b[1] = 7 /\ b[2] \in Due("execution", "gateway", "request")'
           \/ b[1] = 8 /\ b[2] \in Held("gateway", "request")'
    BY <1>4 DEF OrderRoute
  <2>2. /\ {"bookUpdateQueue", "strategyEventQueue", "executionQueue", "gateway"} \subseteq Places
        /\ {"marketData", "bookBuilder", "strategy", "execution"} \subseteq Modules
        /\ m \in Modules
    BY DEF Places, Queues, Sinks, Modules, Workers, Looping, Input
  <2>3. CASE b[1] = 1
    BY <1>1, <1>2, <2>1, <2>2, <2>3 DEF OrderRoute, Input, Serves, Makes
  <2>4. CASE b[1] = 2
    BY <1>1, <1>2, <2>1, <2>2, <2>4 DEF OrderRoute, Input, Serves, Makes
  <2>5. CASE b[1] = 3
    BY <1>1, <1>2, <2>1, <2>2, <2>5 DEF OrderRoute, Input, Serves, Makes
  <2>6. CASE b[1] = 4
    BY <1>1, <1>2, <2>1, <2>2, <2>6 DEF OrderRoute, Input, Serves, Makes
  <2>7. CASE b[1] = 5
    BY <1>1, <1>2, <2>1, <2>2, <2>7 DEF OrderRoute, Input, Serves, Makes
  <2>8. CASE b[1] = 6
    BY <1>1, <1>2, <2>1, <2>2, <2>8 DEF OrderRoute, Input, Serves, Makes
  <2>9. CASE b[1] = 7
    BY <1>1, <1>2, <2>1, <2>2, <2>9 DEF OrderRoute, Input, Serves, Makes
  <2>10. CASE b[1] = 8
    BY <1>1, <1>2, <2>1, <2>2, <2>10 DEF OrderRoute, Input, Serves, Makes
  <2>11. QED
    BY <2>1, <2>3, <2>4, <2>5, <2>6, <2>7, <2>8, <2>9, <2>10
<1>5. Falling(OrderRoute')
  <2>1. OrderRoute' \in SUBSET ((1..8) \X Nat) /\ OrderRoute \in SUBSET ((1..8) \X Nat)
    BY DEF OrderRoute
  <2>2. CASE stage = 0
    BY <1>4, <2>2, FewerAlong
  <2>3. CASE stage # 0
    <3> DEFINE at == <<stage, x>>
    <3>1. at \in OrderRoute /\ at[1] = stage /\ at[2] = x /\ stage # 0
      BY <1>3, <2>3
    <3> HIDE DEF at, stage
    <3>2. \A b \in OrderRoute' :
            \/ b \in OrderRoute /\ (b[1] = at[1] => at[2] < b[2])
            \/ b[1] = at[1] + 1 /\ b[2] = at[2]
      BY <1>4, <3>1
    <3>3. QED
      BY <2>1, <3>1, <3>2, MovedAlong
  <2>4. QED
    BY <2>2, <2>3
<1>6. \A b \in OrderRoute' : \E a \in OrderRoute : a[2] = b[2]
  <2>1. SUFFICES ASSUME NEW b \in OrderRoute' PROVE \E a \in OrderRoute : a[2] = b[2]
    OBVIOUS
  <2>2. CASE b \in OrderRoute
    BY <2>2
  <2>3. CASE stage # 0 /\ b[2] = x
    <3>1. <<stage, x>>[2] = x
      OBVIOUS
    <3>2. QED
      BY <1>3, <2>3, <3>1
  <2>4. QED
    BY <1>4, <2>1, <2>2, <2>3
<1>7. QED
  BY <1>5, <1>6

LEMMA TakeAlongRecords ==
  ASSUME ItemsOK, NEW m \in Looping, NEW item, NEW deliveries,
         Take(m, item, deliveries), Follows(m, item, deliveries), Falling(RecordRoute),
         Sorted("bookUpdateQueue", "update"),
         Sorted("recordingEventQueue", "event")
  PROVE  /\ Falling(RecordRoute')
         /\ \A b \in RecordRoute' : \E a \in RecordRoute : a[2] = b[2]
<1> DEFINE q == Input[m]
           x == item.number
           kind0 == item.kind
           stage == IF m = "bookBuilder" THEN 2
                    ELSE IF m = "recording" /\ kind0 = "event" THEN 4 ELSE 0
<1>1. /\ q \in Places /\ x \in Nat /\ kind0 \in Holds[q] /\ x \in Held(q, kind0)
      /\ \A w \in Modules : w # m => \A p, kind : Due(w, p, kind)' = Due(w, p, kind)
      /\ \A p, kind : \A n \in Due(m, p, kind)' :
           /\ n = x /\ p \in Serves[m] /\ kind \in Makes[m]
           /\ m \in {"execution", "recording"} => kind = kind0
      /\ \A p \in Places : \A kind : Held(p, kind)' \subseteq Held(p, kind)
      /\ \A p, kind : p = q /\ kind = kind0 /\ Sorted(p, kind) => \A n \in Held(p, kind)' : x < n
  BY TakeNumbers
<1> HIDE DEF x, kind0
<1>2. \/ m = "bookBuilder" /\ q = "bookUpdateQueue" /\ kind0 = "update"
      \/ m = "recording" /\ q = "recordingEventQueue" /\ kind0 = "event"
      \/ m = "recording" /\ q = "recordingEventQueue" /\ kind0 # "event"
      \/ m \in {"trade", "strategy", "execution"}
  BY <1>1 DEF Looping, Input, Holds
<1>3. stage # 0 => <<stage, x>> \in RecordRoute
  BY <1>1, <1>2 DEF RecordRoute, Input
<1>4. ASSUME NEW b \in RecordRoute'
      PROVE  \/ b \in RecordRoute /\ (stage # 0 /\ b[1] = stage => x < b[2])
             \/ stage # 0 /\ b[1] = stage + 1 /\ b[2] = x
  <2>1. /\ b \in (1..6) \X Nat
        /\ \/ b[1] = 1 /\ b[2] \in Due("marketData", "bookUpdateQueue", "update")'
           \/ b[1] = 2 /\ b[2] \in Held("bookUpdateQueue", "update")'
           \/ b[1] = 3 /\ b[2] \in Due("bookBuilder", "recordingEventQueue", "event")'
           \/ b[1] = 4 /\ b[2] \in Held("recordingEventQueue", "event")'
           \/ b[1] = 5 /\ b[2] \in Due("recording", "recorder", "event")'
           \/ b[1] = 6 /\ b[2] \in Held("recorder", "event")'
    BY <1>4 DEF RecordRoute
  <2>2. /\ {"bookUpdateQueue", "recordingEventQueue", "recorder"} \subseteq Places
        /\ {"marketData", "bookBuilder", "recording"} \subseteq Modules
        /\ m \in Modules
    BY DEF Places, Queues, Sinks, Modules, Workers, Looping, Input
  <2>3. CASE b[1] = 1
    BY <1>1, <1>2, <2>1, <2>2, <2>3 DEF RecordRoute, Input, Serves, Makes
  <2>4. CASE b[1] = 2
    BY <1>1, <1>2, <2>1, <2>2, <2>4 DEF RecordRoute, Input, Serves, Makes
  <2>5. CASE b[1] = 3
    BY <1>1, <1>2, <2>1, <2>2, <2>5 DEF RecordRoute, Input, Serves, Makes
  <2>6. CASE b[1] = 4
    BY <1>1, <1>2, <2>1, <2>2, <2>6 DEF RecordRoute, Input, Serves, Makes
  <2>7. CASE b[1] = 5
    BY <1>1, <1>2, <2>1, <2>2, <2>7 DEF RecordRoute, Input, Serves, Makes
  <2>8. CASE b[1] = 6
    BY <1>1, <1>2, <2>1, <2>2, <2>8 DEF RecordRoute, Input, Serves, Makes
  <2>9. QED
    BY <2>1, <2>3, <2>4, <2>5, <2>6, <2>7, <2>8
<1>5. Falling(RecordRoute')
  <2>1. RecordRoute' \in SUBSET ((1..6) \X Nat) /\ RecordRoute \in SUBSET ((1..6) \X Nat)
    BY DEF RecordRoute
  <2>2. CASE stage = 0
    BY <1>4, <2>2, FewerAlong
  <2>3. CASE stage # 0
    <3> DEFINE at == <<stage, x>>
    <3>1. at \in RecordRoute /\ at[1] = stage /\ at[2] = x /\ stage # 0
      BY <1>3, <2>3
    <3> HIDE DEF at, stage
    <3>2. \A b \in RecordRoute' :
            \/ b \in RecordRoute /\ (b[1] = at[1] => at[2] < b[2])
            \/ b[1] = at[1] + 1 /\ b[2] = at[2]
      BY <1>4, <3>1
    <3>3. QED
      BY <2>1, <3>1, <3>2, MovedAlong
  <2>4. QED
    BY <2>2, <2>3
<1>6. \A b \in RecordRoute' : \E a \in RecordRoute : a[2] = b[2]
  <2>1. SUFFICES ASSUME NEW b \in RecordRoute' PROVE \E a \in RecordRoute : a[2] = b[2]
    OBVIOUS
  <2>2. CASE b \in RecordRoute
    BY <2>2
  <2>3. CASE stage # 0 /\ b[2] = x
    <3>1. <<stage, x>>[2] = x
      OBVIOUS
    <3>2. QED
      BY <1>3, <2>3, <3>1
  <2>4. QED
    BY <1>4, <2>1, <2>2, <2>3
<1>7. QED
  BY <1>5, <1>6

(* What the sources hand in comes first on both routes.                    *)
LEMMA ArriveAlong ==
  ASSUME contents' = contents, NEW fresh,
         \A w \in {"bookBuilder", "strategy", "execution", "recording"} : todo'[w] = todo[w],
         Due("marketData", "bookUpdateQueue", "update")' \subseteq
           Due("marketData", "bookUpdateQueue", "update") \cup fresh
  PROVE  /\ \A b \in OrderRoute' : b \in OrderRoute \/ (b[1] = 1 /\ b[2] \in fresh)
         /\ \A b \in RecordRoute' : b \in RecordRoute \/ (b[1] = 1 /\ b[2] \in fresh)
<1>1. \A w \in {"bookBuilder", "strategy", "execution", "recording"} : \A p, kind :
        Due(w, p, kind)' = Due(w, p, kind)
  BY DEF Due
<1>2. \A p, kind : Held(p, kind)' = Held(p, kind)
  BY DEF Held
<1>3. ASSUME NEW b \in OrderRoute' PROVE b \in OrderRoute \/ (b[1] = 1 /\ b[2] \in fresh)
  BY <1>1, <1>2, <1>3 DEF OrderRoute
<1>4. ASSUME NEW b \in RecordRoute' PROVE b \in RecordRoute \/ (b[1] = 1 /\ b[2] \in fresh)
  BY <1>1, <1>2, <1>4 DEF RecordRoute
<1>5. QED
  BY <1>3, <1>4

LEMMA NewAlong ==
  ASSUME NEW stages \in Nat, NEW old \in SUBSET ((1..stages) \X Nat),
         NEW new \in SUBSET ((1..stages) \X Nat), Falling(old), NEW x \in Nat,
         \A a \in old : a[2] < x,
         \A b \in new : b \in old \/ (b[1] = 1 /\ b[2] = x)
  PROVE  Falling(new)
<1>1. \A a \in new : a[1] \in Nat /\ 1 <= a[1]
  OBVIOUS
<1>2. ASSUME NEW a \in new, NEW b \in new, a[1] < b[1] PROVE b[2] < a[2]
  <2>1. b \in old
    BY <1>1, <1>2
  <2>2. QED
    BY <1>2, <2>1 DEF Falling
<1>3. QED
  BY <1>2 DEF Falling

LEMMA InitOrdered == Init => Ordered
<1> SUFFICES ASSUME Init PROVE Ordered
  OBVIOUS
<1>1. /\ \A p \in Places : contents[p] = <<>>
      /\ \A m \in Modules : todo[m] = <<>>
  BY DEF Init
<1>2. /\ \A p \in Places : \A kind : Held(p, kind) = {} /\ Sorted(p, kind)
      /\ \A m \in Modules : \A p, kind : Due(m, p, kind) = {}
  BY <1>1 DEF Held, Due, Sorted
<1>3. OrderRoute = {} /\ RecordRoute = {}
  BY <1>2 DEF OrderRoute, RecordRoute, Places, Queues, Sinks, Modules, Workers, Looping, Input
<1>4. QED
  BY <1>2, <1>3, InitItemsOK DEF Ordered, Falling, Places, Queues, Sinks

(* Where items lie in the order of their updates.                          *)
AllSorted ==
  /\ Sorted("bookUpdateQueue", "update") /\ Sorted("strategyEventQueue", "event")
  /\ Sorted("executionQueue", "request") /\ Sorted("gateway", "request")
  /\ Sorted("recordingEventQueue", "event") /\ Sorted("recorder", "event")

LEMMA DeliverOrdered ==
  ASSUME Ordered, NEW m \in Modules, Deliver(m)
  PROVE  Ordered'
<1>1. ItemsOK /\ Falling(OrderRoute) /\ Falling(RecordRoute) /\ AllSorted
  BY DEF Ordered, AllSorted
<1>2. received' = received
  BY DEF Deliver
<1>3. ItemsOK'
  BY <1>1, DeliverItemsOK
<1> DEFINE sound(route, later) ==
             Falling(later) /\ \A b \in later : \E a \in route : a[2] = b[2]
<1>4. /\ sound(OrderRoute, OrderRoute')
      /\ \A p \in {"bookUpdateQueue", "strategyEventQueue", "executionQueue", "gateway"},
            kind \in {"update", "event", "request"} :
           p = todo[m][1].to /\ kind = todo[m][1].item.kind =>
             \A n \in Held(p, kind) : n < todo[m][1].item.number
  BY <1>1, DeliverAlongOrders
<1>5. /\ sound(RecordRoute, RecordRoute')
      /\ \A p \in {"bookUpdateQueue", "recordingEventQueue", "recorder"},
            kind \in {"update", "event"} :
           p = todo[m][1].to /\ kind = todo[m][1].item.kind =>
             \A n \in Held(p, kind) : n < todo[m][1].item.number
  BY <1>1, DeliverAlongRecords
<1>6. AllSorted'
  <2>1. ASSUME NEW p \in Places, NEW kind, Sorted(p, kind),
               p = todo[m][1].to /\ kind = todo[m][1].item.kind =>
                 \A n \in Held(p, kind) : n < todo[m][1].item.number
        PROVE  Sorted(p, kind)'
    BY <1>1, <2>1, SortedAfterDelivery
  <2>2. Sorted("bookUpdateQueue", "update")'
    BY <1>1, <1>4, <2>1 DEF AllSorted, Places, Queues
  <2>3. Sorted("strategyEventQueue", "event")'
    BY <1>1, <1>4, <2>1 DEF AllSorted, Places, Queues
  <2>4. Sorted("executionQueue", "request")'
    BY <1>1, <1>4, <2>1 DEF AllSorted, Places, Queues
  <2>5. Sorted("gateway", "request")'
    BY <1>1, <1>4, <2>1 DEF AllSorted, Places, Sinks
  <2>6. Sorted("recordingEventQueue", "event")'
    BY <1>1, <1>5, <2>1 DEF AllSorted, Places, Queues
  <2>7. Sorted("recorder", "event")'
    BY <1>1, <1>5, <2>1 DEF AllSorted, Places, Sinks
  <2>8. QED
    BY <2>2, <2>3, <2>4, <2>5, <2>6, <2>7 DEF AllSorted
<1>7. \A b \in OrderRoute' \cup RecordRoute' : b[2] \in 1..received'["update"]
  BY <1>2, <1>4, <1>5 DEF Ordered
<1>8. QED
  BY <1>3, <1>4, <1>5, <1>6, <1>7 DEF Ordered, AllSorted

LEMMA TakeOrdered ==
  ASSUME Ordered, NEW m \in Looping, NEW item, NEW deliveries,
         Take(m, item, deliveries), Follows(m, item, deliveries)
  PROVE  Ordered'
<1>1. ItemsOK /\ Falling(OrderRoute) /\ Falling(RecordRoute) /\ AllSorted
  BY DEF Ordered, AllSorted
<1>2. received' = received
  BY DEF Take
<1>3. ItemsOK'
  BY <1>1, TakeItemsOK
<1> DEFINE sound(route, later) ==
             Falling(later) /\ \A b \in later : \E a \in route : a[2] = b[2]
<1>4. sound(OrderRoute, OrderRoute')
  BY <1>1, TakeAlongOrders DEF AllSorted
<1>5. sound(RecordRoute, RecordRoute')
  BY <1>1, TakeAlongRecords DEF AllSorted
<1>6. AllSorted'
  <2>1. ASSUME NEW p \in Places, NEW kind, Sorted(p, kind) PROVE Sorted(p, kind)'
    BY <1>1, <2>1, SortedAfterTake
  <2>2. QED
    BY <1>1, <2>1 DEF AllSorted, Places, Queues, Sinks
<1>7. \A b \in OrderRoute' \cup RecordRoute' : b[2] \in 1..received'["update"]
  BY <1>2, <1>4, <1>5 DEF Ordered
<1>8. QED
  BY <1>3, <1>4, <1>5, <1>6, <1>7 DEF Ordered, AllSorted

LEMMA ReceiveOrdered ==
  ASSUME Ordered, ReceiveUpdate
  PROVE  Ordered'
<1> DEFINE x == received["update"] + 1
           d == To("bookUpdateQueue", Item("update", x))
<1>1. /\ ItemsOK /\ Falling(OrderRoute) /\ Falling(RecordRoute) /\ AllSorted
      /\ received["update"] \in Nat
  BY DEF Ordered, AllSorted, ItemsOK
<1>2. /\ todo' = [todo EXCEPT !["marketData"] = <<d>>] /\ contents' = contents
      /\ received'["update"] = x /\ ItemsOK'
  BY <1>1, UpdateReceived
<1>3. /\ \A w \in {"bookBuilder", "strategy", "execution", "recording"} : todo'[w] = todo[w]
      /\ todo'["marketData"] = <<d>>
  BY <1>1, <1>2 DEF ItemsOK, Modules, Workers, Looping, Input
<1>4. Due("marketData", "bookUpdateQueue", "update")' \subseteq
        Due("marketData", "bookUpdateQueue", "update") \cup {x}
  BY <1>3 DEF Due, To, Item
<1>5. /\ \A b \in OrderRoute' : b \in OrderRoute \/ (b[1] = 1 /\ b[2] \in {x})
      /\ \A b \in RecordRoute' : b \in RecordRoute \/ (b[1] = 1 /\ b[2] \in {x})
  <2> HIDE DEF x
  <2>1. QED
    BY <1>2, <1>3, <1>4, ArriveAlong
<1>6. \A a \in OrderRoute \cup RecordRoute : a[2] \in 1..received["update"] /\ a[2] < x
  BY <1>1 DEF Ordered
<1>7. \A b \in OrderRoute' \cup RecordRoute' : b[2] \in 1..received'["update"]
  BY <1>1, <1>2, <1>5, <1>6
<1>8. x \in Nat
  BY <1>1
<1>9. /\ OrderRoute \in SUBSET ((1..8) \X Nat) /\ OrderRoute' \in SUBSET ((1..8) \X Nat)
      /\ RecordRoute \in SUBSET ((1..6) \X Nat) /\ RecordRoute' \in SUBSET ((1..6) \X Nat)
  BY DEF OrderRoute, RecordRoute
<1> HIDE DEF x
<1>10. Falling(OrderRoute')
  BY <1>1, <1>5, <1>6, <1>8, <1>9, NewAlong
<1>11. Falling(RecordRoute')
  BY <1>1, <1>5, <1>6, <1>8, <1>9, NewAlong
<1>12. AllSorted'
  BY <1>1, <1>2 DEF AllSorted, Sorted
<1>13. QED
  BY <1>2, <1>7, <1>10, <1>11, <1>12 DEF Ordered, AllSorted

(* What is not an update does not touch the routes.                        *)
LEMMA ElseOrdered ==
  ASSUME Ordered, ItemsOK', contents' = contents, received'["update"] = received["update"],
         \A w \in {"bookBuilder", "strategy", "execution", "recording"} : todo'[w] = todo[w],
         \/ todo'["marketData"] = todo["marketData"]
         \/ \A k \in DOMAIN todo'["marketData"] : todo'["marketData"][k].to # "bookUpdateQueue"
  PROVE  Ordered'
<1> DEFINE none == {}
<1>1. Due("marketData", "bookUpdateQueue", "update")' \subseteq
        Due("marketData", "bookUpdateQueue", "update") \cup none
  BY DEF Due
<1>2. OrderRoute' \in SUBSET OrderRoute /\ RecordRoute' \in SUBSET RecordRoute
  <2> HIDE DEF none
  <2>1. /\ \A b \in OrderRoute' : b \in OrderRoute \/ (b[1] = 1 /\ b[2] \in none)
        /\ \A b \in RecordRoute' : b \in RecordRoute \/ (b[1] = 1 /\ b[2] \in none)
    BY <1>1, ArriveAlong
  <2>2. QED
    BY <2>1 DEF none
<1>3. Falling(OrderRoute') /\ Falling(RecordRoute')
  BY <1>2, FewerAlong DEF Ordered
<1>4. AllSorted'
  BY DEF Ordered, AllSorted, Sorted
<1>5. QED
  BY <1>2, <1>3, <1>4 DEF Ordered, AllSorted

LEMMA NextOrdered == Ordered /\ [Next]_vars => Ordered'
<1> SUFFICES ASSUME Ordered, [Next]_vars PROVE Ordered'
  OBVIOUS
<1>1. ItemsOK /\ todo \in [Modules -> Seq(Deliveries)]
  BY DEF Ordered, ItemsOK
<1>2. ASSUME NEW m \in Looping, Process(m) PROVE Ordered'
  BY <1>1, <1>2, ProcessTakes, TakeOrdered
<1>3. ASSUME NEW count \in 1..MaxTrades, ReceiveTrades(count) PROVE Ordered'
  <2>1. PICK deliveries \in Seq(Deliveries) :
          /\ todo' = [todo EXCEPT !["marketData"] = deliveries]
          /\ \A k \in DOMAIN deliveries : deliveries[k].to = "tradeQueue"
    BY <1>1, <1>3, TradesReceived
  <2>2. /\ contents' = contents /\ received'["update"] = received["update"] /\ ItemsOK'
    BY <1>1, <1>3, TradesReceived
  <2>3. /\ \A w \in {"bookBuilder", "strategy", "execution", "recording"} : todo'[w] = todo[w]
        /\ todo'["marketData"] = deliveries
    BY <1>1, <2>1 DEF Modules, Workers, Looping, Input
  <2>4. QED
    BY <2>1, <2>2, <2>3, ElseOrdered
<1>4. CASE ReceiveReport
  <2>1. PICK d \in Deliveries : todo' = [todo EXCEPT !["executionReport"] = <<d>>]
    BY <1>1, <1>4, ReportReceived
  <2>2. /\ contents' = contents /\ received'["update"] = received["update"] /\ ItemsOK'
    BY <1>1, <1>4, ReportReceived
  <2>3. /\ \A w \in {"bookBuilder", "strategy", "execution", "recording"} : todo'[w] = todo[w]
        /\ todo'["marketData"] = todo["marketData"]
    BY <1>1, <2>1 DEF Modules, Workers, Looping, Input
  <2>4. QED
    BY <2>2, <2>3, ElseOrdered
<1>5. CASE Still
  <2>1. ItemsOK'
    BY <1>1, NextItemsOK
  <2>2. QED
    BY <1>5, <2>1, ElseOrdered DEF Still
<1>6. QED
  BY <1>2, <1>3, <1>4, <1>5, Moves, DeliverOrdered, ReceiveOrdered

LEMMA AlwaysOrdered == Spec => []Ordered
BY InitOrdered, NextOrdered, PTL DEF Spec

(* The recorder gets market events in the order of the updates they were   *)
(* built from (bookBuilder's and recording's threads).                     *)
THEOREM RecordingKeepsOrder == Spec => []RecordedInOrder
<1>1. Ordered => RecordedInOrder
  BY DEF Ordered, Sorted, RecordedInOrder
<1>2. QED
  BY <1>1, AlwaysOrdered, PTL

(* The numbers of the items of a sequence.                                 *)
NumbersOf(items) == [k \in DOMAIN items |-> items[k].number]

LEMMA NumbersType ==
  ASSUME NEW s \in Seq(Items)
  PROVE  /\ NumbersOf(s) \in Seq(Nat) /\ Len(NumbersOf(s)) = Len(s)
         /\ DOMAIN s = 1..Len(s) /\ DOMAIN NumbersOf(s) = DOMAIN s
         /\ \A k \in DOMAIN s : NumbersOf(s)[k] = s[k].number
<1>1. /\ DOMAIN s = 1..Len(s) /\ Len(s) \in Nat
      /\ \A k \in 1..Len(s) : s[k] \in Items
  OBVIOUS
<1>2. \A k \in 1..Len(s) : s[k].number \in Nat
  BY <1>1 DEF Items
<1> DEFINE numbers == [k \in 1..Len(s) |-> s[k].number]
<1>3. NumbersOf(s) = numbers
  BY <1>1 DEF NumbersOf
<1>4. numbers \in Seq(Nat) /\ Len(numbers) = Len(s)
  BY <1>1, <1>2, IsASeq
<1>5. QED
  BY <1>1, <1>3, <1>4

LEMMA NumbersAppend ==
  ASSUME NEW s \in Seq(Items), NEW x \in Items
  PROVE  NumbersOf(Append(s, x)) = Append(NumbersOf(s), x.number)
<1> DEFINE t == Append(s, x)
           last == x.number
<1>1. /\ t \in Seq(Items) /\ Len(t) = Len(s) + 1 /\ t[Len(s) + 1] = x /\ last \in Nat
      /\ \A k \in 1..Len(s) : t[k] = s[k]
  BY AppendProperties DEF Items
<1>2. /\ NumbersOf(s) \in Seq(Nat) /\ Len(NumbersOf(s)) = Len(s) /\ Len(s) \in Nat
      /\ DOMAIN s = 1..Len(s) /\ \A k \in DOMAIN s : NumbersOf(s)[k] = s[k].number
  BY NumbersType
<1> HIDE DEF t
<1>3. /\ NumbersOf(t) \in Seq(Nat) /\ Len(NumbersOf(t)) = Len(s) + 1
      /\ DOMAIN t = 1..Len(t) /\ \A k \in DOMAIN t : NumbersOf(t)[k] = t[k].number
  BY <1>1, NumbersType
<1>4. last = NumbersOf(t)[Len(s) + 1] /\ \A k \in 1..Len(s) : NumbersOf(t)[k] = NumbersOf(s)[k]
  <2>1. \A k \in 1..Len(s) : k \in DOMAIN s /\ k \in DOMAIN t /\ t[k] = s[k]
    BY <1>1, <1>2, <1>3
  <2>2. Len(s) + 1 \in DOMAIN t /\ NumbersOf(t)[Len(s) + 1] = t[Len(s) + 1].number
    BY <1>1, <1>2, <1>3
  <2>3. last = NumbersOf(t)[Len(s) + 1]
    BY <1>1, <2>2
  <2>4. ASSUME NEW k \in 1..Len(s) PROVE NumbersOf(t)[k] = NumbersOf(s)[k]
    <3>1. NumbersOf(t)[k] = t[k].number /\ NumbersOf(s)[k] = s[k].number /\ t[k] = s[k]
      BY <1>2, <1>3, <2>1
    <3>2. QED
      BY <3>1
  <2>5. QED
    BY <2>3, <2>4
<1> DEFINE old == NumbersOf(s)
           new == NumbersOf(t)
<1> HIDE DEF old, new, last
<1>5. /\ old \in Seq(Nat) /\ last \in Nat /\ new \in Seq(Nat) /\ Len(new) = Len(old) + 1
      /\ last = new[Len(old) + 1] /\ \A k \in 1..Len(old) : new[k] = old[k]
  BY <1>1, <1>2, <1>3, <1>4 DEF old, new
<1>6. /\ Append(old, last) \in Seq(Nat) /\ Len(Append(old, last)) = Len(old) + 1
      /\ Len(old) \in Nat
      /\ \A k \in 1..Len(old) + 1 : Append(old, last)[k] = new[k]
  BY <1>5
<1>7. new = Append(old, last)
  BY <1>5, <1>6, SeqEqual
<1>8. QED
  BY <1>7 DEF old, new, t, last

LEMMA NothingSent == Init => Flow!Init
<1> SUFFICES ASSUME Init PROVE Flow!Init
  OBVIOUS
<1>1. contents["gateway"] = <<>> /\ received["update"] = 0
  BY DEF Init, Places, Sinks
<1>2. [k \in DOMAIN contents["gateway"] |-> contents["gateway"][k].number] = <<>>
  BY <1>1
<1>3. QED
  BY <1>1, <1>2 DEF Flow!Init

(* A delivery to the gateway is an order sent; nothing else is.            *)
LEMMA DeliverSends ==
  ASSUME Ordered, NEW m \in Modules, Deliver(m)
  PROVE  Flow!Send \/ UNCHANGED Flow!vars
<1> DEFINE d == todo[m][1]
           sent == contents["gateway"]
<1>1. /\ ItemsOK /\ Falling(OrderRoute)
      /\ sent \in Seq(Items) /\ "gateway" \in Places
      /\ \A k \in DOMAIN sent : sent[k].kind = "request"
  <2>1. ItemsOK /\ Falling(OrderRoute) /\ "gateway" \in Places
    BY DEF Ordered, Places, Sinks
  <2>2. /\ sent \in Seq(Items)
        /\ \A k \in DOMAIN sent : sent[k].kind = "request"
    BY <2>1 DEF ItemsOK, Holds
  <2>3. QED
    BY <2>1, <2>2
<1>2. /\ d \in Deliveries /\ d.to \in Serves[m] /\ d.item.kind \in Holds[d.to]
      /\ \/ contents'["gateway"] = sent
         \/ d.to = "gateway" /\ contents'["gateway"] = Append(sent, d.item)
      /\ received' = received
  BY <1>1, DeliverMoves
<1>3. CASE contents'["gateway"] = sent
  BY <1>2, <1>3 DEF Flow!vars
<1>4. CASE d.to = "gateway" /\ contents'["gateway"] = Append(sent, d.item)
  <2>1. m = "execution" /\ d.item.kind = "request" /\ d.item \in Items
    BY <1>2, <1>4 DEF Serves, Holds, Modules, Workers, Looping, Input, Deliveries
  <2>2. d.item.number \in Due(m, d.to, d.item.kind) /\ d.item.number \in Nat
    BY <1>1, DeliverNumbers
  <2>3. <<7, d.item.number>> \in OrderRoute
    BY <1>4, <2>1, <2>2 DEF OrderRoute
  <2>4. d.item.number \in 1..received["update"]
    BY <2>3 DEF Ordered
  <2>5. \A n \in Held("gateway", "request") : n < d.item.number
    <3>1. \A p \in {"bookUpdateQueue", "strategyEventQueue", "executionQueue", "gateway"},
              kind \in {"update", "event", "request"} :
             p = todo[m][1].to /\ kind = todo[m][1].item.kind =>
               \A n \in Held(p, kind) : n < todo[m][1].item.number
      BY <1>1, DeliverAlongOrders
    <3>2. QED
      BY <1>4, <2>1, <3>1
  <2>6. \A k \in DOMAIN sent : sent[k].number < d.item.number
    BY <1>1, <2>5 DEF Held
  <2>7. /\ NumbersOf(Append(sent, d.item)) = Append(NumbersOf(sent), d.item.number)
    BY <1>1, <2>1, NumbersAppend
  <2>8. /\ NumbersOf(sent)' = Append(NumbersOf(sent), d.item.number)
        /\ \A k \in DOMAIN NumbersOf(sent) : NumbersOf(sent)[k] < d.item.number
    BY <1>4, <2>6, <2>7 DEF NumbersOf
  <2>9. QED
    BY <1>2, <2>4, <2>8 DEF Flow!Send, NumbersOf
<1>5. QED
  BY <1>2, <1>3, <1>4

(* Every step of the threads is a step of OrderFlow, or changes neither    *)
(* what was received nor what was sent.                                    *)
LEMMA StepsFlow == Ordered /\ [Next]_vars => [Flow!Next]_(Flow!vars)
<1> SUFFICES ASSUME Ordered, [Next]_vars PROVE [Flow!Next]_(Flow!vars)
  OBVIOUS
<1>1. ItemsOK
  BY DEF Ordered
<1>2. ASSUME NEW m \in Looping, Process(m) PROVE UNCHANGED Flow!vars
  <2>1. PICK item \in Items, deliveries \in Seq(Deliveries) : Take(m, item, deliveries)
    BY <1>1, <1>2, ProcessTakes
  <2>2. /\ \A p \in Places : p # Input[m] => contents'[p] = contents[p]
        /\ received' = received
    BY <1>1, <2>1, TakeMoves
  <2>3. Input[m] # "gateway" /\ "gateway" \in Places
    BY DEF Input, Looping, Places, Sinks
  <2>4. contents'["gateway"] = contents["gateway"]
    BY <2>2, <2>3
  <2>5. QED
    BY <2>2, <2>4 DEF Flow!vars
<1>3. ASSUME ReceiveUpdate PROVE Flow!Receive
  BY <1>1, <1>3, UpdateReceived DEF Flow!Receive
<1>4. ASSUME NEW count \in 1..MaxTrades, ReceiveTrades(count) PROVE UNCHANGED Flow!vars
  BY <1>1, <1>4, TradesReceived DEF Flow!vars
<1>5. ASSUME ReceiveReport PROVE UNCHANGED Flow!vars
  BY <1>1, <1>5, ReportReceived DEF Flow!vars
<1>6. ASSUME Still PROVE UNCHANGED Flow!vars
  BY <1>6 DEF Still, Flow!vars
<1>7. QED
  BY <1>2, <1>3, <1>4, <1>5, <1>6, Moves, DeliverSends DEF Flow!Next

(* The threads and queues implement OrderFlow.                             *)
THEOREM PipelineImplementsOrderFlow == Spec => ImplementsOrderFlow
<1>1. Spec => Flow!Spec
  BY NothingSent, StepsFlow, AlwaysOrdered, PTL DEF Spec, Flow!Spec
<1>2. QED
  BY <1>1 DEF ImplementsOrderFlow

-----------------------------------------------------------------------------
(* What the recording was handed: the items recorded, the one it is about  *)
(* to record, and those in its queue.                                      *)
ItemsOf(deliveries) == [k \in DOMAIN deliveries |-> deliveries[k].item]

LEMMA HandedParts ==
  ASSUME ItemsOK
  PROVE  /\ HandedToRecording =
              (contents["recorder"] \o ItemsOf(todo["recording"])) \o contents["recordingEventQueue"]
         /\ contents["recorder"] \in Seq(Items) /\ contents["recordingEventQueue"] \in Seq(Items)
         /\ contents["orderManager"] \in Seq(Items)
         /\ \/ todo["recording"] = <<>> /\ ItemsOf(todo["recording"]) = <<>>
            \/ \E d \in Deliveries : /\ todo["recording"] = <<d>> /\ d.to = "recorder"
                                     /\ ItemsOf(todo["recording"]) = <<d.item>>
<1> DEFINE list == todo["recording"]
<1>1. /\ contents["recorder"] \in Seq(Items) /\ contents["recordingEventQueue"] \in Seq(Items)
      /\ contents["orderManager"] \in Seq(Items)
  BY DEF ItemsOK, Places, Queues, Sinks
<1>2. list \in Seq(Deliveries) /\ \A k \in DOMAIN list : list[k].to = "recorder"
  BY DEF ItemsOK, Modules, Workers, Looping, Input, Serves
<1>3. \A j, k \in DOMAIN list : j = k
  BY <1>2 DEF ItemsOK, Modules, Workers, Looping, Input
<1>4. list = <<>> \/ (list = <<list[1]>> /\ list[1] \in Deliveries)
  <2>1. DOMAIN list = 1..Len(list) /\ Len(list) \in Nat
    BY <1>2
  <2>2. Len(list) = 0 \/ Len(list) = 1
    <3> DEFINE n == Len(list)
    <3>1. n \in Nat /\ (n > 1 => 1 \in 1..n /\ 2 \in 1..n)
      BY <2>1
    <3>2. ~ (n > 1)
      BY <1>3, <2>1, <3>1
    <3> HIDE DEF n
    <3>3. n = 0 \/ n = 1
      BY <3>1, <3>2
    <3>4. QED
      BY <3>3 DEF n
  <2>3. Len(list) = 0 => list = <<>>
    BY <1>2, EmptySeq
  <2>4. Len(list) = 1 => list = <<list[1]>> /\ list[1] \in Deliveries
    BY <1>2
  <2>5. QED
    BY <2>2, <2>3, <2>4
<1>5. list = <<>> => ItemsOf(list) = <<>>
  BY DEF ItemsOf
<1>6. ASSUME NEW d, list = <<d>> PROVE ItemsOf(list) = <<d.item>>
  BY <1>6 DEF ItemsOf
<1>7. HandedToRecording =
        (contents["recorder"] \o ItemsOf(list)) \o contents["recordingEventQueue"]
  BY DEF HandedToRecording, ItemsOf
<1>8. QED
  BY <1>1, <1>2, <1>4, <1>5, <1>6, <1>7

LEMMA OfKindOne ==
  ASSUME NEW x \in Items, NEW kind
  PROVE  OfKind(<<x>>, kind) = IF x.kind = kind THEN <<x>> ELSE <<>>
<1>1. <<>> \in Seq(Items) /\ Append(<<>>, x) = <<x>>
  OBVIOUS
<1>2. OfKind(Append(<<>>, x), kind) = IF x.kind = kind THEN Append(OfKind(<<>>, kind), x)
                                      ELSE OfKind(<<>>, kind)
  BY <1>1, OfKindAppend
<1>3. QED
  BY <1>1, <1>2, OfKindEmpty

(* An item on its way from the queue to the recorder.                      *)
LEMMA HandedOn ==
  ASSUME NEW r \in Seq(Items), NEW q \in Seq(Items), NEW x \in Items
  PROVE  /\ (Append(r, x) \o <<>>) \o q = (r \o <<x>>) \o q
         /\ (r \o <<>>) \o (<<x>> \o q) = (r \o <<x>>) \o q
<1>1. <<x>> \in Seq(Items) /\ <<>> \in Seq(Items)
  OBVIOUS
<1>2. /\ Append(r, x) = r \o <<x>> /\ Append(r, x) \in Seq(Items)
      /\ r \o <<>> = r /\ Append(r, x) \o <<>> = Append(r, x)
  BY AppendIsConcat, AppendProperties, ConcatEmptySeq
<1>3. r \o (<<x>> \o q) = (r \o <<x>>) \o q
  BY <1>1, ConcatAssociative
<1>4. QED
  BY <1>2, <1>3

LEMMA NotHandedOn ==
  ASSUME NEW r \in Seq(Items), NEW q \in Seq(Items), NEW x \in Items, NEW kind, x.kind # kind
  PROVE  OfKind((r \o <<>>) \o (<<x>> \o q), kind) = OfKind((r \o <<>>) \o q, kind)
<1>1. <<x>> \in Seq(Items) /\ <<x>> \o q \in Seq(Items) /\ r \o <<>> = r
  BY ConcatEmptySeq
<1> DEFINE first == <<x>>
<1> HIDE DEF first
<1>2. /\ OfKind(r \o (first \o q), kind) = OfKind(r, kind) \o OfKind(first \o q, kind)
      /\ OfKind(r \o q, kind) = OfKind(r, kind) \o OfKind(q, kind)
      /\ OfKind(first \o q, kind) = OfKind(first, kind) \o OfKind(q, kind)
  <2>0. first \in Seq(Items) /\ first \o q \in Seq(Items)
    BY <1>1 DEF first
  <2>1. \A t \in Seq(Items) : OfKind(r \o t, kind) = OfKind(r, kind) \o OfKind(t, kind)
    BY OfKindConcat
  <2>2. \A t \in Seq(Items) : OfKind(first \o t, kind) = OfKind(first, kind) \o OfKind(t, kind)
    BY <2>0, OfKindConcat
  <2>3. QED
    BY <2>0, <2>1, <2>2
<1>3. OfKind(<<x>>, kind) = <<>> /\ OfKind(q, kind) \in Seq(Items)
  BY OfKindOne, OfKindType
<1>4. <<>> \o OfKind(q, kind) = OfKind(q, kind)
  BY <1>3, ConcatEmptySeq
<1>5. QED
  BY <1>1, <1>2, <1>3, <1>4 DEF first

LEMMA HandedMore ==
  ASSUME NEW a \in Seq(Items), NEW q \in Seq(Items), NEW x \in Items, NEW kind
  PROVE  OfKind(a \o Append(q, x), kind) =
           IF x.kind = kind THEN Append(OfKind(a \o q, kind), x) ELSE OfKind(a \o q, kind)
<1> DEFINE before == a \o q
<1>1. before \in Seq(Items) /\ a \o Append(q, x) = Append(before, x)
  BY AppendConcat, ConcatProperties
<1> HIDE DEF before
<1>2. OfKind(Append(before, x), kind) =
        IF x.kind = kind THEN Append(OfKind(before, kind), x) ELSE OfKind(before, kind)
  BY <1>1, OfKindAppend
<1>3. QED
  BY <1>1, <1>2 DEF before

LEMMA HandedType ==
  ASSUME ItemsOK
  PROVE  LET before == contents["recorder"] \o ItemsOf(todo["recording"])
             queue == contents["recordingEventQueue"]
         IN  before \in Seq(Items) /\ queue \in Seq(Items) /\ HandedToRecording = before \o queue
<1> DEFINE before == contents["recorder"] \o ItemsOf(todo["recording"])
           queue == contents["recordingEventQueue"]
<1>1. before \in Seq(Items) /\ queue \in Seq(Items) /\ HandedToRecording = before \o queue
  <2>1. /\ HandedToRecording = before \o queue
        /\ contents["recorder"] \in Seq(Items) /\ queue \in Seq(Items)
        /\ \/ ItemsOf(todo["recording"]) = <<>>
           \/ \E d \in Deliveries : ItemsOf(todo["recording"]) = <<d.item>>
    BY HandedParts
  <2>2. ItemsOf(todo["recording"]) \in Seq(Items)
    <3>1. \A d \in Deliveries : d.item \in Items
      BY DEF Deliveries
    <3>2. \A x \in Items : <<x>> \in Seq(Items)
      OBVIOUS
    <3>3. <<>> \in Seq(Items)
      BY EmptySeq
    <3>4. QED
      BY <2>1, <3>1, <3>2, <3>3
  <2>3. QED
    BY <2>1, <2>2, ConcatProperties
<1>2. QED
  BY <1>1

(* What is handed to the recording stays, but for items that come behind.  *)
LEMMA HandedSame ==
  ASSUME ItemsOK, contents'["recorder"] = contents["recorder"],
         todo'["recording"] = todo["recording"],
         \/ contents'["recordingEventQueue"] = contents["recordingEventQueue"]
         \/ \E x \in Items : /\ x.kind # "report"
                             /\ contents'["recordingEventQueue"]
                                  = Append(contents["recordingEventQueue"], x)
  PROVE  OfKind(HandedToRecording, "report")' = OfKind(HandedToRecording, "report")
<1> DEFINE before == contents["recorder"] \o ItemsOf(todo["recording"])
           queue == contents["recordingEventQueue"]
<1>1. before \in Seq(Items) /\ queue \in Seq(Items) /\ HandedToRecording = before \o queue
  BY HandedType
<1>2. HandedToRecording' = before \o contents'["recordingEventQueue"]
  BY DEF HandedToRecording, ItemsOf
<1>3. OfKind(HandedToRecording, "report")' = OfKind(HandedToRecording', "report")
  BY DEF OfKind
<1> HIDE DEF before, queue
<1>4. CASE contents'["recordingEventQueue"] = queue
  BY <1>1, <1>2, <1>3, <1>4
<1>5. ASSUME NEW x \in Items, x.kind # "report", contents'["recordingEventQueue"] = Append(queue, x)
      PROVE  OfKind(HandedToRecording', "report") = OfKind(HandedToRecording, "report")
  <2>1. OfKind(before \o Append(queue, x), "report") = OfKind(before \o queue, "report")
    BY <1>1, <1>5, HandedMore
  <2>2. QED
    BY <1>1, <1>2, <1>5, <2>1
<1>6. QED
  BY <1>3, <1>4, <1>5 DEF queue

(* The recorder gets the item it was about to get.                         *)
LEMMA RecorderGets ==
  ASSUME ItemsOK, closed \subseteq Queues, Deliver("recording")
  PROVE  HandedToRecording' = HandedToRecording
<1> DEFINE r == contents["recorder"]
           q == contents["recordingEventQueue"]
<1>1. /\ HandedToRecording = (r \o ItemsOf(todo["recording"])) \o q
      /\ r \in Seq(Items) /\ q \in Seq(Items)
      /\ \/ todo["recording"] = <<>>
         \/ \E d \in Deliveries : /\ todo["recording"] = <<d>> /\ d.to = "recorder"
                                  /\ ItemsOf(todo["recording"]) = <<d.item>>
  BY HandedParts
<1>2. todo["recording"] # <<>>
  BY DEF Deliver
<1>3. PICK d \in Deliveries : /\ todo["recording"] = <<d>> /\ d.to = "recorder"
                              /\ ItemsOf(todo["recording"]) = <<d.item>>
  BY <1>1, <1>2
<1>4. d = todo["recording"][1] /\ Head(todo["recording"]) = d /\ d.item \in Items /\ Tail(todo["recording"]) = <<>>
  BY <1>3 DEF Deliveries
<1>5. "recorder" \notin closed /\ "recording" \in Modules /\ "recorder" \in Places
      /\ "recordingEventQueue" \in Places
  BY DEF Queues, Modules, Workers, Looping, Input, Places, Sinks
<1>6. /\ contents'["recorder"] = Append(r, d.item)
      /\ contents'["recordingEventQueue"] = q
  BY <1>3, <1>4, <1>5 DEF Deliver, ItemsOK
<1>7. todo'["recording"] = <<>>
  BY <1>4, <1>5 DEF Deliver, ItemsOK
<1>8. HandedToRecording' = (contents'["recorder"] \o ItemsOf(todo'["recording"])) \o contents'["recordingEventQueue"]
  BY DEF HandedToRecording, ItemsOf
<1>9. ItemsOf(todo'["recording"]) = <<>>
  BY <1>7 DEF ItemsOf
<1> DEFINE x == d.item
<1>10. x \in Items
  BY <1>4
<1> HIDE DEF x, r, q
<1>11. (Append(r, x) \o <<>>) \o q = (r \o <<x>>) \o q
  BY <1>1, <1>10, HandedOn
<1>12. QED
  BY <1>1, <1>3, <1>6, <1>8, <1>9, <1>11 DEF x

(* The recording takes an item; a request is let go.                       *)
LEMMA RecordingTakes ==
  ASSUME ItemsOK, NEW item \in Items,
         Take("recording", item,
              IF item.kind = "request" THEN <<>> ELSE <<To("recorder", item)>>)
  PROVE  OfKind(HandedToRecording, "report")' = OfKind(HandedToRecording, "report")
<1> DEFINE r == contents["recorder"]
           q == contents["recordingEventQueue"]
           ds == IF item.kind = "request" THEN <<>> ELSE <<To("recorder", item)>>
<1>1. /\ HandedToRecording = (r \o ItemsOf(todo["recording"])) \o q
      /\ r \in Seq(Items) /\ q \in Seq(Items)
  BY HandedParts
<1>2. /\ "recording" \in Looping /\ Input["recording"] = "recordingEventQueue"
      /\ "recorder" \in Places /\ "recorder" # "recordingEventQueue"
  BY DEF Looping, Input, Places, Sinks
<1>3. ds \in Seq(Deliveries)
  <2>1. To("recorder", item) \in Deliveries
    BY DEF To, Deliveries, Places, Sinks
  <2>2. \A d \in Deliveries : <<d>> \in Seq(Deliveries)
    OBVIOUS
  <2>3. <<>> \in Seq(Deliveries)
    BY EmptySeq
  <2>4. QED
    BY <2>1, <2>2, <2>3
<1>4. /\ todo["recording"] = <<>> /\ todo'["recording"] = ds
      /\ contents'["recorder"] = r /\ item = q[1]
      /\ q # <<>> /\ contents'["recordingEventQueue"] = Tail(q)
  <2> HIDE DEF ds
  <2>1. Take("recording", item, ds)
    BY DEF ds
  <2>2. QED
    BY <1>2, <1>3, <2>1, TakeMoves
<1>5. ItemsOf(todo["recording"]) = <<>>
  BY <1>4 DEF ItemsOf
<1>6. HandedToRecording' = (r \o ItemsOf(ds)) \o Tail(q)
  BY <1>4 DEF HandedToRecording, ItemsOf
<1>7. OfKind(HandedToRecording, "report")' = OfKind(HandedToRecording', "report")
  BY DEF OfKind
<1> DEFINE rest == Tail(q)
<1>8. rest \in Seq(Items) /\ q = <<item>> \o rest
  <2>1. rest \in Seq(Items) /\ Len(q) \in Nat \ {0} /\ Len(rest) = Len(q) - 1
        /\ \A k \in 1..Len(q) - 1 : rest[k] = q[k + 1]
    BY <1>1, <1>4
  <2> HIDE DEF rest
  <2>2. /\ <<item>> \in Seq(Items) /\ Len(<<item>>) = 1 /\ <<item>>[1] = item
        /\ <<item>> \o rest \in Seq(Items) /\ Len(<<item>> \o rest) = Len(q)
    BY <2>1
  <2>3. \A k \in 1..Len(q) : (<<item>> \o rest)[k] = q[k]
    BY <1>4, <2>1, <2>2
  <2>4. QED
    BY <1>1, <2>1, <2>2, <2>3, SeqEqual
<1>9. CASE item.kind = "request"
  <2>1. ds = <<>> /\ ItemsOf(ds) = <<>>
    BY <1>9 DEF ItemsOf
  <2> HIDE DEF rest, r, q, ds
  <2>2. OfKind((r \o <<>>) \o (<<item>> \o rest), "report") = OfKind((r \o <<>>) \o rest, "report")
    BY <1>1, <1>8, <1>9, NotHandedOn
  <2>3. QED
    BY <1>1, <1>5, <1>6, <1>7, <1>8, <2>1, <2>2 DEF rest
<1>10. CASE item.kind # "request"
  <2>1. ds = <<To("recorder", item)>> /\ To("recorder", item).item = item
    BY <1>10 DEF To
  <2>2. ItemsOf(ds) = <<item>>
    BY <2>1 DEF ItemsOf
  <2> HIDE DEF rest, r, q, ds
  <2>3. (r \o <<>>) \o (<<item>> \o rest) = (r \o <<item>>) \o rest
    BY <1>1, <1>8, HandedOn
  <2>4. QED
    BY <1>1, <1>5, <1>6, <1>7, <1>8, <2>2, <2>3 DEF rest
<1>11. QED
  BY <1>9, <1>10

(* A list of deliveries that is not of a report applies none.              *)
LEMMA NotApplying ==
  ASSUME ItemsOK, \A k \in DOMAIN todo["execution"] : todo["execution"][k].item.kind # "report"
  PROVE  \A k \in DOMAIN todo["execution"] : todo["execution"][k].to # "orderManager"
<1>1. "execution" \in Modules
  BY DEF Modules, Workers, Looping, Input
<1>2. ASSUME NEW k \in DOMAIN todo["execution"], todo["execution"][k].to = "orderManager"
      PROVE  FALSE
  <2>1. todo["execution"][k].item.kind \in Holds["orderManager"]
    BY <1>1, <1>2 DEF ItemsOK
  <2>2. QED
    BY <1>2, <2>1 DEF Holds
<1>3. QED
  BY <1>2

(* Deliveries of execution: the report recorded is the next one applied.   *)
LEMMA ExecutionDelivers ==
  ASSUME ItemsOK, RecordedFirst, Deliver("execution")
  PROVE  RecordedFirst'
<1> DEFINE list == todo["execution"]
           d == list[1]
           om == contents["orderManager"]
<1>1. /\ "execution" \in Modules /\ {"recorder", "recordingEventQueue", "orderManager"} \subseteq Places
      /\ "recording" \in Modules /\ "recording" # "execution"
      /\ "orderManager" \notin closed /\ closed' \subseteq Queues
      /\ list \in Seq(Deliveries) /\ list # <<>> /\ om \in Seq(Items)
  BY DEF Modules, Workers, Looping, Input, Places, Queues, Sinks, RecordedFirst, Deliver, ItemsOK
<1>2. /\ 1 \in DOMAIN list /\ d \in Deliveries /\ d.item \in Items
      /\ d.to \in Serves["execution"] /\ d.item.kind \in Holds[d.to]
      /\ \A w \in Modules : w # "execution" => todo'[w] = todo[w]
      /\ todo'["execution"] \in Seq(Deliveries)
      /\ Len(todo'["execution"]) = Len(list) - 1
      /\ \A k \in DOMAIN todo'["execution"] :
           k \in Nat \ {0} /\ k + 1 \in DOMAIN list /\ todo'["execution"][k] = list[k + 1]
      /\ \A p \in Places : \/ contents'[p] = contents[p]
                           \/ p = d.to /\ contents'[p] = Append(contents[p], d.item)
      /\ d.to \notin closed => contents'[d.to] = Append(contents[d.to], d.item)
      /\ \A p \in Places : p # d.to \/ d.to \in closed => contents'[p] = contents[p]
      /\ closed' = closed
  BY <1>1, DeliverMoves DEF Deliveries
<1>3. d.to # "recorder" /\ contents'["recorder"] = contents["recorder"]
      /\ todo'["recording"] = todo["recording"]
  BY <1>1, <1>2 DEF Serves
<1>4. todo'["execution"] = Tail(list) /\ Head(list) = d
  BY <1>1 DEF Deliver, ItemsOK
<1>5. CASE \A k \in DOMAIN list : list[k].item.kind # "report"
  <2>1. \A k \in DOMAIN list : list[k].to # "orderManager"
    BY <1>5, NotApplying
  <2>2. /\ \A k \in DOMAIN todo'["execution"] : todo'["execution"][k].item.kind # "report"
        /\ \A k \in DOMAIN todo'["execution"] : todo'["execution"][k].to # "orderManager"
    BY <1>2, <1>5, <2>1
  <2>3. Applying = <<>>
    BY <1>2, <1>4, <2>1 DEF Applying
  <2>4. Applying' = <<>>
    <3>1. Len(todo'["execution"]) = 1 => /\ 1 \in DOMAIN todo'["execution"]
                                         /\ Head(todo'["execution"]) = todo'["execution"][1]
      BY <1>2
    <3>2. QED
      BY <2>2, <3>1 DEF Applying
  <2>5. contents'["orderManager"] = om
    BY <1>1, <1>2, <2>1
  <2>6. OfKind(HandedToRecording, "report")' = OfKind(HandedToRecording, "report")
    BY <1>1, <1>2, <1>3, <1>5, HandedSame
  <2>7. AppliedLast(todo'["execution"])
    BY <2>2 DEF AppliedLast
  <2>8. QED
    BY <1>1, <1>2, <2>3, <2>4, <2>5, <2>6, <2>7 DEF RecordedFirst, AppliedLast
<1>6. ASSUME NEW report \in Items, report.kind = "report",
             list = <<To("recordingEventQueue", report), To("orderManager", report)>>
      PROVE  RecordedFirst'
  <2>1. /\ d = To("recordingEventQueue", report) /\ d.item = report /\ d.to = "recordingEventQueue"
        /\ Len(list) = 2 /\ todo'["execution"] = <<To("orderManager", report)>>
        /\ To("orderManager", report).to = "orderManager" /\ To("orderManager", report).item = report
    BY <1>4, <1>6 DEF To
  <2>2. Applying = <<>>
    BY <2>1 DEF Applying
  <2>3. Applying' = <<report>>
    BY <2>1 DEF Applying
  <2>4. contents'["orderManager"] = om
    BY <1>1, <1>2, <2>1
  <2>5. "recordingEventQueue" \notin closed =>
          OfKind(HandedToRecording, "report")' = Append(OfKind(HandedToRecording, "report"), report)
    <3>1. SUFFICES ASSUME "recordingEventQueue" \notin closed
                   PROVE  OfKind(HandedToRecording, "report")' = Append(OfKind(HandedToRecording, "report"), report)
      OBVIOUS
    <3> DEFINE before == contents["recorder"] \o ItemsOf(todo["recording"])
               queue == contents["recordingEventQueue"]
    <3>2. contents'["recordingEventQueue"] = Append(queue, report)
      BY <1>2, <2>1, <3>1
    <3>3. before \in Seq(Items) /\ queue \in Seq(Items) /\ HandedToRecording = before \o queue
      BY HandedType
    <3>4. HandedToRecording' = before \o contents'["recordingEventQueue"]
      BY <1>3 DEF HandedToRecording, ItemsOf
    <3>5. OfKind(HandedToRecording, "report")' = OfKind(HandedToRecording', "report")
      BY DEF OfKind
    <3> HIDE DEF before, queue
    <3>6. OfKind(before \o Append(queue, report), "report")
            = Append(OfKind(before \o queue, "report"), report)
      BY <1>6, <3>3, HandedMore
    <3>7. QED
      BY <3>2, <3>3, <3>4, <3>5, <3>6
  <2>6. Append(om \o <<>>, report) = om \o <<report>>
    BY <1>1, <1>6, ConcatEmptySeq, AppendIsConcat
  <2>7. AppliedLast(todo'["execution"])
    BY <1>6, <2>1 DEF AppliedLast
  <2>8. QED
    BY <1>1, <1>2, <2>2, <2>3, <2>4, <2>5, <2>6, <2>7 DEF RecordedFirst, AppliedLast
<1>7. ASSUME NEW report \in Items, report.kind = "report", list = <<To("orderManager", report)>>
      PROVE  RecordedFirst'
  <2>1. /\ d = To("orderManager", report) /\ d.item = report /\ d.to = "orderManager"
        /\ Len(list) = 1 /\ todo'["execution"] = <<>>
    BY <1>4, <1>7 DEF To
  <2>2. Applying = <<report>>
    BY <1>4, <2>1 DEF Applying
  <2>3. Applying' = <<>>
    BY <2>1 DEF Applying
  <2>4. contents'["orderManager"] = Append(om, report)
    BY <1>1, <1>2, <2>1
  <2>5. contents'["recordingEventQueue"] = contents["recordingEventQueue"]
    BY <1>1, <1>2, <2>1
  <2>6. OfKind(HandedToRecording, "report")' = OfKind(HandedToRecording, "report")
    BY <1>3, <2>5, HandedSame
  <2>7. Append(om, report) \o <<>> = om \o <<report>>
    BY <1>1, <1>7, ConcatEmptySeq, AppendIsConcat, AppendProperties
  <2>8. AppliedLast(todo'["execution"])
    BY <2>1 DEF AppliedLast
  <2>9. QED
    BY <1>1, <1>2, <2>2, <2>3, <2>4, <2>6, <2>7, <2>8 DEF RecordedFirst, AppliedLast
<1>8. QED
  BY <1>5, <1>6, <1>7 DEF RecordedFirst, AppliedLast

(* Steps that leave alone what execution applies.                          *)
LEMMA ElseRecordedFirst ==
  ASSUME RecordedFirst, closed \subseteq closed', closed' \subseteq Queues,
         todo'["execution"] = todo["execution"],
         contents'["orderManager"] = contents["orderManager"],
         OfKind(HandedToRecording, "report")' = OfKind(HandedToRecording, "report")
  PROVE  RecordedFirst'
<1>1. Applying' = Applying
  BY DEF Applying
<1>2. AppliedLast(todo["execution"])' 
  BY DEF RecordedFirst, AppliedLast
<1>3. QED
  BY <1>1, <1>2 DEF RecordedFirst

LEMMA DeliverRecordedFirst ==
  ASSUME ItemsOK, RecordedFirst, NEW m \in Modules, Deliver(m)
  PROVE  RecordedFirst'
<1> DEFINE d == todo[m][1]
<1>1. /\ {"recorder", "recordingEventQueue", "orderManager"} \subseteq Places
      /\ {"recording", "execution"} \subseteq Modules
      /\ closed' = closed /\ closed \subseteq Queues
  BY DEF Modules, Workers, Looping, Input, Places, Queues, Sinks, RecordedFirst, Deliver
<1>2. /\ d \in Deliveries /\ d.item \in Items
      /\ d.to \in Serves[m] /\ d.item.kind \in Makes[m]
      /\ \A w \in Modules : w # m => todo'[w] = todo[w]
      /\ \A p \in Places : \/ contents'[p] = contents[p]
                           \/ p = d.to /\ contents'[p] = Append(contents[p], d.item)
  BY DeliverMoves DEF Deliveries
<1>3. CASE m = "execution"
  BY <1>3, ExecutionDelivers
<1>4. CASE m = "recording"
  <2>1. d.to = "recorder"
    BY <1>2, <1>4 DEF Serves
  <2>2. contents'["orderManager"] = contents["orderManager"] /\ todo'["execution"] = todo["execution"]
    BY <1>1, <1>2, <1>4, <2>1
  <2>3. HandedToRecording' = HandedToRecording
    BY <1>1, <1>4, RecorderGets
  <2>4. OfKind(HandedToRecording, "report")' = OfKind(HandedToRecording, "report")
    BY <2>3 DEF OfKind
  <2>5. QED
    BY <1>1, <2>2, <2>4, ElseRecordedFirst
<1>5. CASE m \notin {"execution", "recording"}
  <2>1. /\ d.to \notin {"recorder", "orderManager"}
        /\ d.to = "recordingEventQueue" => d.item.kind = "event"
    BY <1>2, <1>5 DEF Serves, Makes, Modules, Workers, Looping, Input
  <2>2. /\ contents'["orderManager"] = contents["orderManager"]
        /\ contents'["recorder"] = contents["recorder"]
        /\ todo'["execution"] = todo["execution"] /\ todo'["recording"] = todo["recording"]
    BY <1>1, <1>2, <1>5, <2>1
  <2>3. \/ contents'["recordingEventQueue"] = contents["recordingEventQueue"]
        \/ /\ d.item.kind # "report"
           /\ contents'["recordingEventQueue"] = Append(contents["recordingEventQueue"], d.item)
    BY <1>1, <1>2, <2>1
  <2>4. OfKind(HandedToRecording, "report")' = OfKind(HandedToRecording, "report")
    BY <1>2, <2>2, <2>3, HandedSame
  <2>5. QED
    BY <1>1, <2>2, <2>4, ElseRecordedFirst
<1>6. QED
  BY <1>3, <1>4, <1>5

LEMMA ProcessRecordedFirst ==
  ASSUME ItemsOK, RecordedFirst, NEW m \in Looping, Process(m)
  PROVE  RecordedFirst'
<1>1. PICK item \in Items, deliveries \in Seq(Deliveries) :
        /\ Take(m, item, deliveries)
        /\ Follows(m, item, deliveries)
        /\ m = "execution" =>
             AppliedLast(deliveries) /\ (Len(deliveries) = 1 => item.kind = "request")
        /\ m = "recording" =>
             deliveries = IF item.kind = "request" THEN <<>> ELSE <<To("recorder", item)>>
  BY ProcessTakes
<1>2. /\ todo[m] = <<>> /\ todo'[m] = deliveries
      /\ \A w \in Modules : w # m => todo'[w] = todo[w]
      /\ \A p \in Places : p # Input[m] => contents'[p] = contents[p]
      /\ closed' = closed
  BY <1>1, TakeMoves
<1>3. /\ {"recorder", "recordingEventQueue", "orderManager"} \subseteq Places
      /\ {"recording", "execution"} \subseteq Modules
      /\ closed \subseteq Queues
      /\ Input[m] \notin {"recorder", "orderManager"}
      /\ Input[m] = "recordingEventQueue" => m = "recording"
  BY DEF Modules, Workers, Looping, Input, Places, Queues, Sinks, RecordedFirst
<1>4. /\ contents'["orderManager"] = contents["orderManager"]
      /\ contents'["recorder"] = contents["recorder"]
  BY <1>2, <1>3
<1>5. CASE m = "recording"
  <2>1. OfKind(HandedToRecording, "report")' = OfKind(HandedToRecording, "report")
    BY <1>1, <1>5, RecordingTakes
  <2>2. todo'["execution"] = todo["execution"]
    BY <1>2, <1>3, <1>5
  <2>3. QED
    BY <1>2, <1>3, <1>4, <2>1, <2>2, ElseRecordedFirst
<1>6. CASE m # "recording"
  <2>1. /\ todo'["recording"] = todo["recording"]
        /\ contents'["recordingEventQueue"] = contents["recordingEventQueue"]
    BY <1>2, <1>3, <1>6
  <2>2. OfKind(HandedToRecording, "report")' = OfKind(HandedToRecording, "report")
    BY <1>4, <2>1, HandedSame
  <2>3. CASE m # "execution"
    <3>1. todo'["execution"] = todo["execution"]
      BY <1>2, <1>3, <2>3
    <3>2. QED
      BY <1>2, <1>3, <1>4, <2>2, <3>1, ElseRecordedFirst
  <2>4. CASE m = "execution"
    <3>1. Applying = <<>>
      BY <1>2, <2>4 DEF Applying
    <3>2. Applying' = <<>>
      <4>1. SUFFICES ASSUME Len(deliveries) = 1, Head(deliveries).to = "orderManager"
                     PROVE  FALSE
        BY <1>2, <2>4 DEF Applying
      <4>2. 1 \in DOMAIN deliveries /\ Head(deliveries) = deliveries[1]
        BY <4>1
      <4>3. deliveries[1].item.kind \in Holds["orderManager"] /\ deliveries[1].item = item
        BY <1>1, <2>4, <4>1, <4>2 DEF Follows
      <4>4. QED
        BY <1>1, <2>4, <4>1, <4>3 DEF Holds
    <3>3. AppliedLast(todo'["execution"])
      BY <1>1, <1>2, <2>4
    <3>4. AppliedLast(todo["execution"])'
      BY <3>3 DEF AppliedLast
    <3>5. QED
      BY <1>2, <1>3, <1>4, <2>2, <3>1, <3>2, <3>4 DEF RecordedFirst
  <2>5. QED
    BY <2>3, <2>4
<1>7. QED
  BY <1>5, <1>6

LEMMA ClosedGrows == closed \subseteq Queues /\ [Next]_vars => closed \subseteq closed' /\ closed' \subseteq Queues
<1>1. ASSUME closed \subseteq Queues, [Next]_vars PROVE closed \subseteq closed' /\ closed' \subseteq Queues
  <2>1. ASSUME NEW m \in Looping, Process(m) PROVE closed' = closed
    BY <2>1 DEF Process, BuildEvent, Evaluate, ProcessRequest, ProcessReport, Record, ProcessTrade, Take
  <2>2. ASSUME NEW q \in Closable, Close(q) PROVE closed \subseteq closed' /\ closed' \subseteq Queues
    BY <1>1, <2>2, ClosableAssumption DEF Close
  <2>3. QED
    BY <1>1, <2>1, <2>2
       DEF Next, Main, Start, StartModule, Stop, StopModule, Advance, Deliver, EndLoop, ApplySnapshot,
           Sources, ReceiveUpdate, ReceiveTrades, ReceiveReport, ReportSourceReturns, vars, application
<1>2. QED
  BY <1>1

LEMMA InitRecordedFirst == Init => RecordedFirst
<1> SUFFICES ASSUME Init PROVE RecordedFirst
  OBVIOUS
<1>1. /\ todo["execution"] = <<>> /\ todo["recording"] = <<>> /\ closed = {}
      /\ contents["recorder"] = <<>> /\ contents["recordingEventQueue"] = <<>>
      /\ contents["orderManager"] = <<>>
  BY DEF Init, Modules, Workers, Looping, Input, Places, Queues, Sinks
<1>2. HandedToRecording = (<<>> \o ItemsOf(<<>>)) \o <<>> /\ ItemsOf(<<>>) = <<>>
  BY <1>1 DEF HandedToRecording, ItemsOf
<1>3. <<>> \in Seq(Items) /\ <<>> \o <<>> = <<>>
  BY ConcatEmptySeq, EmptySeq
<1>4. HandedToRecording = <<>> /\ OfKind(HandedToRecording, "report") = <<>>
  BY <1>2, <1>3, OfKindEmpty
<1>5. Applying = <<>>
  BY <1>1 DEF Applying
<1>6. QED
  BY <1>1, <1>3, <1>4, <1>5 DEF RecordedFirst, AppliedLast

LEMMA NextRecordedFirst == ItemsOK /\ RecordedFirst /\ [Next]_vars => RecordedFirst'
<1> SUFFICES ASSUME ItemsOK, RecordedFirst, [Next]_vars PROVE RecordedFirst'
  OBVIOUS
<1>1. closed \subseteq closed' /\ closed' \subseteq Queues
  BY ClosedGrows DEF RecordedFirst
<1>2. ASSUME contents' = contents, todo'["execution"] = todo["execution"],
             todo'["recording"] = todo["recording"]
      PROVE  RecordedFirst'
  <2>1. OfKind(HandedToRecording, "report")' = OfKind(HandedToRecording, "report")
    BY <1>2, HandedSame
  <2>2. QED
    BY <1>1, <1>2, <2>1, ElseRecordedFirst
<1>3. todo \in [Modules -> Seq(Deliveries)]
  BY DEF ItemsOK
<1>4. ASSUME NEW m \in {"marketData", "executionReport"}, NEW deliveries,
             todo' = [todo EXCEPT ![m] = deliveries]
      PROVE  todo'["execution"] = todo["execution"] /\ todo'["recording"] = todo["recording"]
  BY <1>3, <1>4
<1>5. CASE ReceiveUpdate
  BY <1>2, <1>4, <1>5, UpdateReceived
<1>6. ASSUME NEW count \in 1..MaxTrades, ReceiveTrades(count) PROVE RecordedFirst'
  BY <1>2, <1>4, <1>6, TradesReceived
<1>7. CASE ReceiveReport
  BY <1>2, <1>4, <1>7, ReportReceived
<1>8. CASE Still
  BY <1>2, <1>8 DEF Still
<1>9. QED
  BY <1>5, <1>6, <1>7, <1>8, Moves, DeliverRecordedFirst, ProcessRecordedFirst

(* A report changes orders and positions (OrderManager::applyExecution)    *)
(* only after ExecutionModule::process handed it to the recording.         *)
THEOREM AppliedOnceRecorded == Spec => []RecordedBeforeApplied
<1>1. ItemsOK /\ RecordedFirst => RecordedBeforeApplied
  <2>1. SUFFICES ASSUME ItemsOK, RecordedFirst, "recordingEventQueue" \notin closed
                 PROVE  IsPrefix(contents["orderManager"], OfKind(HandedToRecording, "report"))
    BY DEF RecordedBeforeApplied
  <2> DEFINE om == contents["orderManager"]
             ap == Applying
  <2>2. OfKind(HandedToRecording, "report") = om \o ap
    BY <2>1 DEF RecordedFirst
  <2>3. om \in Seq(Items) /\ ap \in Seq(Items)
    <3>1. om \in Seq(Items)
      BY <2>1, HandedParts
    <3>2. todo["execution"] \in Seq(Deliveries)
      BY <2>1 DEF ItemsOK, Modules, Workers, Looping, Input
    <3>3. Len(todo["execution"]) = 1 => Head(todo["execution"]).item \in Items
      <4>1. Len(todo["execution"]) = 1 => todo["execution"] # <<>>
        BY <3>2
      <4>2. Len(todo["execution"]) = 1 => Head(todo["execution"]) \in Deliveries
        BY <3>2, <4>1, HeadTailProperties
      <4>3. QED
        BY <4>2 DEF Deliveries
    <3>4. \A x \in Items : <<x>> \in Seq(Items)
      OBVIOUS
    <3>5. <<>> \in Seq(Items)
      BY EmptySeq
    <3>6. QED
      BY <3>1, <3>3, <3>4, <3>5 DEF Applying
  <2> HIDE DEF om, ap
  <2>4. /\ om \o ap \in Seq(Items) /\ Len(om) <= Len(om \o ap) /\ Len(om) \in Nat
        /\ \A k \in 1..Len(om) : (om \o ap)[k] = om[k]
    BY <2>3
  <2>5. SubSeq(om, 1, Len(om)) = SubSeq(om \o ap, 1, Len(om))
    BY <2>3, <2>4
  <2>6. QED
    BY <2>2, <2>4, <2>5 DEF IsPrefix, om
<1>2. Spec => []ItemsOK
  BY InitItemsOK, NextItemsOK, PTL DEF Spec
<1>3. QED
  BY <1>1, <1>2, InitRecordedFirst, NextRecordedFirst, PTL DEF Spec

-----------------------------------------------------------------------------
LEMMA Orders ==
  /\ StartOrder \in Seq(Modules) /\ StopOrder \in Seq(Modules)
  /\ \A j, k \in DOMAIN StartOrder : StartOrder[j] = StartOrder[k] => j = k
  /\ \A j, k \in DOMAIN StopOrder : StopOrder[j] = StopOrder[k] => j = k
  /\ \A m \in Modules : m \in {StartOrder[k] : k \in DOMAIN StartOrder}
  /\ \A m \in Modules : m \in {StopOrder[k] : k \in DOMAIN StopOrder}
  /\ StartOrder # <<>> /\ StopOrder # <<>>
<1>1. StartOrder \in Seq(Modules) /\ StopOrder \in Seq(Modules)
  BY DEF StartOrder, StopOrder, Modules, Workers, Looping, Input
<1>2. \A j, k \in DOMAIN StartOrder : StartOrder[j] = StartOrder[k] => j = k
  BY DEF StartOrder
<1>3. \A j, k \in DOMAIN StopOrder : StopOrder[j] = StopOrder[k] => j = k
  BY DEF StopOrder
<1>4. ASSUME NEW m \in Modules PROVE m \in {StartOrder[k] : k \in DOMAIN StartOrder}
  <2>1. \E k \in 1..7 : StartOrder[k] = m
    BY DEF StartOrder, Modules, Workers, Looping, Input
  <2>2. DOMAIN StartOrder = 1..7
    BY DEF StartOrder
  <2>3. QED
    BY <2>1, <2>2
<1>5. ASSUME NEW m \in Modules PROVE m \in {StopOrder[k] : k \in DOMAIN StopOrder}
  <2>1. \E k \in 1..7 : StopOrder[k] = m
    BY DEF StopOrder, Modules, Workers, Looping, Input
  <2>2. DOMAIN StopOrder = 1..7
    BY DEF StopOrder
  <2>3. QED
    BY <2>1, <2>2
<1>6. StartOrder # <<>> /\ StopOrder # <<>>
  BY DEF StartOrder, StopOrder
<1>7. QED
  BY <1>1, <1>2, <1>3, <1>4, <1>5, <1>6

(* The call goes on to its next module.                                    *)
LEMMA NextModule ==
  ASSUME CallOK, phase # "idle", Advance
  PROVE  /\ Head(left) \in Modules /\ Head(left) \in ToDo /\ Head(left) \notin ToDo'
         /\ \A m \in Modules : m \in ToDo <=> m = Head(left) \/ m \in ToDo'
         /\ left' \in Seq(Modules)
         /\ \A j, k \in DOMAIN left' : left'[j] = left'[k] => j = k
         /\ \/ /\ Len(left) = 1 /\ left' = <<>> /\ ToDo' = {}
               /\ phase' = "idle" /\ running' = (phase = "starting")
            \/ left' # <<>> /\ phase' = phase /\ running' = TRUE
<1>1. left \in Seq(Modules) /\ left # <<>> /\ left' = Tail(left)
  BY DEF CallOK, Advance
<1>2. /\ Head(left) = left[1] /\ 1 \in DOMAIN left /\ left[1] \in Modules
      /\ left' \in Seq(Modules) /\ Len(left') = Len(left) - 1
      /\ \A k \in DOMAIN left' :
           k \in Nat \ {0} /\ k + 1 \in DOMAIN left /\ left'[k] = left[k + 1]
  BY <1>1, WithoutHead
<1>3. /\ DOMAIN left = 1..Len(left) /\ Len(left) \in Nat /\ Len(left) > 0
      /\ DOMAIN left' = 1..Len(left')
  BY <1>1, <1>2
<1>4. \A j, k \in DOMAIN left' : left'[j] = left'[k] => j = k
  BY <1>2 DEF CallOK
<1>5. Head(left) \notin ToDo'
  <2>1. ASSUME NEW k \in DOMAIN left', left'[k] = left[1] PROVE FALSE
    BY <1>2, <2>1 DEF CallOK
  <2>2. QED
    BY <1>2, <2>1 DEF ToDo
<1>6. ASSUME NEW m \in Modules PROVE m \in ToDo <=> m = Head(left) \/ m \in ToDo'
  <2>1. ASSUME NEW k \in DOMAIN left, left[k] = m, k # 1 PROVE m \in ToDo'
    <3>1. k - 1 \in DOMAIN left' /\ (k - 1) + 1 = k
      BY <1>2, <1>3, <2>1
    <3>2. left'[k - 1] = m
      BY <1>2, <2>1, <3>1
    <3>3. QED
      BY <3>1, <3>2 DEF ToDo
  <2>2. m \in ToDo' => m \in ToDo
    BY <1>2 DEF ToDo
  <2>3. QED
    BY <1>2, <2>1, <2>2 DEF ToDo
<1>7. \/ /\ Len(left) = 1 /\ left' = <<>> /\ ToDo' = {}
         /\ phase' = "idle" /\ running' = (phase = "starting")
      \/ left' # <<>> /\ phase' = phase /\ running' = TRUE
  <2>1. CASE Len(left) = 1
    <3>1. Len(left') = 0 /\ left' = <<>>
      BY <1>2, <2>1, EmptySeq
    <3>2. ToDo' = {}
      BY <3>1 DEF ToDo
    <3>3. QED
      BY <2>1, <3>1, <3>2 DEF Advance
  <2>2. CASE Len(left) > 1
    <3>1. Len(left') # 0 /\ left' # <<>>
      BY <1>2, <1>3, <2>2
    <3>2. running' = TRUE
      BY <2>2 DEF Advance
    <3>3. Len(left) # 1
      BY <1>3, <2>2, \A n \in Nat : n > 1 => n # 1
    <3>4. phase' = phase
      BY <3>3 DEF Advance
    <3>5. QED
      BY <3>1, <3>2, <3>4
  <2>3. Len(left) = 1 \/ Len(left) > 1
    <3> DEFINE n == Len(left)
    <3>1. n \in Nat /\ n > 0
      BY <1>3
    <3> HIDE DEF n
    <3>2. n = 1 \/ n > 1
      BY <3>1
    <3>3. QED
      BY <3>2 DEF n
  <2>4. QED
    BY <2>1, <2>2, <2>3
<1>8. QED
  BY <1>2, <1>4, <1>5, <1>6, <1>7 DEF ToDo

LEMMA NextCallOK == CallOK /\ [Next]_vars => CallOK'
<1> SUFFICES ASSUME CallOK, [Next]_vars PROVE CallOK'
  OBVIOUS
<1>1. CASE Start
  <2>1. /\ left' = StartOrder /\ phase' = "starting" /\ running' = TRUE /\ flag' = flag
    BY <1>1 DEF Start
  <2>2. \A m \in Modules : m \in ToDo'
    BY <2>1, Orders DEF ToDo
  <2>3. QED
    BY <2>1, <2>2, Orders DEF CallOK
<1>2. CASE Stop
  <2>1. /\ left' = StopOrder /\ phase' = "stopping" /\ running' = TRUE /\ flag' = flag
        /\ \A m \in Modules : flag[m]
    BY <1>2 DEF Stop, CallOK
  <2>2. \A m \in Modules : m \in ToDo'
    BY <2>1, Orders DEF ToDo
  <2>3. QED
    BY <2>1, <2>2, Orders DEF CallOK
<1>3. CASE StartModule
  <2>1. phase = "starting" /\ Advance /\ flag' = [flag EXCEPT ![Head(left)] = TRUE]
    BY <1>3 DEF StartModule
  <2>2. /\ Head(left) \in Modules
        /\ \A m \in Modules : m \in ToDo <=> m = Head(left) \/ m \in ToDo'
        /\ left' \in Seq(Modules)
        /\ \A j, k \in DOMAIN left' : left'[j] = left'[k] => j = k
        /\ \/ left' = <<>> /\ ToDo' = {} /\ phase' = "idle" /\ running' = (phase = "starting")
           \/ left' # <<>> /\ phase' = phase /\ running' = TRUE
    BY <2>1, NextModule
  <2>3. /\ flag' \in [Modules -> BOOLEAN]
        /\ \A m \in Modules : flag'[m] \/ m \in ToDo'
    BY <2>1, <2>2 DEF CallOK
  <2>4. QED
    BY <2>1, <2>2, <2>3 DEF CallOK
<1>4. CASE StopModule
  <2>1. phase = "stopping" /\ Advance /\ flag' = [flag EXCEPT ![Head(left)] = FALSE]
    BY <1>4 DEF StopModule
  <2>2. /\ Head(left) \in Modules /\ Head(left) \notin ToDo'
        /\ \A m \in Modules : m \in ToDo <=> m = Head(left) \/ m \in ToDo'
        /\ left' \in Seq(Modules)
        /\ \A j, k \in DOMAIN left' : left'[j] = left'[k] => j = k
        /\ \/ left' = <<>> /\ ToDo' = {} /\ phase' = "idle" /\ running' = (phase = "starting")
           \/ left' # <<>> /\ phase' = phase /\ running' = TRUE
    BY <2>1, NextModule
  <2>3. /\ flag' \in [Modules -> BOOLEAN]
        /\ \A m \in Modules : flag'[m] <=> m \in ToDo'
    BY <2>1, <2>2 DEF CallOK
  <2>4. QED
    BY <2>1, <2>2, <2>3 DEF CallOK
<1>5. CASE UNCHANGED application
  BY <1>5 DEF application, CallOK, ToDo
<1>6. ASSUME NEW m \in Looping, Process(m) PROVE UNCHANGED application
  BY <1>6 DEF Process, BuildEvent, Evaluate, ProcessRequest, ProcessReport, Record, ProcessTrade, Take
<1>7. QED
  BY <1>1, <1>2, <1>3, <1>4, <1>5, <1>6
     DEF Next, Main, Close, Deliver, EndLoop, ApplySnapshot,
         Sources, ReceiveUpdate, ReceiveTrades, ReceiveReport, ReportSourceReturns, vars, application

(* What is closed and empty stays so.                                      *)
LEMMA DoneStays ==
  ASSUME ItemsOK, closed \subseteq Queues, [Next]_vars, NEW m \in Looping, Done(m)
  PROVE  Done(m)'
<1> DEFINE q == Input[m]
<1>1. q \in closed /\ contents[q] = <<>> /\ q \in Places
  BY DEF Done, Looping, Input, Places, Queues
<1>2. q \in closed'
  BY <1>1, ClosedGrows
<1> HIDE DEF q
<1>3. ASSUME NEW w \in Modules, Deliver(w) PROVE contents'[q] = contents[q]
  <2>1. \A p \in Places : p # todo[w][1].to \/ todo[w][1].to \in closed => contents'[p] = contents[p]
    BY <1>3, DeliverMoves
  <2>2. QED
    BY <1>1, <2>1
<1>4. ASSUME NEW w \in Looping, Process(w) PROVE contents'[q] = contents[q]
  <2>1. PICK item \in Items, deliveries \in Seq(Deliveries) : Take(w, item, deliveries)
    BY <1>4, ProcessTakes
  <2>2. contents[Input[w]] # <<>> /\ \A p \in Places : p # Input[w] => contents'[p] = contents[p]
    BY <2>1, TakeMoves
  <2>3. QED
    BY <1>1, <2>2
<1>5. contents'[q] = contents[q]
  BY <1>3, <1>4, Moves, UpdateReceived, TradesReceived, ReportReceived DEF Still
<1>6. QED
  BY <1>1, <1>2, <1>5 DEF Done, q

(* What the steps that change no thread and no flag must keep.             *)
LEMMA SameThreads ==
  ASSUME ThreadsOK, \A m \in Looping : Done(m) => Done(m)',
         thread' = thread, flag' = flag,
         phase' = phase \/ phase' # "stopping" \/ \A m \in Modules : flag[m],
         \A w \in Workers : thread[w] # "looping" => todo'[w] = todo[w],
         running' = running \/ running',
         ~running' /\ (\A m \in Modules : todo[m] = <<>>) => todo' = todo /\ contents' = contents
  PROVE  ThreadsOK'
<1>1. \A m \in Served : Done(m) => Done(m)'
  BY DEF Served
<1>2. Served \subseteq Modules
  BY DEF Served, Modules, Workers
<1>3. /\ thread' \in [Workers -> {"none", "starting", "looping", "ended"}]
      /\ \A w \in Workers : thread'[w] = "none" <=> ~flag'[w]
      /\ \A w \in Workers : thread'[w] # "looping" => todo'[w] = <<>>
  BY DEF ThreadsOK
<1>4. \A m \in Served : thread'[m] = "ended" => Done(m)'
  BY <1>1 DEF ThreadsOK
<1>5. phase' = "stopping" => \A m \in Served : flag'[m] \/ Done(m)'
  BY <1>1, <1>2 DEF ThreadsOK
<1>6. ~running' => \/ \A m \in Served : Done(m)'
                   \/ /\ \A m \in Modules : todo'[m] = <<>>
                      /\ \A p \in Places : contents'[p] = <<>>
  BY <1>1 DEF ThreadsOK
<1>7. QED
  BY <1>3, <1>4, <1>5, <1>6 DEF ThreadsOK

LEMMA StartModuleThreads ==
  ASSUME CallOK, ThreadsOK, StartModule, \A m \in Looping : Done(m) => Done(m)'
  PROVE  ThreadsOK'
<1> DEFINE h == Head(left)
<1>1. /\ phase = "starting" /\ Advance /\ todo' = todo
      /\ flag' = [flag EXCEPT ![h] = TRUE]
      /\ thread' = IF h \in Workers /\ ~flag[h]
                   THEN [thread EXCEPT ![h] = IF h = "bookBuilder" THEN "starting" ELSE "looping"]
                   ELSE thread
  BY DEF StartModule, Advance
<1>2. /\ h \in Modules /\ running' = TRUE
      /\ phase' # "stopping"
  BY <1>1, NextModule
<1>3. /\ flag \in [Modules -> BOOLEAN] /\ Workers \subseteq Modules
      /\ thread \in [Workers -> {"none", "starting", "looping", "ended"}]
  BY DEF CallOK, ThreadsOK, Modules
<1> HIDE DEF h
<1>4. thread' \in [Workers -> {"none", "starting", "looping", "ended"}]
  BY <1>1, <1>3
<1>5. ASSUME NEW w \in Workers
      PROVE  /\ thread'[w] = "none" <=> ~flag'[w]
             /\ thread'[w] # "looping" => todo'[w] = <<>>
             /\ thread'[w] = "ended" => thread[w] = "ended"
  <2>1. CASE w # h
    BY <1>1, <1>3, <1>5, <2>1 DEF ThreadsOK
  <2>2. CASE w = h /\ flag[h]
    BY <1>1, <1>2, <1>3, <1>5, <2>2 DEF ThreadsOK
  <2>3. CASE w = h /\ ~flag[h]
    <3>1. todo[w] = <<>>
      BY <2>3 DEF ThreadsOK
    <3>2. thread'[w] \in {"starting", "looping"} /\ flag'[w]
      BY <1>1, <1>2, <1>3, <2>3
    <3>3. QED
      BY <1>1, <3>1, <3>2
  <2>4. QED
    BY <1>3, <2>1, <2>2, <2>3
<1>6. ASSUME NEW m \in Served, thread'[m] = "ended" PROVE Done(m)'
  <2>1. m \in Workers /\ m \in Looping
    BY DEF Served, Workers
  <2>2. QED
    BY <1>5, <1>6, <2>1 DEF ThreadsOK
<1>7. QED
  BY <1>2, <1>4, <1>5, <1>6 DEF ThreadsOK

LEMMA StopModuleThreads ==
  ASSUME CallOK, ThreadsOK, StopModule, \A m \in Looping : Done(m) => Done(m)'
  PROVE  ThreadsOK'
<1> DEFINE h == Head(left)
<1>1. /\ phase = "stopping" /\ Advance /\ todo' = todo /\ Joined(h)
      /\ flag' = [flag EXCEPT ![h] = FALSE]
      /\ thread' = IF h \in Workers THEN [thread EXCEPT ![h] = "none"] ELSE thread
  BY DEF StopModule, Advance
<1>2. /\ h \in Modules /\ h \in ToDo
      /\ \A m \in Modules : m \in ToDo <=> m = h \/ m \in ToDo'
      /\ \/ ToDo' = {} /\ phase' = "idle"
         \/ phase' = phase /\ running' = TRUE
  BY <1>1, NextModule
<1>3. /\ flag \in [Modules -> BOOLEAN] /\ Workers \subseteq Modules
      /\ thread \in [Workers -> {"none", "starting", "looping", "ended"}]
      /\ \A m \in Modules : flag[m] <=> m \in ToDo
  BY <1>1 DEF CallOK, ThreadsOK, Modules
<1>4. Served \subseteq Workers /\ Served \subseteq Looping
  BY DEF Served, Workers
<1> HIDE DEF h
<1>5. h \in Workers => thread[h] = "ended"
  BY <1>1, <1>2, <1>3 DEF Joined
<1>6. thread' \in [Workers -> {"none", "starting", "looping", "ended"}]
  BY <1>1, <1>3
<1>7. ASSUME NEW w \in Workers
      PROVE  /\ thread'[w] = "none" <=> ~flag'[w]
             /\ thread'[w] # "looping" => todo'[w] = <<>>
             /\ thread'[w] = "ended" => thread[w] = "ended"
  <2>1. CASE w # h
    BY <1>1, <1>3, <1>7, <2>1 DEF ThreadsOK
  <2>2. CASE w = h
    BY <1>1, <1>2, <1>3, <1>5, <2>2 DEF ThreadsOK
  <2>3. QED
    BY <2>1, <2>2
<1>8. ASSUME NEW m \in Served, thread'[m] = "ended" PROVE Done(m)'
  BY <1>4, <1>7, <1>8 DEF ThreadsOK
<1>9. ASSUME NEW m \in Served PROVE flag'[m] \/ Done(m)'
  <2>1. CASE m = h
    BY <1>4, <1>5, <2>1 DEF ThreadsOK
  <2>2. CASE m # h
    BY <1>1, <1>3, <1>4, <2>2 DEF ThreadsOK
  <2>3. QED
    BY <2>1, <2>2
<1>10. ASSUME ~running', NEW m \in Served PROVE Done(m)'
  <2>1. ToDo' = {}
    BY <1>2, <1>10
  <2>2. m = h \/ ~flag[m]
    BY <1>2, <1>3, <1>4, <2>1
  <2>3. QED
    BY <1>1, <1>4, <1>5, <2>2 DEF ThreadsOK
<1>11. QED
  BY <1>6, <1>7, <1>8, <1>9, <1>10 DEF ThreadsOK

(* A thread that is started or ends changes nothing else.                  *)
LEMMA OneThread ==
  ASSUME CallOK, ThreadsOK, \A m \in Looping : Done(m) => Done(m)',
         UNCHANGED <<application, todo>>, NEW w \in Workers,
         thread[w] # "none", todo[w] = <<>>,
         NEW next \in {"looping", "ended"}, thread' = [thread EXCEPT ![w] = next],
         w \in Served /\ next = "ended" => Done(w)
  PROVE  ThreadsOK'
<1>1. /\ thread \in [Workers -> {"none", "starting", "looping", "ended"}]
      /\ flag' = flag /\ phase' = phase /\ running' = running /\ todo' = todo
      /\ Workers \subseteq Modules
  BY DEF ThreadsOK, application, Modules
<1>2. thread' \in [Workers -> {"none", "starting", "looping", "ended"}]
  BY <1>1
<1>3. ASSUME NEW v \in Workers
      PROVE  /\ thread'[v] = "none" <=> ~flag'[v]
             /\ thread'[v] # "looping" => todo'[v] = <<>>
  BY <1>1 DEF ThreadsOK
<1>4. ASSUME NEW m \in Served, thread'[m] = "ended" PROVE Done(m)'
  <2>1. m \in Looping /\ m \in Workers
    BY DEF Served, Workers
  <2>2. CASE m = w
    BY <1>1, <1>4, <2>1, <2>2
  <2>3. CASE m # w
    BY <1>1, <1>4, <2>1, <2>3 DEF ThreadsOK
  <2>4. QED
    BY <2>2, <2>3
<1>5. \A m \in Served : Done(m) => Done(m)'
  BY DEF Served
<1>6. running
  BY <1>1 DEF CallOK, ThreadsOK
<1>7. phase' = "stopping" => \A m \in Served : flag'[m] \/ Done(m)'
  BY <1>1, <1>5 DEF ThreadsOK
<1>8. QED
  BY <1>1, <1>2, <1>3, <1>4, <1>6, <1>7 DEF ThreadsOK

LEMMA InitCallOK == Init => CallOK /\ ThreadsOK
<1> SUFFICES ASSUME Init PROVE CallOK /\ ThreadsOK
  OBVIOUS
<1>1. CallOK
  <2>1. left = <<>> /\ left \in Seq(Modules) /\ DOMAIN left = {}
    BY EmptySeq DEF Init
  <2>2. /\ running = FALSE /\ phase = "idle" /\ flag \in [Modules -> BOOLEAN]
        /\ \A m \in Modules : flag[m] = FALSE
    BY DEF Init
  <2>3. QED
    BY <2>1, <2>2 DEF CallOK
<1>2. ThreadsOK
  <2>1. /\ \A m \in Modules : todo[m] = <<>>
        /\ \A p \in Places : contents[p] = <<>>
        /\ \A m \in Modules : flag[m] = FALSE
        /\ \A w \in Workers : thread[w] = "none"
        /\ thread \in [Workers -> {"none", "starting", "looping", "ended"}]
        /\ phase = "idle" /\ Workers \subseteq Modules /\ Served \subseteq Workers
    BY DEF Init, Modules, Served, Workers
  <2>2. QED
    BY <2>1 DEF ThreadsOK
<1>3. QED
  BY <1>1, <1>2

LEMMA NextThreadsOK ==
  ItemsOK /\ closed \subseteq Queues /\ CallOK /\ ThreadsOK /\ [Next]_vars => ThreadsOK'
<1> SUFFICES ASSUME ItemsOK, closed \subseteq Queues, CallOK, ThreadsOK, [Next]_vars
             PROVE  ThreadsOK'
  OBVIOUS
<1>1. \A m \in Looping : Done(m) => Done(m)'
  BY DoneStays
<1>2. /\ Workers \subseteq Modules /\ Looping \subseteq Workers /\ todo \in [Modules -> Seq(Deliveries)]
      /\ "marketData" \in Modules /\ "marketData" \notin Workers
      /\ "executionReport" \in Workers /\ "executionReport" \notin Looping
      /\ "bookBuilder" \in Workers /\ "bookBuilder" \notin Served
  BY DEF Modules, Workers, Looping, Input, Served, ItemsOK
<1>3. ~running => phase = "idle" /\ \A m \in Modules : ~flag[m]
  BY DEF CallOK
<1>4. \A w \in Workers : thread[w] = "looping" => running
  BY <1>2, <1>3 DEF ThreadsOK
<1>5. CASE Start
  <2>1. UNCHANGED <<flag, thread, todo, contents>> /\ phase' = "starting" /\ running' = TRUE
    BY <1>5 DEF Start
  <2>2. QED
    BY <1>1, <2>1, SameThreads
<1>6. CASE Stop
  <2>1. /\ UNCHANGED <<flag, thread, todo, contents, running>> /\ running /\ phase = "idle"
    BY <1>6 DEF Stop
  <2>2. \A m \in Modules : flag[m]
    BY <2>1 DEF CallOK
  <2>3. QED
    BY <1>1, <2>1, <2>2, SameThreads
<1>7. CASE StartModule
  BY <1>1, <1>7, StartModuleThreads
<1>8. CASE StopModule
  BY <1>1, <1>8, StopModuleThreads
<1>9. ASSUME NEW q \in Closable, Close(q) PROVE ThreadsOK'
  BY <1>1, <1>9, SameThreads DEF Close, application
<1>10. ASSUME NEW m \in Modules, Deliver(m) PROVE ThreadsOK'
  <2>1. UNCHANGED <<flag, thread, running, phase>> /\ todo[m] # <<>>
    BY <1>10 DEF Deliver, application
  <2>2. \A w \in Modules : w # m => todo'[w] = todo[w]
    BY <1>2, <1>10 DEF Deliver
  <2>3. \A w \in Workers : thread[w] # "looping" => todo'[w] = todo[w]
    BY <1>2, <2>1, <2>2 DEF ThreadsOK
  <2>4. QED
    BY <1>1, <2>1, <2>3, SameThreads
<1>11. ASSUME NEW m \in Looping, Process(m) PROVE ThreadsOK'
  <2>1. PICK item \in Items, deliveries \in Seq(Deliveries) : Take(m, item, deliveries)
    BY <1>11, ProcessTakes
  <2>2. UNCHANGED <<flag, thread, running, phase>> /\ thread[m] = "looping"
    BY <2>1 DEF Take, application
  <2>3. \A w \in Modules : w # m => todo'[w] = todo[w]
    BY <2>1, TakeMoves
  <2>4. running
    BY <1>2, <1>4, <2>2
  <2>5. \A w \in Workers : thread[w] # "looping" => todo'[w] = todo[w]
    BY <1>2, <2>2, <2>3
  <2>6. QED
    BY <1>1, <2>2, <2>4, <2>5, SameThreads
<1>12. ASSUME NEW m \in Looping, EndLoop(m) PROVE ThreadsOK'
  <2>1. /\ thread[m] = "looping" /\ todo[m] = <<>> /\ Done(m)
        /\ thread' = [thread EXCEPT ![m] = "ended"] /\ UNCHANGED <<application, todo>>
    BY <1>12 DEF EndLoop, Done
  <2>2. QED
    BY <1>1, <1>2, <2>1, OneThread
<1>13. CASE ApplySnapshot
  <2>1. /\ thread["bookBuilder"] = "starting" /\ UNCHANGED <<application, todo>>
        /\ \/ thread' = [thread EXCEPT !["bookBuilder"] = "looping"]
           \/ thread' = [thread EXCEPT !["bookBuilder"] = "ended"]
    BY <1>13 DEF ApplySnapshot
  <2>2. todo["bookBuilder"] = <<>>
    BY <1>2, <2>1 DEF ThreadsOK
  <2>3. QED
    BY <1>1, <1>2, <2>1, <2>2, OneThread
<1>14. ASSUME NEW m \in {"marketData", "executionReport"}, NEW deliveries,
              UNCHANGED <<application, thread, contents>>, running,
              todo' = [todo EXCEPT ![m] = deliveries],
              m = "marketData" \/ thread[m] = "looping"
       PROVE  ThreadsOK'
  <2>1. \A w \in Modules : w # m => todo'[w] = todo[w]
    BY <1>2, <1>14
  <2>2. \A w \in Workers : thread[w] # "looping" => todo'[w] = todo[w]
    BY <1>2, <1>14, <2>1
  <2>3. UNCHANGED <<flag, phase, running>>
    BY <1>14 DEF application
  <2>4. QED
    BY <1>1, <1>14, <2>2, <2>3, SameThreads
<1>15. CASE ReceiveUpdate
  <2>1. flag["marketData"] /\ UNCHANGED <<application, thread, contents>>
    BY <1>15 DEF ReceiveUpdate
  <2>2. QED
    BY <1>2, <1>3, <1>14, <1>15, <2>1, UpdateReceived
<1>16. ASSUME NEW count \in 1..MaxTrades, ReceiveTrades(count) PROVE ThreadsOK'
  <2>1. flag["marketData"] /\ UNCHANGED <<application, thread, contents>>
    BY <1>16 DEF ReceiveTrades
  <2>2. QED
    BY <1>2, <1>3, <1>14, <1>16, <2>1, TradesReceived
<1>17. CASE ReceiveReport
  <2>1. thread["executionReport"] = "looping" /\ UNCHANGED <<application, thread, contents>>
    BY <1>17 DEF ReceiveReport
  <2>2. QED
    BY <1>2, <1>4, <1>14, <1>17, <2>1, ReportReceived
<1>18. CASE ReportSourceReturns
  <2>1. /\ thread["executionReport"] = "looping" /\ todo["executionReport"] = <<>>
        /\ thread' = [thread EXCEPT !["executionReport"] = "ended"] /\ UNCHANGED <<application, todo>>
    BY <1>18 DEF ReportSourceReturns
  <2>2. QED
    BY <1>1, <1>2, <2>1, OneThread DEF Served
<1>19. CASE UNCHANGED vars
  BY <1>1, <1>19, SameThreads DEF vars
<1>20. QED
  BY <1>5, <1>6, <1>7, <1>8, <1>9, <1>10, <1>11, <1>12, <1>13, <1>15, <1>16, <1>17, <1>18, <1>19
     DEF Next, Main, Sources

(* Once Application::stop has returned no thread of a module is left, none *)
(* was cut off in the middle of an item, and nothing is left in a queue    *)
(* that was served.                                                        *)
THEOREM QuietAfterStop == Spec => []StoppedMeansQuiet
<1>1. CallOK /\ ThreadsOK => StoppedMeansQuiet
  <2>1. SUFFICES ASSUME CallOK, ThreadsOK, ~running
                 PROVE  /\ \A w \in Workers : thread[w] = "none" /\ todo[w] = <<>>
                        /\ \A m \in Served : contents[Input[m]] = <<>>
    BY DEF StoppedMeansQuiet, Served
  <2>2. phase = "idle" /\ \A m \in Modules : ~flag[m]
    BY <2>1 DEF CallOK
  <2>3. \A w \in Workers : thread[w] = "none" /\ todo[w] = <<>>
    BY <2>1, <2>2 DEF ThreadsOK, Modules
  <2>4. ASSUME NEW m \in Served PROVE contents[Input[m]] = <<>>
    <3>1. Input[m] \in Places
      BY DEF Served, Looping, Input, Places, Queues
    <3>2. QED
      BY <2>1, <3>1 DEF ThreadsOK, Done
  <2>5. QED
    BY <2>3, <2>4
<1>2. Spec => []ItemsOK
  BY InitItemsOK, NextItemsOK, PTL DEF Spec
<1>3. Init => closed \subseteq Queues
  BY DEF Init
<1>4. closed \subseteq Queues /\ [Next]_vars => (closed \subseteq Queues)'
  BY ClosedGrows
<1>5. Spec => [](closed \subseteq Queues)
  BY <1>3, <1>4, PTL DEF Spec
<1>6. QED
  BY <1>1, <1>2, <1>5, InitCallOK, NextCallOK, NextThreadsOK, PTL DEF Spec
=============================================================================
