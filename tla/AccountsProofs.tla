--------------------------- MODULE AccountsProofs ---------------------------
(***************************************************************************)
(* The accounts of the trading core, for every sequence of trades: that a  *)
(* position is the net of its executions, that its entry price lies within *)
(* the prices of the executions it is made of, that realized and           *)
(* unrealized profit account for the cash, that nothing but the position   *)
(* itself can overflow, and that the volumes are those of the instrument.  *)
(***************************************************************************)
EXTENDS Accounts, SequenceTheorems, ArithmeticTheorems

(* The sum over a sequence that grew by one element.                       *)
LEMMA SumOneMore ==
  ASSUME NEW n \in Nat, NEW f, DOMAIN f = 1..n, \A k \in 1..n : f[k] \in Int,
         NEW g, DOMAIN g = 1..(n + 1), \A k \in 1..n : g[k] = f[k], g[n + 1] \in Int
  PROVE  /\ SumFunction(f) \in Int
         /\ SumFunction(g) = SumFunction(f) + g[n + 1]
<1>1. IsFiniteSet(1..n) /\ n + 1 \notin 1..n /\ 1..(n + 1) = (1..n) \cup {n + 1}
  <2>1. IsFiniteSet(1..n)
    BY FS_Interval
  <2>2. n + 1 \notin 1..n /\ 1..(n + 1) = (1..n) \cup {n + 1}
    OBVIOUS
  <2>3. QED
    BY <2>1, <2>2
<1>2. SumFunctionOnSet(f, 1..n) \in Int
  BY <1>1, SumSplits
<1>3. SumFunctionOnSet(g, 1..n) = SumFunctionOnSet(f, 1..n)
  BY <1>1, SumAgrees
<1>4. SumFunctionOnSet(g, (1..n) \cup {n + 1}) = g[n + 1] + SumFunctionOnSet(g, 1..n)
  <2>1. \A y \in (1..n) \cup {n + 1} : g[y] \in Int
    OBVIOUS
  <2>2. QED
    BY <1>1, <2>1, SumInsert
<1>5. SumFunction(f) = SumFunctionOnSet(f, 1..n)
  BY DEF SumFunction
<1>6. SumFunction(g) = SumFunctionOnSet(g, 1..(n + 1))
  BY DEF SumFunction
<1>7. SumFunction(g) = g[n + 1] + SumFunction(f)
  BY <1>1, <1>3, <1>4, <1>5, <1>6
<1>8. QED
  BY <1>2, <1>5, <1>7

(* The sum over a sequence without elements.                               *)
LEMMA SumOfNothing ==
  ASSUME NEW f, DOMAIN f = {}
  PROVE  SumFunction(f) = 0
BY SumEmpty DEF SumFunction
-----------------------------------------------------------------------------
(* The executions a manager accepts, and what they move.                   *)
Executions == [instrument : Instruments, side : Sides, price : Nat \ {0},
               quantity : Nat \ {0}]

Move(t, i) == IF t.instrument = i THEN Signed(t.side, t.quantity) ELSE 0

Net(ts, i, n) == SumFunction([k \in 1..n |-> Move(ts[k], i)])

LEMMA NetIsNetQuantity ==
  ASSUME NEW i, NEW n
  PROVE  NetQuantity(i, n) = Net(trades, i, n) /\ NetQuantity(i, n)' = Net(trades', i, n)
BY DEF NetQuantity, Net, Move

(* What an execution moves is an integer.                                  *)
LEMMA MoveType ==
  ASSUME NEW t \in Executions, NEW i
  PROVE  Move(t, i) \in Int
<1>1. t.side \in Sides /\ t.quantity \in Int
  BY DEF Executions
<1>2. QED
  BY <1>1, SignedType DEF Move

(* The net quantity of the executions but for the last.                    *)
LEMMA NetOneMore ==
  ASSUME NEW ts \in Seq(Executions), NEW i, NEW n \in Nat, n + 1 <= Len(ts)
  PROVE  /\ Net(ts, i, n) \in Int
         /\ Net(ts, i, n + 1) = Net(ts, i, n) + Move(ts[n + 1], i)
<1> DEFINE f == [k \in 1..n |-> Move(ts[k], i)]
           g == [k \in 1..(n + 1) |-> Move(ts[k], i)]
<1>1. \A k \in 1..(n + 1) : Move(ts[k], i) \in Int
  <2>1. \A k \in 1..(n + 1) : ts[k] \in Executions
    OBVIOUS
  <2>2. QED
    BY <2>1, MoveType
<1>2. DOMAIN f = 1..n /\ DOMAIN g = 1..(n + 1)
  OBVIOUS
<1>3. /\ \A k \in 1..n : f[k] \in Int /\ g[k] = f[k]
      /\ g[n + 1] = Move(ts[n + 1], i) /\ g[n + 1] \in Int
  BY <1>1
<1>4. Net(ts, i, n) = SumFunction(f) /\ Net(ts, i, n + 1) = SumFunction(g)
  BY DEF Net
<1> HIDE DEF f, g
<1>5. QED
  BY <1>2, <1>3, <1>4, SumOneMore

(* Of a sequence of executions every net quantity is an integer.           *)
LEMMA NetType ==
  ASSUME NEW ts \in Seq(Executions), NEW i, NEW n \in 0..Len(ts)
  PROVE  Net(ts, i, n) \in Int
<1>1. CASE n = 0
  <2>1. DOMAIN [k \in 1..n |-> Move(ts[k], i)] = {}
    BY <1>1
  <2>2. Net(ts, i, n) = 0
    BY <2>1, SumOfNothing DEF Net
  <2>3. QED
    BY <2>2
<1>2. CASE n # 0
  <2>1. n - 1 \in Nat /\ (n - 1) + 1 = n /\ n <= Len(ts)
    BY <1>2
  <2>2. ts[n] \in Executions
    BY <2>1
  <2>3. Net(ts, i, n) = Net(ts, i, n - 1) + Move(ts[n], i) /\ Net(ts, i, n - 1) \in Int
    BY <2>1, NetOneMore
  <2>4. QED
    BY <2>2, <2>3, MoveType
<1>3. QED
  BY <1>1, <1>2

(* An execution changes no net quantity of before, and adds its own.       *)
LEMMA NetAppended ==
  ASSUME NEW ts \in Seq(Executions), NEW t \in Executions, NEW i
  PROVE  /\ \A n \in 0..Len(ts) : Net(Append(ts, t), i, n) = Net(ts, i, n)
         /\ Net(Append(ts, t), i, Len(ts) + 1) = Net(ts, i, Len(ts)) + Move(t, i)
<1> DEFINE us == Append(ts, t)
<1>1. /\ us \in Seq(Executions) /\ Len(us) = Len(ts) + 1 /\ Len(ts) \in Nat
      /\ us[Len(ts) + 1] = t
      /\ \A k \in 1..Len(ts) : us[k] = ts[k]
  OBVIOUS
<1> HIDE DEF us
<1>2. ASSUME NEW n \in 0..Len(ts) PROVE Net(us, i, n) = Net(ts, i, n)
  <2>1. \A k \in 1..n : us[k] = ts[k]
    BY <1>1
  <2>2. QED
    BY <2>1 DEF Net
<1>3. Net(us, i, Len(ts) + 1) = Net(us, i, Len(ts)) + Move(t, i)
  BY <1>1, NetOneMore
<1>4. QED
  BY <1>1, <1>2, <1>3 DEF us
-----------------------------------------------------------------------------
(* The executions an open position is made of, and a position whose entry  *)
(* price lies within their prices.                                         *)
OnSide(ts, i, from, to) ==
  \A k \in from..to : Net(ts, i, k) # 0 /\ SameDirection(Net(ts, i, k), Net(ts, i, to))

Entries(ts, i) ==
  {k \in 1..Len(ts) : /\ ts[k].instrument = i
                      /\ OnSide(ts, i, k, Len(ts))
                      /\ (ts[k].side = "Buy") = (Net(ts, i, Len(ts)) > 0)}

Within(ts, position, i) ==
  position.quantity # 0 =>
    /\ \E k \in Entries(ts, i) : ts[k].price <= position.averagePrice
    /\ \E k \in Entries(ts, i) : ts[k].price >= position.averagePrice

LEMMA EntriesAreEntryTrades ==
  ASSUME NEW i
  PROVE  EntryTrades(i) = Entries(trades, i)
BY DEF EntryTrades, OnOneSide, Entries, OnSide, NetQuantity, Net, Move

(* As long as the position stays on its side, what it was made of remains. *)
LEMMA EntriesRemain ==
  ASSUME NEW ts \in Seq(Executions), NEW t \in Executions, NEW i,
         Net(ts, i, Len(ts)) # 0,
         Net(Append(ts, t), i, Len(ts) + 1) # 0,
         SameDirection(Net(ts, i, Len(ts)), Net(Append(ts, t), i, Len(ts) + 1))
  PROVE  Entries(ts, i) \subseteq Entries(Append(ts, t), i)
<1> DEFINE us == Append(ts, t)
           n == Len(ts)
<1>1. /\ Len(us) = n + 1 /\ n \in Nat
      /\ \A k \in 1..n : us[k] = ts[k]
  OBVIOUS
<1>2. \A k \in 0..n : Net(us, i, k) = Net(ts, i, k)
  BY NetAppended
<1>3. Net(ts, i, n) # 0 /\ Net(us, i, n + 1) # 0
      /\ SameDirection(Net(ts, i, n), Net(us, i, n + 1))
  OBVIOUS
<1> HIDE DEF us, n
<1>4. SUFFICES ASSUME NEW k \in Entries(ts, i) PROVE k \in Entries(us, i)
  BY DEF us
<1>5. /\ k \in 1..n /\ ts[k].instrument = i /\ OnSide(ts, i, k, n)
      /\ (ts[k].side = "Buy") = (Net(ts, i, n) > 0)
  BY DEF Entries, n
<1>6. OnSide(us, i, k, n + 1)
  <2> SUFFICES ASSUME NEW j \in k..(n + 1)
               PROVE  Net(us, i, j) # 0 /\ SameDirection(Net(us, i, j), Net(us, i, n + 1))
    BY DEF OnSide
  <2>1. CASE j = n + 1
    BY <1>3, <2>1 DEF SameDirection
  <2>2. CASE j # n + 1
    <3>1. j \in k..n /\ j \in 0..n
      BY <1>1, <1>5, <2>2
    <3>2. Net(ts, i, j) # 0 /\ SameDirection(Net(ts, i, j), Net(ts, i, n))
      BY <1>5, <3>1 DEF OnSide
    <3>3. QED
      BY <1>2, <1>3, <3>1, <3>2 DEF SameDirection
  <2>3. QED
    BY <2>1, <2>2
<1>7. k \in 1..(n + 1) /\ us[k] = ts[k]
  BY <1>1, <1>5
<1>8. (us[k].side = "Buy") = (Net(us, i, n + 1) > 0)
  BY <1>3, <1>5, <1>7 DEF SameDirection
<1>9. QED
  BY <1>1, <1>5, <1>6, <1>7, <1>8 DEF Entries

(* An execution on the side the position is on then is one it is made of.  *)
LEMMA EntryAdded ==
  ASSUME NEW ts \in Seq(Executions), NEW t \in Executions,
         Net(Append(ts, t), t.instrument, Len(ts) + 1) # 0,
         (t.side = "Buy") = (Net(Append(ts, t), t.instrument, Len(ts) + 1) > 0)
  PROVE  Len(ts) + 1 \in Entries(Append(ts, t), t.instrument)
<1> DEFINE us == Append(ts, t)
           n == Len(ts)
<1>1. Len(us) = n + 1 /\ n \in Nat /\ us[n + 1] = t
  OBVIOUS
<1>2. OnSide(us, t.instrument, n + 1, n + 1)
  <2> SUFFICES ASSUME NEW j \in (n + 1)..(n + 1)
               PROVE  /\ Net(us, t.instrument, j) # 0
                      /\ SameDirection(Net(us, t.instrument, j), Net(us, t.instrument, n + 1))
    BY DEF OnSide
  <2>1. j = n + 1
    BY <1>1
  <2>2. QED
    BY <2>1 DEF SameDirection
<1>3. n + 1 \in 1..(n + 1)
  BY <1>1
<1> HIDE DEF us, n
<1>4. (t.side = "Buy") = (Net(us, t.instrument, n + 1) > 0)
  BY DEF us, n
<1>5. n + 1 \in Entries(us, t.instrument)
  BY <1>1, <1>2, <1>3, <1>4 DEF Entries
<1>6. QED
  BY <1>5 DEF us, n

(* An execution leaves the entry price of the position it moves within the *)
(* prices of the executions the position is made of then.                  *)
LEMMA ApplyTradeWithin ==
  ASSUME NEW ts \in Seq(Executions), NEW t \in Executions,
         NEW position, Consistent(position),
         position.quantity = Net(ts, t.instrument, Len(ts)),
         Within(ts, position, t.instrument)
  PROVE  Within(Append(ts, t), ApplyTrade(position, t.side, t.price, t.quantity),
                t.instrument)
<1> DEFINE us == Append(ts, t)
           n == Len(ts)
           i == t.instrument
           signed == Signed(t.side, t.quantity)
           before == position.quantity
           after == ApplyTrade(position, t.side, t.price, t.quantity)
<1>1. /\ t.side \in Sides /\ t.price \in Nat \ {0} /\ t.quantity \in Nat \ {0}
      /\ position \in PositionType /\ before \in Int /\ position.averagePrice \in Nat
  BY DEF Executions, Consistent, PositionType
<1>2. /\ signed \in Int /\ Magnitude(signed) = t.quantity /\ signed # 0
      /\ (t.side = "Buy") = (signed > 0)
  BY <1>1 DEF Signed, Magnitude, Sides
<1>3. /\ after.quantity = before + signed
      /\ after.averagePrice = EntryPriceAfter(position, t.price, signed)
      /\ after \in PositionType
  BY <1>1, ApplyTradeType DEF ApplyTrade
<1>4. Net(us, i, n + 1) = before + signed
  BY NetAppended DEF Move
<1>5. us[n + 1] = t /\ \A k \in 1..n : us[k] = ts[k]
  OBVIOUS
<1>6. Entries(ts, i) \subseteq 1..n
  BY DEF Entries
<1> HIDE DEF us, after
<1>7. SUFFICES ASSUME before + signed # 0
               PROVE  /\ \E k \in Entries(us, i) : us[k].price <= after.averagePrice
                      /\ \E k \in Entries(us, i) : us[k].price >= after.averagePrice
  BY <1>3 DEF Within, us, after
<1>8. ASSUME (t.side = "Buy") = (before + signed > 0) PROVE n + 1 \in Entries(us, i)
  BY <1>4, <1>7, <1>8, EntryAdded DEF us
<1>9. ASSUME before # 0, SameDirection(before, before + signed)
      PROVE  /\ Entries(ts, i) \subseteq Entries(us, i)
             /\ \E k \in Entries(us, i) : us[k].price <= position.averagePrice
             /\ \E k \in Entries(us, i) : us[k].price >= position.averagePrice
  <2>1. Entries(ts, i) \subseteq Entries(us, i)
    BY <1>4, <1>7, <1>9, EntriesRemain DEF us
  <2>2. /\ \E k \in Entries(ts, i) : ts[k].price <= position.averagePrice
        /\ \E k \in Entries(ts, i) : ts[k].price >= position.averagePrice
    BY <1>9 DEF Within
  <2>3. QED
    BY <1>5, <1>6, <2>1, <2>2
<1>10. CASE before = 0
  <2>1. after.averagePrice = t.price
    BY <1>3, <1>10 DEF EntryPriceAfter
  <2>2. n + 1 \in Entries(us, i)
    BY <1>1, <1>2, <1>8, <1>10
  <2>3. QED
    BY <1>1, <1>5, <2>1, <2>2
<1>11. CASE before # 0 /\ SameDirection(before, signed)
  <2>1. SameDirection(before, before + signed) /\ (t.side = "Buy") = (before + signed > 0)
    BY <1>1, <1>2, <1>11 DEF SameDirection
  <2>2. n + 1 \in Entries(us, i)
    BY <1>8, <2>1
  <2>3. after.averagePrice = WeightedPrice(position, t.price, t.quantity)
    BY <1>2, <1>3, <1>11 DEF EntryPriceAfter
  <2>4. after.averagePrice \in Int
    BY <1>3 DEF PositionType
  <2>5. CASE t.price <= position.averagePrice
    <3>1. t.price <= after.averagePrice /\ after.averagePrice <= position.averagePrice
      BY <1>1, <2>3, <2>5, WeightedPriceBetween
    <3>2. PICK k \in Entries(us, i) : us[k].price >= position.averagePrice
      BY <1>9, <1>11, <2>1
    <3>3. us[k].price \in Int
      <4>1. k \in 1..(n + 1)
        BY DEF Entries, us
      <4>2. us[k] \in Executions
        BY <4>1 DEF us
      <4>3. QED
        BY <4>2 DEF Executions
    <3>4. us[k].price >= after.averagePrice
      BY <1>1, <2>4, <3>1, <3>2, <3>3
    <3>5. QED
      BY <1>5, <2>2, <3>1, <3>4
  <2>6. CASE t.price >= position.averagePrice
    <3>1. position.averagePrice <= after.averagePrice /\ after.averagePrice <= t.price
      BY <1>1, <2>3, <2>6, WeightedPriceBetween
    <3>2. PICK k \in Entries(us, i) : us[k].price <= position.averagePrice
      BY <1>9, <1>11, <2>1
    <3>3. us[k].price \in Int
      <4>1. k \in 1..(n + 1)
        BY DEF Entries, us
      <4>2. us[k] \in Executions
        BY <4>1 DEF us
      <4>3. QED
        BY <4>2 DEF Executions
    <3>4. us[k].price <= after.averagePrice
      BY <1>1, <2>4, <3>1, <3>2, <3>3
    <3>5. t.price >= after.averagePrice
      BY <1>1, <2>4, <3>1
    <3>6. QED
      BY <1>5, <2>2, <3>4, <3>5
  <2>7. QED
    BY <1>1, <2>5, <2>6
<1>12. CASE before # 0 /\ ~SameDirection(before, signed)
  <2>1. CASE SameDirection(before, before + signed)
    <3>1. after.averagePrice = position.averagePrice
      BY <1>3, <1>7, <1>12, <2>1 DEF EntryPriceAfter
    <3>2. QED
      BY <1>9, <1>12, <2>1, <3>1
  <2>2. CASE ~SameDirection(before, before + signed)
    <3>1. after.averagePrice = t.price
      BY <1>3, <1>7, <1>12, <2>2 DEF EntryPriceAfter
    <3>2. (t.side = "Buy") = (before + signed > 0)
      BY <1>1, <1>2, <1>7, <1>12, <2>2 DEF SameDirection
    <3>3. QED
      BY <1>1, <1>5, <1>8, <3>1, <3>2
  <2>3. QED
    BY <2>1, <2>2
<1>13. QED
  BY <1>10, <1>11, <1>12
-----------------------------------------------------------------------------
(* Every position is the net of its executions, its entry price within the *)
(* prices of those it is made of.                                          *)
PositionsSound ==
  /\ trades \in Seq(Executions)
  /\ positions \in [Instruments -> PositionType]
  /\ \A i \in Instruments :
       /\ Consistent(positions[i])
       /\ positions[i].quantity = Net(trades, i, Len(trades))
       /\ Within(trades, positions[i], i)

(* What a step that executes a trade does to the positions.                *)
LEMMA ExecutionIs ==
  ASSUME Execution
  PROVE  \E t \in Executions :
           /\ t.price \in Prices /\ t.quantity \in Quantities
           /\ Len(trades) < MaxTrades
           /\ trades' = Append(trades, t)
           /\ positions' = [positions EXCEPT ![t.instrument] =
                              ApplyTrade(@, t.side, t.price, t.quantity)]
           /\ Book(t.instrument, t.side, t.price, t.quantity)
<1>1. PICK i \in Instruments, s \in Sides, p \in Prices, q \in Quantities :
        /\ Len(trades) < MaxTrades
        /\ q > 0
        /\ Execute(i, s, p, q)
        /\ Book(i, s, p, q)
  BY DEF Execution, OnTrade, OnExecution
<1> DEFINE t == [instrument |-> i, side |-> s, price |-> p, quantity |-> q]
<1>2. p \in Nat \ {0} /\ q \in Nat \ {0}
  BY <1>1, PricesAssumption, QuantitiesAssumption
<1>3. t \in Executions
  BY <1>2 DEF Executions
<1>4. QED
  BY <1>1, <1>3 DEF Execute

LEMMA InitPositionsSound == AccountInit => PositionsSound
<1> SUFFICES ASSUME AccountInit PROVE PositionsSound
  OBVIOUS
<1>1. trades = <<>> /\ positions = [i \in Instruments |-> Flat]
  BY DEF AccountInit, Init
<1>2. trades \in Seq(Executions) /\ Len(trades) = 0
  BY <1>1
<1>3. Flat \in PositionType /\ Flat.quantity = 0 /\ Flat.averagePrice = 0
  BY DEF Flat, PositionType
<1>4. ASSUME NEW i \in Instruments PROVE Net(trades, i, Len(trades)) = 0
  <2>1. DOMAIN [k \in 1..Len(trades) |-> Move(trades[k], i)] = {}
    BY <1>2
  <2>2. QED
    BY <2>1, SumOfNothing DEF Net
<1>5. QED
  BY <1>1, <1>2, <1>3, <1>4 DEF PositionsSound, Consistent, Within

LEMMA NextPositionsSound ==
  PositionsSound /\ [AccountNext]_accountVars => PositionsSound'
<1> SUFFICES ASSUME PositionsSound, [AccountNext]_accountVars PROVE PositionsSound'
  OBVIOUS
<1>1. CASE Execution
  <2>1. PICK t \in Executions :
          /\ trades' = Append(trades, t)
          /\ positions' = [positions EXCEPT ![t.instrument] =
                             ApplyTrade(@, t.side, t.price, t.quantity)]
    BY <1>1, ExecutionIs
  <2> DEFINE j == t.instrument
             after == ApplyTrade(positions[j], t.side, t.price, t.quantity)
  <2>2. /\ j \in Instruments /\ t.side \in Sides
        /\ t.price \in Nat \ {0} /\ t.quantity \in Nat \ {0}
    BY DEF Executions
  <2>3. /\ trades \in Seq(Executions) /\ positions \in [Instruments -> PositionType]
        /\ trades' \in Seq(Executions) /\ Len(trades') = Len(trades) + 1
    BY <2>1 DEF PositionsSound
  <2>4. /\ positions'[j] = after
        /\ \A i \in Instruments : i # j => positions'[i] = positions[i]
    BY <2>1, <2>2, <2>3
  <2>5. Consistent(after)
    BY <2>2, ApplyTradeConsistent DEF PositionsSound
  <2>6. after.quantity = Net(trades', j, Len(trades'))
    <3>1. after.quantity = positions[j].quantity + Move(t, j)
      BY <2>2 DEF ApplyTrade, Move
    <3>2. Net(trades', j, Len(trades')) = Net(trades, j, Len(trades)) + Move(t, j)
      BY <2>1, <2>3, NetAppended
    <3>3. QED
      BY <2>2, <3>1, <3>2 DEF PositionsSound
  <2>7. Within(trades', after, j)
    BY <2>1, <2>2, <2>3, ApplyTradeWithin DEF PositionsSound
  <2>8. ASSUME NEW i \in Instruments, i # j
        PROVE  /\ Consistent(positions'[i])
               /\ positions'[i].quantity = Net(trades', i, Len(trades'))
               /\ Within(trades', positions'[i], i)
    <3>1. positions'[i] = positions[i]
      BY <2>4, <2>8
    <3>2. Net(trades', i, Len(trades')) = Net(trades, i, Len(trades))
      <4>1. Net(trades', i, Len(trades')) = Net(trades, i, Len(trades)) + Move(t, i)
        BY <2>1, <2>3, NetAppended
      <4>2. Move(t, i) = 0
        BY <2>8 DEF Move
      <4>3. Net(trades, i, Len(trades)) \in Int
        BY <2>3, NetType
      <4>4. QED
        BY <4>1, <4>2, <4>3
    <3>3. Within(trades', positions[i], i)
      <4>1. SUFFICES ASSUME positions[i].quantity # 0
                     PROVE  /\ \E k \in Entries(trades', i) :
                                 trades'[k].price <= positions[i].averagePrice
                            /\ \E k \in Entries(trades', i) :
                                 trades'[k].price >= positions[i].averagePrice
        BY DEF Within
      <4>2. Net(trades, i, Len(trades)) # 0
        BY <4>1 DEF PositionsSound
      <4>3. Entries(trades, i) \subseteq Entries(trades', i)
        BY <2>1, <2>3, <3>2, <4>2, EntriesRemain DEF SameDirection
      <4>4. \A k \in Entries(trades, i) : trades'[k] = trades[k]
        BY <2>1, <2>3 DEF Entries
      <4>5. QED
        BY <4>1, <4>3, <4>4 DEF PositionsSound, Within
    <3>4. QED
      BY <3>1, <3>2, <3>3 DEF PositionsSound
  <2>9. positions' \in [Instruments -> PositionType]
    BY <2>1, <2>3, <2>5 DEF Consistent
  <2> HIDE DEF after
  <2>10. QED
    BY <2>3, <2>4, <2>5, <2>6, <2>7, <2>8, <2>9 DEF PositionsSound
<1>2. CASE PublicTrade
  BY <1>2 DEF PublicTrade, OnPublicTrade, PositionsSound
<1>3. CASE UNCHANGED accountVars
  BY <1>3 DEF accountVars, PositionsSound
<1>4. QED
  BY <1>1, <1>2, <1>3 DEF AccountNext

(* A position is the signed sum of all its executions: PositionManager     *)
(* with Position::applyTrade, for any sequence of trades.                  *)
THEOREM PositionsAreNet == AccountSpec => []PositionIsNetQuantity
<1>1. PositionsSound => PositionIsNetQuantity
  BY NetIsNetQuantity DEF PositionsSound, PositionIsNetQuantity
<1>2. QED
  BY <1>1, InitPositionsSound, NextPositionsSound, PTL DEF AccountSpec

(* The entry price of an open position lies between the lowest and the     *)
(* highest price of the executions that built it.                          *)
THEOREM AveragesAreWithin == AccountSpec => []AverageWithinEntryPrices
<1>1. PositionsSound => AverageWithinEntryPrices
  BY EntriesAreEntryTrades DEF PositionsSound, AverageWithinEntryPrices, Within
<1>2. QED
  BY <1>1, InitPositionsSound, NextPositionsSound, PTL DEF AccountSpec
-----------------------------------------------------------------------------
(* Half the values of a word.                                              *)
Half == 2^(Width - 1)

LEMMA HalfType ==
  /\ Half \in Nat \ {0}
  /\ 2^Width = 2 * Half
  /\ 2^(2 * Width - 1) = Half * (2 * Half)
<1>1. Width - 1 \in Nat /\ Width \in Nat \ {0} /\ 2 * Width - 1 = (Width - 1) + Width
  BY WidthAssumption
<1>2. Half \in Nat \ {0}
  BY <1>1, PowerPositive DEF Half
<1>3. 2^Width = 2 * Half
  BY <1>1, PowerDoubles DEF Half
<1>4. 2^((Width - 1) + Width) = 2^(Width - 1) * 2^Width
  BY <1>1, PowersMultiply
<1>5. QED
  BY <1>1, <1>2, <1>3, <1>4 DEF Half

(* What fits a raw and what fits a wide value.                             *)
LEMMA FitsIs ==
  ASSUME NEW n \in Int
  PROVE  /\ Fits(n) <=> -Half <= n /\ n < Half
         /\ FitsWide(n) <=> -(Half * (2 * Half)) <= n /\ n < Half * (2 * Half)
BY HalfType DEF Fits, FitsWide, FitsIn, Half

(* A value that fits is narrowed to itself.                                *)
LEMMA NarrowFits ==
  ASSUME NEW n \in Int, Fits(n)
  PROVE  Narrow(n) = n
<1>1. -Half <= n /\ n < Half /\ Half \in Nat \ {0} /\ 2^Width = 2 * Half
  BY FitsIs, HalfType
<1>2. Narrow(n) = ((n + Half) % (2 * Half)) - Half
  BY <1>1 DEF Narrow, Half
<1> DEFINE m == n + Half
           w == 2 * Half
<1>3. m \in Int /\ w \in Int /\ w > 0 /\ 0 <= m /\ m < w
  BY <1>1
<1>4. m % w = m
  <2>1. m = w * 0 + m
    BY <1>3
  <2> HIDE DEF m, w
  <2>2. QED
    BY <1>3, <2>1, DivisionUnique
<1>5. QED
  BY <1>1, <1>2, <1>4

(* Narrowing on the way does not change what the end is narrowed to.       *)
LEMMA NarrowAdds ==
  ASSUME NEW a \in Int, NEW b \in Int
  PROVE  /\ Narrow(a) \in Int
         /\ Narrow(Narrow(a) + b) = Narrow(a + b)
<1> DEFINE w == 2 * Half
           q == (a + Half) \div w
           r == (a + Half) % w
           p == (r + b) \div w
           s == (r + b) % w
<1>1. Half \in Nat \ {0} /\ 2^Width = w /\ w \in Int /\ w > 0
  BY HalfType
<1>2. \A n \in Int : Narrow(n) = ((n + Half) % w) - Half
  BY <1>1 DEF Narrow, Half
<1>3. q \in Int /\ r \in Int /\ a + Half = w * q + r
  <2>1. a + Half \in Int
    BY <1>1
  <2> HIDE DEF w
  <2>2. QED
    BY <1>1, <2>1, Remainder
<1>4. p \in Int /\ s \in Int /\ r + b = w * p + s /\ 0 <= s /\ s < w
  <2>1. r + b \in Int
    BY <1>3
  <2> HIDE DEF w, r
  <2>2. p \in Int /\ s \in Int /\ r + b = w * p + s
    BY <1>1, <2>1, Remainder
  <2>3. 0 <= s /\ s < w
    BY <1>1, <2>1
  <2>4. QED
    BY <2>2, <2>3
<1>5. Narrow(a) = r - Half
  BY <1>2
<1>6. Narrow(Narrow(a) + b) = s - Half
  <2>1. Narrow(a) + b \in Int /\ Narrow(a) + b + Half = r + b
    BY <1>1, <1>3, <1>5
  <2>2. Narrow(Narrow(a) + b) = ((Narrow(a) + b + Half) % w) - Half
    BY <1>2, <2>1
  <2>3. QED
    BY <2>1, <2>2
<1> HIDE DEF w, q, r, p, s
<1>7. (a + b + Half) % w = s
  <2>1. w * (q + p) = w * q + w * p /\ q + p \in Int
    BY <1>1, <1>3, <1>4
  <2> DEFINE wq == w * q
             wp == w * p
  <2>2. wq \in Int /\ wp \in Int
    BY <1>1, <1>3, <1>4
  <2>3. a + Half = wq + r /\ r + b = wp + s /\ w * (q + p) = wq + wp
    BY <1>3, <1>4, <2>1
  <2> HIDE DEF wq, wp
  <2>4. a + b + Half = w * (q + p) + s
    BY <1>1, <1>3, <1>4, <2>2, <2>3
  <2>5. a + b + Half \in Int
    BY <1>1
  <2>6. QED
    BY <1>1, <1>4, <2>1, <2>4, <2>5, DivisionUnique
<1>8. Narrow(a + b) = s - Half
  BY <1>2, <1>7
<1>9. QED
  BY <1>1, <1>3, <1>5, <1>6, <1>8
-----------------------------------------------------------------------------
(* The public trades, and what is to be added up of a side.                *)
PublicTrades == [instrument : Instruments, side : Sides, price : {1},
                 quantity : Nat \ {0}]

WatchedOf(ps, side) ==
  {k \in DOMAIN ps : ps[k].instrument = Watched /\ ps[k].side = side}

VolumeOf(ps, side) ==
  SumFunctionOnSet([k \in DOMAIN ps |-> ps[k].quantity], WatchedOf(ps, side))

Adds(t, side) == t.instrument = Watched /\ t.side = side

LEMMA VolumeIs ==
  ASSUME NEW side
  PROVE  /\ WatchedTrades(side) = WatchedOf(public, side)
         /\ Volume(side) = VolumeOf(public, side)
BY DEF WatchedTrades, WatchedOf, Volume, VolumeOf

(* What one more public trade adds to the volume and the count of a side.  *)
LEMMA VolumeAppended ==
  ASSUME NEW ps \in Seq(PublicTrades), NEW t \in PublicTrades, NEW side
  PROVE  /\ VolumeOf(ps, side) \in Int
         /\ Cardinality(WatchedOf(ps, side)) \in Nat
         /\ VolumeOf(Append(ps, t), side)
              = VolumeOf(ps, side) + (IF Adds(t, side) THEN t.quantity ELSE 0)
         /\ Cardinality(WatchedOf(Append(ps, t), side))
              = Cardinality(WatchedOf(ps, side)) + (IF Adds(t, side) THEN 1 ELSE 0)
<1> DEFINE n == Len(ps)
           us == Append(ps, t)
           S == WatchedOf(ps, side)
           f == [k \in DOMAIN ps |-> ps[k].quantity]
           g == [k \in DOMAIN us |-> us[k].quantity]
<1>1. /\ n \in Nat /\ DOMAIN ps = 1..n /\ DOMAIN us = 1..(n + 1) /\ us[n + 1] = t
      /\ \A k \in 1..n : us[k] = ps[k] /\ ps[k] \in PublicTrades
  OBVIOUS
<1>2. S \subseteq 1..n /\ IsFiniteSet(S) /\ n + 1 \notin S
  <2>1. S \subseteq 1..n
    BY <1>1 DEF WatchedOf
  <2>2. IsFiniteSet(1..n)
    BY <1>1, FS_Interval
  <2>3. n + 1 \notin S
    BY <1>1, <2>1
  <2>4. QED
    BY <2>1, <2>2, <2>3, FS_Subset
<1>3. \A k \in S : f[k] \in Int /\ g[k] = f[k]
  <2>1. \A k \in 1..n : f[k] = ps[k].quantity /\ g[k] = ps[k].quantity
    BY <1>1
  <2>2. \A k \in 1..n : ps[k].quantity \in Int
    BY <1>1 DEF PublicTrades
  <2> HIDE DEF f, g
  <2>3. QED
    BY <1>2, <2>1, <2>2
<1>4. g[n + 1] = t.quantity /\ t.quantity \in Int
  <2>1. g[n + 1] = t.quantity
    BY <1>1
  <2>2. t.quantity \in Int
    BY DEF PublicTrades
  <2>3. QED
    BY <2>1, <2>2
<1>5. WatchedOf(us, side) = IF Adds(t, side) THEN S \cup {n + 1} ELSE S
  <2> HIDE DEF us
  <2>1. WatchedOf(us, side)
          = {k \in 1..(n + 1) : us[k].instrument = Watched /\ us[k].side = side}
    BY <1>1 DEF WatchedOf
  <2>2. S = {k \in 1..n : us[k].instrument = Watched /\ us[k].side = side}
    BY <1>1 DEF WatchedOf
  <2>3. 1..(n + 1) = (1..n) \cup {n + 1}
    BY <1>1
  <2>4. QED
    BY <1>1, <2>1, <2>2, <2>3 DEF Adds
<1>6. /\ VolumeOf(ps, side) = SumFunctionOnSet(f, S)
      /\ VolumeOf(us, side) = SumFunctionOnSet(g, WatchedOf(us, side))
  BY DEF VolumeOf
<1>7. Cardinality(S) \in Nat
  BY <1>2, FS_CardinalityType
<1> HIDE DEF n, us, S, f, g
<1>8. SumFunctionOnSet(f, S) \in Int /\ SumFunctionOnSet(g, S) = SumFunctionOnSet(f, S)
  BY <1>2, <1>3, SumSplits, SumAgrees
<1>9. CASE Adds(t, side)
  <2>1. \A k \in S \cup {n + 1} : g[k] \in Int
    BY <1>3, <1>4
  <2>2. SumFunctionOnSet(g, S \cup {n + 1}) = g[n + 1] + SumFunctionOnSet(g, S)
    BY <1>2, <2>1, SumInsert
  <2>3. Cardinality(S \cup {n + 1}) = Cardinality(S) + 1
    BY <1>2, FS_AddElement
  <2>4. VolumeOf(us, side) = VolumeOf(ps, side) + t.quantity
    BY <1>4, <1>5, <1>6, <1>8, <1>9, <2>2
  <2>5. QED
    BY <1>5, <1>6, <1>7, <1>8, <1>9, <2>3, <2>4 DEF us, S
<1>10. CASE ~Adds(t, side)
  <2>1. VolumeOf(us, side) = VolumeOf(ps, side) + 0
    BY <1>5, <1>6, <1>8, <1>10
  <2>2. Cardinality(WatchedOf(us, side)) = Cardinality(S) + 0
    BY <1>5, <1>7, <1>10
  <2>3. QED
    BY <1>6, <1>7, <1>8, <1>10, <2>1, <2>2 DEF us, S
<1>11. QED
  BY <1>9, <1>10
-----------------------------------------------------------------------------
(* The latest of the public trades of the watched instrument.              *)
IsLatest(last, ps) ==
  LET watched == WatchedOf(ps, "Buy") \cup WatchedOf(ps, "Sell")
  IN  IF watched = {} THEN last = NoTrade
      ELSE \E k \in watched : last = ps[k] /\ \A j \in watched : j <= k

(* What is latest when one more trade comes: it, if it is watched.         *)
LEMMA LatestAppended ==
  ASSUME NEW ps \in Seq(PublicTrades), NEW t \in PublicTrades, NEW last, IsLatest(last, ps)
  PROVE  IsLatest(IF t.instrument = Watched THEN t ELSE last, Append(ps, t))
<1> DEFINE n == Len(ps)
           us == Append(ps, t)
           Both(qs) == WatchedOf(qs, "Buy") \cup WatchedOf(qs, "Sell")
<1>1. /\ n \in Nat /\ DOMAIN ps = 1..n /\ DOMAIN us = 1..(n + 1)
      /\ \A k \in 1..n : us[k] = ps[k]
      /\ us[n + 1] = t
  OBVIOUS
<1>2. t.side = "Buy" \/ t.side = "Sell"
  BY DEF PublicTrades, Sides
<1> HIDE DEF n, us
<1>3. Both(ps) \subseteq 1..n
  BY <1>1 DEF WatchedOf
<1>4. Both(us) = IF t.instrument = Watched THEN Both(ps) \cup {n + 1} ELSE Both(ps)
  <2>1. \A k \in 1..n : k \in Both(us) <=> k \in Both(ps)
    BY <1>1 DEF WatchedOf
  <2>2. n + 1 \in Both(us) <=> t.instrument = Watched
    BY <1>1, <1>2 DEF WatchedOf
  <2>3. Both(us) \subseteq 1..(n + 1)
    BY <1>1 DEF WatchedOf
  <2>4. 1..(n + 1) = (1..n) \cup {n + 1}
    BY <1>1
  <2> DEFINE b == Both(ps)
             c == Both(us)
             low == 1..n
             m == n + 1
  <2>5. m \notin low
    BY <1>1
  <2>6. /\ b \subseteq low /\ c \subseteq low \cup {m}
        /\ \A k \in low : k \in c <=> k \in b
        /\ m \in c <=> t.instrument = Watched
    BY <1>3, <2>1, <2>2, <2>3, <2>4
  <2> HIDE DEF b, c, low, m
  <2>7. c = IF t.instrument = Watched THEN b \cup {m} ELSE b
    <3>1. \A k : k \in c <=> k \in b \/ (k = m /\ t.instrument = Watched)
      BY <2>5, <2>6
    <3>2. ASSUME t.instrument = Watched PROVE c = b \cup {m}
      BY <3>1, <3>2
    <3>3. ASSUME t.instrument # Watched PROVE c = b
      BY <3>1, <3>3
    <3>4. QED
      BY <3>2, <3>3
  <2>8. QED
    BY <2>7 DEF b, c, m
<1>5. /\ IF Both(ps) = {} THEN last = NoTrade
         ELSE \E k \in Both(ps) : last = ps[k] /\ \A j \in Both(ps) : j <= k
  BY DEF IsLatest
<1> HIDE DEF Both
<1>6. CASE t.instrument = Watched
  <2>1. n + 1 \in Both(us) /\ us[n + 1] = t /\ \A j \in Both(us) : j <= n + 1
    BY <1>1, <1>3, <1>4, <1>6
  <2>2. QED
    BY <1>6, <2>1 DEF IsLatest, Both, us
<1>7. CASE t.instrument # Watched
  <2>1. Both(us) = Both(ps) /\ \A k \in Both(ps) : us[k] = ps[k]
    BY <1>1, <1>3, <1>4, <1>7
  <2>2. IF Both(us) = {} THEN last = NoTrade
        ELSE \E k \in Both(us) : last = us[k] /\ \A j \in Both(us) : j <= k
    BY <1>5, <2>1
  <2>3. QED
    BY <1>7, <2>2 DEF IsLatest, Both, us
<1>8. QED
  BY <1>6, <1>7

(* The processor's volumes are those of the public trades, narrowed, and   *)
(* its last trade is the latest of them.                                   *)
TapeSound ==
  /\ public \in Seq(PublicTrades)
  /\ DOMAIN tape = {"Buy", "Sell", "count", "last"}
  /\ \A side \in Sides : tape[side] = Narrow(VolumeOf(public, side))
  /\ tape.count = Cardinality(WatchedOf(public, "Buy"))
                    + Cardinality(WatchedOf(public, "Sell"))
  /\ IsLatest(tape.last, public)

LEMMA InitTapeSound == AccountInit => TapeSound
<1> SUFFICES ASSUME AccountInit PROVE TapeSound
  OBVIOUS
<1>1. public = <<>> /\ tape = [Buy |-> 0, Sell |-> 0, count |-> 0, last |-> NoTrade]
  BY DEF AccountInit
<1>2. /\ DOMAIN tape = {"Buy", "Sell", "count", "last"}
      /\ tape.count = 0 /\ \A side \in Sides : tape[side] = 0
  BY <1>1 DEF Sides
<1>3. \A side : WatchedOf(public, side) = {}
  BY <1>1 DEF WatchedOf
<1>4. \A side : VolumeOf(public, side) = 0
  BY <1>3, SumEmpty DEF VolumeOf
<1>5. Narrow(0) = 0
  BY NarrowFits, FitsIs, HalfType
<1>6. Cardinality({}) = 0
  BY FS_EmptySet
<1>7. public \in Seq(PublicTrades)
  BY <1>1
<1>8. \A side \in Sides : tape[side] = Narrow(VolumeOf(public, side))
  BY <1>2, <1>4, <1>5
<1>9. tape.count = Cardinality(WatchedOf(public, "Buy")) + Cardinality(WatchedOf(public, "Sell"))
  BY <1>2, <1>3, <1>6
<1>10. IsLatest(tape.last, public)
  BY <1>1, <1>3 DEF IsLatest
<1>11. QED
  BY <1>2, <1>7, <1>8, <1>9, <1>10 DEF TapeSound

LEMMA NextTapeSound == TapeSound /\ [AccountNext]_accountVars => TapeSound'
<1> SUFFICES ASSUME TapeSound, [AccountNext]_accountVars PROVE TapeSound'
  OBVIOUS
<1>1. CASE Execution
  BY <1>1, ExecutionIs DEF Book, TapeSound
<1>2. CASE PublicTrade
  <2>1. PICK i \in Instruments, s \in Sides, q \in Quantities :
          /\ q > 0
          /\ OnPublicTrade([instrument |-> i, side |-> s, price |-> 1, quantity |-> q])
    BY <1>2 DEF PublicTrade
  <2> DEFINE t == [instrument |-> i, side |-> s, price |-> 1, quantity |-> q]
  <2>2. t \in PublicTrades /\ t.side = s /\ t.quantity = q /\ q \in Int
    BY <2>1, QuantitiesAssumption DEF PublicTrades
  <2>3. /\ public' = Append(public, t)
        /\ tape' = IF t.instrument # Watched THEN tape
                   ELSE [tape EXCEPT ![s] = Narrow(@ + q), !.count = @ + 1, !.last = t]
    BY <2>1, <2>2 DEF OnPublicTrade
  <2> HIDE DEF t
  <2>4. public \in Seq(PublicTrades) /\ public' \in Seq(PublicTrades)
    <3>1. public \in Seq(PublicTrades)
      BY DEF TapeSound
    <3>2. t \in PublicTrades /\ public' = Append(public, t)
      BY <2>2, <2>3
    <3>3. QED
      BY <3>1, <3>2
  <2>5. \A side \in Sides :
          /\ VolumeOf(public, side) \in Int
          /\ Cardinality(WatchedOf(public, side)) \in Nat
          /\ VolumeOf(public', side)
               = VolumeOf(public, side) + (IF Adds(t, side) THEN q ELSE 0)
          /\ Cardinality(WatchedOf(public', side))
               = Cardinality(WatchedOf(public, side)) + (IF Adds(t, side) THEN 1 ELSE 0)
    BY <2>2, <2>3, <2>4, VolumeAppended
  <2>6. IsLatest(tape'.last, public')
    <3>1. tape'.last = IF t.instrument = Watched THEN t ELSE tape.last
      BY <2>3 DEF TapeSound
    <3>2. IsLatest(tape.last, public)
      BY DEF TapeSound
    <3>3. QED
      BY <2>2, <2>3, <2>4, <3>1, <3>2, LatestAppended
  <2>7. CASE t.instrument # Watched
    <3>1. tape' = tape /\ \A side : ~Adds(t, side)
      BY <2>3, <2>7 DEF Adds
    <3>2. \A side \in Sides :
            /\ VolumeOf(public', side) = VolumeOf(public, side)
            /\ Cardinality(WatchedOf(public', side)) = Cardinality(WatchedOf(public, side))
      BY <2>5, <3>1
    <3>3. "Buy" \in Sides /\ "Sell" \in Sides
      BY DEF Sides
    <3>4. QED
      BY <2>4, <2>6, <3>1, <3>2, <3>3 DEF TapeSound
  <2>8. CASE t.instrument = Watched
    <3>1. \A side : Adds(t, side) <=> side = s
      BY <2>2, <2>8 DEF Adds
    <3>2. /\ DOMAIN tape' = {"Buy", "Sell", "count", "last"}
          /\ tape'[s] = Narrow(tape[s] + q)
          /\ \A side \in Sides : side # s => tape'[side] = tape[side]
          /\ tape'.count = tape.count + 1
      BY <2>3, <2>8 DEF TapeSound, Sides
    <3>3. ASSUME NEW side \in Sides PROVE tape'[side] = Narrow(VolumeOf(public', side))
      <4>1. CASE side = s
        <5>1. Narrow(Narrow(VolumeOf(public, s)) + q) = Narrow(VolumeOf(public, s) + q)
          BY <2>2, <2>5, NarrowAdds
        <5>2. VolumeOf(public', s) = VolumeOf(public, s) + q
          BY <2>5, <3>1
        <5>3. QED
          BY <3>2, <4>1, <5>1, <5>2 DEF TapeSound
      <4>2. CASE side # s
        BY <2>5, <3>1, <3>2, <4>2 DEF TapeSound
      <4>3. QED
        BY <4>1, <4>2
    <3>4. tape'.count = Cardinality(WatchedOf(public', "Buy"))
                          + Cardinality(WatchedOf(public', "Sell"))
      <4> DEFINE C(ps, side) == Cardinality(WatchedOf(ps, side))
      <4>1. /\ C(public, "Buy") \in Nat /\ C(public, "Sell") \in Nat
            /\ C(public', s) = C(public, s) + 1
            /\ \A side \in Sides : side # s => C(public', side) = C(public, side)
        BY <2>5, <3>1 DEF Sides
      <4>2. tape'.count = C(public, "Buy") + C(public, "Sell") + 1
        BY <3>2 DEF TapeSound
      <4> HIDE DEF C
      <4>3. tape'.count = C(public', "Buy") + C(public', "Sell")
        BY <4>1, <4>2 DEF Sides
      <4>4. QED
        BY <4>3 DEF C
    <3>5. QED
      BY <2>4, <2>6, <3>2, <3>3, <3>4 DEF TapeSound
  <2>9. QED
    BY <2>7, <2>8
<1>3. CASE UNCHANGED accountVars
  BY <1>3 DEF accountVars, TapeSound
<1>4. QED
  BY <1>1, <1>2, <1>3 DEF AccountNext

(* TradeProcessor counts every public trade of its instrument once, on its *)
(* side, and no other, and the last of them is its last trade: for any     *)
(* stream of trades, and any width.                                        *)
THEOREM VolumesAreKept == AccountSpec => []VolumesAreTheInstruments
<1>1. TapeSound => VolumesAreTheInstruments
  <2> SUFFICES ASSUME TapeSound PROVE VolumesAreTheInstruments
    OBVIOUS
  <2>1. ASSUME NEW side \in Sides PROVE VolumeOf(public, side) \in Int
    <3> DEFINE t == [instrument |-> Watched, side |-> side, price |-> 1, quantity |-> 1]
    <3>1. t \in PublicTrades
      BY WatchedAssumption DEF PublicTrades
    <3>2. public \in Seq(PublicTrades)
      BY DEF TapeSound
    <3> HIDE DEF t
    <3>3. QED
      BY <3>1, <3>2, VolumeAppended
  <2>2. ASSUME NEW side \in Sides, Fits(Volume(side)) PROVE tape[side] = Volume(side)
    BY <2>1, <2>2, VolumeIs, NarrowFits DEF TapeSound
  <2>3. LET watched == WatchedTrades("Buy") \cup WatchedTrades("Sell")
        IN  IF watched = {} THEN tape.last = NoTrade
            ELSE \E k \in watched : tape.last = public[k] /\ \A j \in watched : j <= k
    BY DEF TapeSound, IsLatest, WatchedTrades, WatchedOf
  <2>4. QED
    BY <2>2, <2>3, VolumeIs DEF TapeSound, VolumesAreTheInstruments
<1>2. QED
  BY <1>1, InitTapeSound, NextTapeSound, PTL DEF AccountSpec
-----------------------------------------------------------------------------
(* Prices are raw values.                                                  *)
PricesFit == \A p \in Prices : p < Half

(* No entry price is beyond the prices of the executions.                  *)
EntryPricesFit == \A i \in Instruments : positions[i].averagePrice < Half

(* An execution leaves the entry price below any bound it was below.       *)
LEMMA ApplyTradePrice ==
  ASSUME NEW position, Consistent(position), NEW side \in Sides,
         NEW price \in Nat \ {0}, NEW quantity \in Nat \ {0},
         NEW high \in Nat, position.averagePrice <= high, price <= high
  PROVE  /\ ApplyTrade(position, side, price, quantity).averagePrice \in Nat
         /\ ApplyTrade(position, side, price, quantity).averagePrice <= high
<1> DEFINE signed == Signed(side, quantity)
<1>1. signed \in Int /\ Magnitude(signed) = quantity
  BY SignedType DEF Magnitude
<1>2. position \in PositionType /\ position.averagePrice \in Nat
  BY DEF Consistent
<1>3. /\ 0 <= WeightedPrice(position, price, quantity)
      /\ WeightedPrice(position, price, quantity) <= high
      /\ WeightedPrice(position, price, quantity) \in Int
  BY <1>2, WeightedPriceBetween, WeightedPriceType
<1>4. ApplyTrade(position, side, price, quantity).averagePrice
        = EntryPriceAfter(position, price, signed)
  BY DEF ApplyTrade
<1> HIDE DEF signed
<1>5. EntryPriceAfter(position, price, signed)
        \in {0, price, position.averagePrice, WeightedPrice(position, price, quantity)}
  BY <1>1 DEF EntryPriceAfter
<1>6. QED
  BY <1>2, <1>3, <1>4, <1>5

LEMMA NextEntryPricesFit ==
  ASSUME PricesFit, PositionsSound, EntryPricesFit, [AccountNext]_accountVars
  PROVE  EntryPricesFit'
<1>1. CASE Execution
  <2>1. PICK t \in Executions :
          /\ t.price \in Prices
          /\ positions' = [positions EXCEPT ![t.instrument] =
                             ApplyTrade(@, t.side, t.price, t.quantity)]
    BY <1>1, ExecutionIs
  <2> DEFINE j == t.instrument
  <2>2. /\ j \in Instruments /\ t.side \in Sides
        /\ t.price \in Nat \ {0} /\ t.quantity \in Nat \ {0}
    BY DEF Executions
  <2>3. /\ Consistent(positions[j]) /\ positions[j].averagePrice \in Nat
        /\ positions \in [Instruments -> PositionType]
    BY <2>2 DEF PositionsSound, Consistent
  <2>4. Half - 1 \in Nat /\ Half \in Nat
    BY HalfType
  <2>5. positions[j].averagePrice <= Half - 1 /\ t.price <= Half - 1
    BY <2>1, <2>2, <2>3, <2>4 DEF EntryPricesFit, PricesFit
  <2>6. /\ ApplyTrade(positions[j], t.side, t.price, t.quantity).averagePrice \in Nat
        /\ ApplyTrade(positions[j], t.side, t.price, t.quantity).averagePrice <= Half - 1
    BY <2>2, <2>3, <2>4, <2>5, ApplyTradePrice
  <2>7. /\ positions'[j] = ApplyTrade(positions[j], t.side, t.price, t.quantity)
        /\ \A i \in Instruments : i # j => positions'[i] = positions[i]
    BY <2>1, <2>2, <2>3
  <2>8. positions'[j].averagePrice < Half
    BY <2>4, <2>6, <2>7
  <2>9. QED
    BY <2>7, <2>8 DEF EntryPricesFit
<1>2. CASE PublicTrade
  BY <1>2 DEF PublicTrade, OnPublicTrade, EntryPricesFit
<1>3. CASE UNCHANGED accountVars
  BY <1>3 DEF accountVars, EntryPricesFit
<1>4. QED
  BY <1>1, <1>2, <1>3 DEF AccountNext

(* Every value on the way of an execution fits when the position fits      *)
(* before and after it.                                                    *)
LEMMA IntermediatesFit ==
  ASSUME NEW position, Consistent(position), position.averagePrice < Half,
         NEW side \in Sides, NEW price \in Nat \ {0}, price < Half,
         NEW quantity \in Nat \ {0}, quantity < Half,
         Magnitude(position.quantity) < Half,
         Magnitude(position.quantity + Signed(side, quantity)) < Half
  PROVE  /\ \A n \in Intermediates(position, side, price, quantity).raw : Fits(n)
         /\ \A n \in Intermediates(position, side, price, quantity).wide : FitsWide(n)
<1> DEFINE open == Magnitude(position.quantity)
           signed == Signed(side, quantity)
           after == position.quantity + signed
           average == ApplyTrade(position, side, price, quantity).averagePrice
           adds == position.quantity # 0 /\ SameDirection(position.quantity, signed)
           high == Half - 1
           paid == position.averagePrice * open
           pays == price * quantity
<1>1. /\ Half \in Nat \ {0} /\ high \in Nat
      /\ position.quantity \in Int /\ position.averagePrice \in Nat
      /\ open \in Nat /\ signed \in Int /\ after \in Int
      /\ Magnitude(signed) = quantity
  <2>1. position.quantity \in Int /\ position.averagePrice \in Nat
    BY DEF Consistent, PositionType
  <2>2. open \in Nat
    BY <2>1 DEF Magnitude
  <2>3. signed \in Int /\ Magnitude(signed) = quantity
    BY SignedType DEF Magnitude
  <2>4. Half \in Nat \ {0} /\ high \in Nat
    BY HalfType
  <2>5. QED
    BY <2>1, <2>2, <2>3, <2>4
<1>2. /\ position.averagePrice <= high /\ price <= high
      /\ open <= high /\ quantity <= high /\ Magnitude(after) <= high
      /\ Magnitude(after) \in Nat
  <2>1. Magnitude(after) \in Nat
    BY <1>1 DEF Magnitude
  <2>2. QED
    BY <1>1, <2>1
<1>3. average \in Nat /\ average <= high
  BY <1>1, <1>2, ApplyTradePrice
<1>4. adds => open + quantity = Magnitude(after)
  BY <1>1 DEF SameDirection, Magnitude
<1>5. /\ Intermediates(position, side, price, quantity).raw
           = {open, signed, after, average} \cup (IF adds THEN {open + quantity} ELSE {})
      /\ Intermediates(position, side, price, quantity).wide
           = IF adds THEN {paid, pays, paid + pays} ELSE {}
  BY DEF Intermediates
<1>6. /\ paid \in Nat /\ pays \in Nat
      /\ paid <= high * open /\ pays <= high * quantity
  BY <1>1, <1>2, ProductMonotone
<1> HIDE DEF open, signed, after, average, adds, high, paid, pays
<1>7. ASSUME NEW n \in Int, -high <= n, n <= high PROVE Fits(n)
  <2>1. -Half <= n /\ n < Half
    BY <1>1, <1>7 DEF high
  <2>2. QED
    BY <2>1, FitsIs
<1>8. ASSUME NEW n \in Nat, n <= high * high PROVE FitsWide(n)
  <2>1. high * high \in Nat /\ high * high <= Half * Half /\ Half * Half \in Nat
    <3>1. high <= Half
      BY <1>1 DEF high
    <3>2. high * high <= Half * high
      BY <1>1, <3>1, ProductMonotone
    <3>3. high * Half <= Half * Half
      BY <1>1, <3>1, ProductMonotone
    <3>4. Half * high = high * Half
      BY <1>1
    <3>5. /\ high * high \in Nat /\ Half * high \in Nat /\ high * Half \in Nat
          /\ Half * Half \in Nat
      BY <1>1
    <3>6. QED
      BY <3>2, <3>3, <3>4, <3>5
  <2>2. Half * (2 * Half) = Half * Half + Half * Half
    BY <1>1
  <2>3. Half * Half # 0
    BY <1>1
  <2>4. -(Half * (2 * Half)) <= n /\ n < Half * (2 * Half)
    BY <1>8, <2>1, <2>2, <2>3
  <2>5. QED
    BY <2>4, FitsIs
<1>9. /\ Fits(open) /\ Fits(average)
      /\ Fits(signed) /\ Fits(after)
  <2>1. -high <= open /\ -high <= average
    BY <1>1, <1>2, <1>3
  <2>2. -high <= signed /\ signed <= high
    BY <1>1, <1>2 DEF Magnitude
  <2>3. -high <= after /\ after <= high
    BY <1>1, <1>2 DEF Magnitude
  <2>4. QED
    BY <1>1, <1>2, <1>3, <1>7, <2>1, <2>2, <2>3
<1>10. ASSUME adds
       PROVE  Fits(open + quantity) /\ FitsWide(paid) /\ FitsWide(pays) /\ FitsWide(paid + pays)
  <2>1. open + quantity \in Nat /\ open + quantity <= high
    BY <1>1, <1>2, <1>4, <1>10
  <2>2. high * (open + quantity) = high * open + high * quantity
    BY <1>1
  <2>3. /\ high * (open + quantity) \in Nat /\ high * open \in Nat
        /\ high * quantity \in Nat /\ high * high \in Nat
    BY <1>1, <2>1
  <2>4. high * (open + quantity) <= high * high
    <3>1. (open + quantity) * high <= high * high
      BY <1>1, <2>1, ProductMonotone
    <3>2. (open + quantity) * high = high * (open + quantity)
      BY <1>1, <2>1
    <3>3. QED
      BY <3>1, <3>2
  <2>5. paid <= high * high /\ pays <= high * high /\ paid + pays <= high * high
        /\ paid + pays \in Nat
    BY <1>6, <2>2, <2>3, <2>4
  <2>6. -high <= open + quantity
    BY <1>1, <2>1
  <2>7. QED
    BY <1>6, <1>7, <1>8, <2>1, <2>5, <2>6
<1>11. QED
  BY <1>5, <1>9, <1>10

(* Whatever the width and the prices it holds: as long as the position     *)
(* fits before and after, no sum and no product on the way overflows.      *)
THEOREM OnlyThePositionOverflows ==
  ASSUME PricesFit
  PROVE  AccountSpec => []NothingOverflowsButThePosition
<1>1. PositionsSound /\ EntryPricesFit => NothingOverflowsButThePosition
  <2> SUFFICES ASSUME PositionsSound, EntryPricesFit,
                      NEW i \in Instruments, NEW s \in Sides,
                      NEW q \in {1, Magnitude(positions[i].quantity),
                                 (Half - 1) - Magnitude(positions[i].quantity),
                                 Half - 1} \ {0},
                      NEW p \in {1, Half - 1},
                      Magnitude(positions[i].quantity) <= Half - 1,
                      Magnitude(positions[i].quantity + Signed(s, q)) <= Half - 1
               PROVE  /\ \A n \in Intermediates(positions[i], s, p, q).raw : Fits(n)
                      /\ \A n \in Intermediates(positions[i], s, p, q).wide : FitsWide(n)
    BY DEF NothingOverflowsButThePosition, Half
  <2>1. Half \in Nat \ {0}
    BY HalfType
  <2>2. /\ Consistent(positions[i]) /\ positions[i].averagePrice < Half
        /\ positions[i].quantity \in Int
    BY DEF PositionsSound, EntryPricesFit, Consistent, PositionType
  <2> DEFINE open == Magnitude(positions[i].quantity)
             after == positions[i].quantity + Signed(s, q)
  <2>3. open \in Nat /\ (open = 0 => positions[i].quantity = 0)
    BY <2>2 DEF Magnitude
  <2>4. q \in Nat \ {0}
    BY <2>1, <2>3
  <2>5. Half - 1 # 0
    <3>1. SUFFICES ASSUME Half - 1 = 0 PROVE FALSE
      OBVIOUS
    <3>2. positions[i].quantity = 0
      BY <2>3, <3>1
    <3>3. Magnitude(0 + Signed(s, q)) = q
      BY <2>4 DEF Magnitude, Signed
    <3>4. QED
      BY <2>4, <3>1, <3>2, <3>3
  <2>6. q < Half
    BY <2>1, <2>3, <2>5
  <2>7. p \in Nat \ {0} /\ p < Half
    BY <2>1, <2>5
  <2>8. Magnitude(after) \in Int
    BY <2>2, <2>4 DEF Magnitude, Signed
  <2>9. open < Half /\ Magnitude(after) < Half
    BY <2>1, <2>3, <2>8
  <2>10. QED
    BY <2>2, <2>4, <2>6, <2>7, <2>9, IntermediatesFit
<1>2. AccountInit => EntryPricesFit
  BY HalfType DEF AccountInit, Init, EntryPricesFit, Flat
<1>3. PositionsSound /\ EntryPricesFit /\ [AccountNext]_accountVars => EntryPricesFit'
  BY NextEntryPricesFit
<1>4. QED
  BY <1>1, <1>2, <1>3, InitPositionsSound, NextPositionsSound, PTL DEF AccountSpec
-----------------------------------------------------------------------------
(* What truncation takes from a quotient: less than one.                   *)
LEMMA TruncationError ==
  ASSUME NEW n \in Int, NEW d \in Nat \ {0}
  PROVE  /\ TruncatedDivide(n, d) \in Int
         /\ d * TruncatedDivide(n, d) \in Int
         /\ Magnitude(n - d * TruncatedDivide(n, d)) <= d - 1
         /\ d * Magnitude(TruncatedDivide(n, d)) <= Magnitude(n)
         /\ n >= 0 => d * TruncatedDivide(n, d) <= n
<1> DEFINE m == Magnitude(n)
           q == m \div d
<1>1. m \in Nat /\ q \in Nat
  BY DEF Magnitude
<1>2. d * q <= m /\ m < d * q + d /\ d * q \in Nat
  <2>1. m = d * q + (m % d) /\ 0 <= m % d /\ m % d < d /\ m % d \in Int
    BY <1>1
  <2>2. d * q \in Nat
    BY <1>1
  <2> HIDE DEF m, q
  <2>3. QED
    BY <1>1, <2>1, <2>2
<1>3. TruncatedDivide(n, d) = IF n >= 0 THEN q ELSE -q
  BY DEF TruncatedDivide, Magnitude
<1>4. n = IF n >= 0 THEN m ELSE -m
  BY DEF Magnitude
<1> HIDE DEF m, q
<1>5. CASE n >= 0
  <2>1. TruncatedDivide(n, d) = q /\ n = m
    BY <1>3, <1>4, <1>5
  <2>2. Magnitude(q) = q
    BY <1>1 DEF Magnitude
  <2>3. Magnitude(m - d * q) = m - d * q
    BY <1>1, <1>2 DEF Magnitude
  <2>4. Magnitude(m) = m
    BY <1>1 DEF Magnitude
  <2>5. QED
    BY <1>1, <1>2, <2>1, <2>2, <2>3, <2>4
<1>6. CASE n < 0
  <2>1. TruncatedDivide(n, d) = -q /\ n = -m
    BY <1>3, <1>4, <1>6
  <2>2. Magnitude(-q) = q
    BY <1>1 DEF Magnitude
  <2>3. d * (-q) = -(d * q)
    BY <1>1
  <2>4. Magnitude(-m - (-(d * q))) = m - d * q
    BY <1>1, <1>2 DEF Magnitude
  <2>5. Magnitude(-m) = m
    BY <1>1 DEF Magnitude
  <2>6. QED
    BY <1>1, <1>2, <1>6, <2>1, <2>2, <2>3, <2>4, <2>5
<1>7. QED
  BY <1>5, <1>6

(* A value fits if it does when it is scaled up.                           *)
LEMMA ScaledFits ==
  ASSUME NEW x \in Int, Scale * Magnitude(x) < Scale * Half
  PROVE  Fits(x)
<1>1. Scale \in Nat \ {0} /\ Half \in Nat \ {0} /\ Magnitude(x) \in Nat
  BY ScaleAssumption, HalfType DEF Magnitude
<1>2. Magnitude(x) < Half
  <2>1. SUFFICES ASSUME Half <= Magnitude(x) PROVE FALSE
    BY <1>1
  <2>2. Half * Scale <= Magnitude(x) * Scale
    BY <1>1, <2>1, ProductMonotone
  <2>3. Half * Scale = Scale * Half /\ Magnitude(x) * Scale = Scale * Magnitude(x)
    BY <1>1
  <2>4. Scale * Half \in Int /\ Scale * Magnitude(x) \in Int
    BY <1>1
  <2>5. QED
    BY <2>2, <2>3, <2>4
<1>3. -Half <= x /\ x < Half
  BY <1>1, <1>2 DEF Magnitude
<1>4. QED
  BY <1>3, FitsIs

(* The product of a difference and a quantity, as a price: up to less than *)
(* a unit, if it fits.                                                     *)
LEMMA ProductAsPrice ==
  ASSUME NEW difference \in Int, NEW quantity \in Int,
         Magnitude(difference * quantity) < Scale * Half
  PROVE  /\ FromProduct(difference, quantity) \in Int
         /\ Scale * FromProduct(difference, quantity) \in Int
         /\ Magnitude(difference * quantity - Scale * FromProduct(difference, quantity))
              <= Scale - 1
         /\ Scale * Magnitude(FromProduct(difference, quantity))
              <= Magnitude(difference * quantity)
<1> DEFINE n == difference * quantity
           x == TruncatedDivide(n, Scale)
<1>1. Scale \in Nat \ {0} /\ Half \in Nat \ {0} /\ n \in Int /\ Scale * Half \in Int
  BY ScaleAssumption, HalfType
<1>2. /\ Magnitude(n) < Scale * Half
      /\ FromProduct(difference, quantity) = Narrow(x)
  BY DEF FromProduct
<1> HIDE DEF n
<1>3. /\ x \in Int /\ Scale * x \in Int
      /\ Magnitude(n - Scale * x) <= Scale - 1
      /\ Scale * Magnitude(x) <= Magnitude(n)
  BY <1>1, TruncationError
<1> HIDE DEF x
<1>4. Magnitude(x) \in Nat /\ Magnitude(n) \in Nat
  BY <1>1, <1>3 DEF Magnitude
<1>5. Scale * Magnitude(x) < Scale * Half
  <2>1. Scale * Magnitude(x) \in Int
    BY <1>1, <1>4
  <2>2. QED
    BY <1>1, <1>2, <1>3, <1>4, <2>1
<1>6. Narrow(x) = x
  BY <1>3, <1>5, ScaledFits, NarrowFits
<1>7. QED
  BY <1>2, <1>3, <1>6 DEF n

(* A price difference is at most the higher price.                         *)
LEMMA GainBounded ==
  ASSUME NEW position \in PositionType, position.averagePrice \in Nat,
         NEW price \in Nat, NEW P \in Nat, position.averagePrice <= P, price <= P,
         NEW c \in Nat
  PROVE  /\ Gain(position, price) \in Int
         /\ Gain(position, price) * c \in Int
         /\ Magnitude(Gain(position, price) * c) <= P * c
<1> DEFINE g == Gain(position, price)
<1>1. g \in Int /\ Magnitude(g) <= P /\ Magnitude(g) \in Nat
  BY DEF Gain, Magnitude, PositionType
<1> HIDE DEF g
<1>2. Magnitude(g) * c <= P * c
  BY <1>1, ProductMonotone
<1>3. g * c \in Int /\ Magnitude(g) * c \in Nat /\ P * c \in Nat
  BY <1>1
<1>4. Magnitude(g * c) = Magnitude(g) * c
  <2>1. CASE g >= 0
    <3>1. g * c \in Nat
      BY <1>1, <2>1
    <3>2. Magnitude(g) = g /\ Magnitude(g * c) = g * c
      BY <1>1, <2>1, <3>1 DEF Magnitude
    <3>3. QED
      BY <3>2
  <2>2. CASE g < 0
    <3>1. -g \in Nat /\ (-g) * c \in Nat /\ (-g) * c = -(g * c)
      BY <1>1, <2>2
    <3>2. Magnitude(g) = -g
      BY <2>2 DEF Magnitude
    <3>3. Magnitude(g * c) = -(g * c)
      BY <1>3, <3>1 DEF Magnitude
    <3>4. QED
      BY <3>1, <3>2, <3>3
  <2>3. QED
    BY <1>1, <2>1, <2>2
<1>5. QED
  BY <1>1, <1>2, <1>3, <1>4 DEF g

(* How much a trade closes: nothing of a position on its own side, and     *)
(* otherwise all of itself or all of the position.                         *)
LEMMA ClosesIs ==
  ASSUME NEW position \in PositionType, NEW side \in Sides, NEW quantity \in Nat \ {0}
  PROVE  Closes(position, side, quantity) =
           IF position.quantity = 0 \/ SameDirection(position.quantity, Signed(side, quantity))
           THEN 0
           ELSE IF Magnitude(position.quantity) <= quantity
                THEN Magnitude(position.quantity)
                ELSE quantity
<1> DEFINE m == Magnitude(position.quantity)
<1>1. position.quantity \in Int /\ m \in Nat
  BY DEF PositionType, Magnitude
<1>2. ((position.quantity > 0 /\ side = "Sell") \/ (position.quantity < 0 /\ side = "Buy"))
        <=> ~(position.quantity = 0 \/ SameDirection(position.quantity, Signed(side, quantity)))
  BY <1>1 DEF Sides, SameDirection, Signed
<1> HIDE DEF m
<1>3. Min({m, quantity}) = IF m <= quantity THEN m ELSE quantity
  BY <1>1 DEF Min
<1>4. QED
  BY <1>2, <1>3 DEF Closes, m
-----------------------------------------------------------------------------
(* The books of one instrument are right: the realized profit R is what    *)
(* came in, C, and the open position at its entry price, up to L; it is no *)
(* more than what has been traded, T units at a price of at most P, can    *)
(* have brought, less the units still open.                                *)
Balanced(position, R, C, L, T, P) ==
  /\ R \in Int /\ C \in Int /\ L \in Nat
  /\ position.averagePrice <= P
  /\ Magnitude(position.quantity) <= T
  /\ Scale * Magnitude(R) <= P * (T - Magnitude(position.quantity))
  /\ Magnitude(Scale * R - (C + position.quantity * position.averagePrice)) <= L

(* What an execution does to the value of the position at its entry price: *)
(* the price paid comes in, and the gain of what is closed.                *)
LEMMA ValueAfterClosing ==
  ASSUME NEW position, Consistent(position), NEW side \in Sides,
         NEW price \in Nat \ {0}, NEW quantity \in Nat \ {0},
         position.quantity # 0, ~SameDirection(position.quantity, Signed(side, quantity))
  PROVE  LET after  == ApplyTrade(position, side, price, quantity)
             signed == Signed(side, quantity)
         IN  after.quantity * after.averagePrice - signed * price
               = position.quantity * position.averagePrice
                 + Gain(position, price) * Closes(position, side, quantity)
<1> DEFINE after == ApplyTrade(position, side, price, quantity)
           signed == Signed(side, quantity)
           q == position.quantity
           a == position.averagePrice
           c == Closes(position, side, quantity)
<1>1. /\ q \in Int /\ a \in Nat /\ signed \in Int /\ signed # 0
      /\ position \in PositionType
      /\ signed = quantity \/ signed = -quantity
  BY DEF Consistent, PositionType, Signed
<1>2. c = IF Magnitude(q) <= quantity THEN Magnitude(q) ELSE quantity
  BY <1>1, ClosesIs
<1>3. after.quantity = q + signed /\ after.averagePrice = EntryPriceAfter(position, price, signed)
  BY DEF ApplyTrade
<1>4. Gain(position, price) = IF q > 0 THEN price - a ELSE a - price
  BY DEF Gain
<1>5. \/ q > 0 /\ signed = -quantity
      \/ q < 0 /\ signed = quantity
  BY <1>1 DEF SameDirection
<1>6. CASE Magnitude(q) <= quantity
  <2>1. after.quantity * after.averagePrice = (q + signed) * price
    <3>1. CASE q + signed = 0
      <4>1. after.averagePrice = 0
        BY <1>3, <3>1 DEF EntryPriceAfter
      <4>2. QED
        BY <1>3, <3>1, <4>1
    <3>2. CASE q + signed # 0
      <4>1. ~SameDirection(q, q + signed)
        BY <1>1, <1>5, <1>6, <3>2 DEF SameDirection, Magnitude
      <4>2. after.averagePrice = price
        BY <1>3, <3>2, <4>1 DEF EntryPriceAfter
      <4>3. QED
        BY <1>3, <4>2
    <3>3. QED
      BY <3>1, <3>2
  <2>2. Gain(position, price) * c = (price - a) * q
    <3>1. CASE q > 0
      BY <1>1, <1>2, <1>4, <1>6, <3>1 DEF Magnitude
    <3>2. CASE q < 0
      <4>1. Gain(position, price) * c = (a - price) * (-q)
        BY <1>1, <1>2, <1>4, <1>6, <3>2 DEF Magnitude
      <4>2. (a - price) * (-q) = (price - a) * q
        BY <1>1
      <4>3. QED
        BY <4>1, <4>2
    <3>3. QED
      BY <1>1, <3>1, <3>2
  <2> HIDE DEF after, signed, q, a, c
  <2>3. /\ (q + signed) * price = q * price + signed * price
        /\ (price - a) * q = q * price - q * a
        /\ q * price \in Int /\ signed * price \in Int /\ q * a \in Int
    BY <1>1
  <2>4. after.quantity * after.averagePrice - signed * price
          = q * a + Gain(position, price) * c
    BY <2>1, <2>2, <2>3
  <2>5. QED
    BY <2>4 DEF after, signed, q, a, c
<1>7. CASE ~(Magnitude(q) <= quantity)
  <2>1. after.averagePrice = a
    <3>1. q + signed # 0 /\ SameDirection(q, q + signed)
      BY <1>1, <1>5, <1>7 DEF SameDirection, Magnitude
    <3>2. QED
      BY <1>3, <3>1 DEF EntryPriceAfter
  <2>2. Gain(position, price) * c = -((price - a) * signed)
    <3>1. CASE q > 0
      <4>1. Gain(position, price) * c = (price - a) * quantity /\ signed = -quantity
        BY <1>1, <1>2, <1>4, <1>5, <1>7, <3>1
      <4>2. (price - a) * (-quantity) = -((price - a) * quantity)
        BY <1>1
      <4>3. (price - a) * quantity \in Int
        BY <1>1
      <4>4. QED
        BY <4>1, <4>2, <4>3
    <3>2. CASE q < 0
      <4>1. Gain(position, price) * c = (a - price) * quantity /\ signed = quantity
        BY <1>1, <1>2, <1>4, <1>5, <1>7, <3>2
      <4>2. (a - price) * quantity = -((price - a) * quantity)
        BY <1>1
      <4>3. QED
        BY <4>1, <4>2
    <3>3. QED
      BY <1>1, <3>1, <3>2
  <2> HIDE DEF after, signed, q, a, c
  <2>3. /\ (q + signed) * a = q * a + signed * a
        /\ (price - a) * signed = signed * price - signed * a
        /\ q * a \in Int /\ signed * a \in Int /\ signed * price \in Int
    BY <1>1
  <2>4. after.quantity * after.averagePrice = (q + signed) * a
    BY <1>3, <2>1
  <2>5. after.quantity * after.averagePrice - signed * price
          = q * a + Gain(position, price) * c
    BY <2>2, <2>3, <2>4
  <2>6. QED
    BY <2>5 DEF after, signed, q, a, c
<1>8. QED
  BY <1>6, <1>7

(* A trade that adds keeps the value, up to what the average is rounded.   *)
LEMMA ValueAfterAdding ==
  ASSUME NEW position, Consistent(position), NEW side \in Sides,
         NEW price \in Nat \ {0}, NEW quantity \in Nat \ {0},
         NEW signed, signed = Signed(side, quantity),
         NEW after, after = ApplyTrade(position, side, price, quantity),
         position.quantity # 0, SameDirection(position.quantity, signed)
  PROVE  /\ after.quantity * after.averagePrice \in Int
         /\ Magnitude(position.quantity * position.averagePrice
                      - (after.quantity * after.averagePrice - signed * price))
              <= Magnitude(position.quantity) + quantity - 1
<1> DEFINE q == position.quantity
           a == position.averagePrice
           m == Magnitude(q)
           d == m + quantity
           n == a * m + price * quantity
           w == TruncatedDivide(n, d)
<1>1. /\ q \in Int /\ a \in Nat /\ signed \in Int
      /\ Magnitude(signed) = quantity
      /\ m \in Nat /\ d \in Nat \ {0}
      /\ \/ q > 0 /\ signed = quantity /\ m = q
         \/ q < 0 /\ signed = -quantity /\ m = -q
  BY DEF Consistent, PositionType, Signed, SameDirection, Magnitude
<1>2. after.quantity = q + signed /\ after.averagePrice = w
  BY <1>1 DEF ApplyTrade, EntryPriceAfter, WeightedPrice
<1>3. /\ n \in Int /\ n >= 0
      /\ a * m \in Nat /\ price * quantity \in Nat
  <2>1. a * m \in Nat /\ price * quantity \in Nat
    BY <1>1
  <2>2. QED
    BY <2>1
<1> HIDE DEF w
<1>4. /\ w \in Int /\ d * w \in Int /\ Magnitude(n - d * w) <= d - 1 /\ d * w <= n
  <2> HIDE DEF n, d
  <2>1. QED
    BY <1>1, <1>3, TruncationError DEF w
<1>5. 0 <= n - d * w /\ n - d * w <= d - 1
  BY <1>1, <1>3, <1>4 DEF Magnitude
<1>6. d - 1 = m + (quantity - 1)
  BY <1>1
<1>7. CASE q > 0
  <2>1. m = q /\ signed = quantity
    BY <1>1, <1>7
  <2>2. (q + signed) * w = d * w /\ signed * price = price * quantity /\ q * a = a * m
    BY <1>1, <1>4, <2>1
  <2> HIDE DEF q, a, m, d
  <2>3. q * a - ((q + signed) * w - signed * price) = n - d * w
    BY <1>3, <1>4, <2>2
  <2>4. Magnitude(q * a - (after.quantity * after.averagePrice - signed * price)) <= d - 1
    BY <1>2, <1>4, <2>3
  <2>5. after.quantity * after.averagePrice \in Int
    BY <1>2, <1>4, <2>2
  <2>6. QED
    BY <1>6, <2>4, <2>5 DEF q, a, m, d
<1>8. CASE q < 0
  <2>1. q = -m /\ signed = -quantity
    BY <1>1, <1>8
  <2>2. /\ (-m + -quantity) * w = -((m + quantity) * w)
        /\ (-quantity) * price = -(price * quantity)
        /\ (-m) * a = -(a * m)
    <3> HIDE DEF m, a, d
    <3>1. m \in Int /\ quantity \in Int /\ w \in Int /\ a \in Int /\ price \in Int
      BY <1>1, <1>4
    <3>2. (-m + -quantity) * w = -((m + quantity) * w)
      BY <3>1
    <3>3. (-quantity) * price = -(price * quantity)
      BY <3>1
    <3>4. (-m) * a = -(a * m)
      BY <3>1
    <3>5. QED
      BY <3>2, <3>3, <3>4
  <2>3. (q + signed) * w = -(d * w) /\ signed * price = -(price * quantity) /\ q * a = -(a * m)
    BY <2>1, <2>2
  <2> HIDE DEF q, a, m, d
  <2>4. q * a - ((q + signed) * w - signed * price) = -(n - d * w)
    BY <1>3, <1>4, <2>3
  <2>5. n - d * w \in Int
    BY <1>3, <1>4
  <2>6. Magnitude(-(n - d * w)) = Magnitude(n - d * w)
    BY <2>5 DEF Magnitude
  <2>7. Magnitude(q * a - (after.quantity * after.averagePrice - signed * price)) <= d - 1
    BY <1>2, <1>4, <2>4, <2>6
  <2>8. after.quantity * after.averagePrice \in Int
    BY <1>2, <1>4, <2>3
  <2>9. QED
    BY <1>6, <2>7, <2>8 DEF q, a, m, d
<1>9. QED
  BY <1>1, <1>7, <1>8

(* A product grows with its second factor.                                 *)
LEMMA TimesMonotone ==
  ASSUME NEW a \in Nat, NEW b \in Nat, NEW c \in Nat, a <= b
  PROVE  c * a \in Nat /\ c * b \in Nat /\ c * a <= c * b
<1>1. a * c <= b * c
  BY ProductMonotone
<1>2. a * c = c * a /\ b * c = c * b /\ c * a \in Nat /\ c * b \in Nat
  OBVIOUS
<1>3. QED
  BY <1>1, <1>2

(* How many units are open after an execution that closes c of them.       *)
LEMMA OpenAfter ==
  ASSUME NEW position \in PositionType, NEW side \in Sides,
         NEW quantity \in Nat \ {0}, NEW Q \in Nat, quantity <= Q
  PROVE  LET signed == Signed(side, quantity)
             open   == Magnitude(position.quantity)
             left   == Magnitude(position.quantity + signed)
             c      == Closes(position, side, quantity)
         IN  /\ open \in Nat /\ left \in Nat /\ c \in Nat
             /\ c <= open /\ left <= open + Q /\ c + left <= open + Q
<1> DEFINE signed == Signed(side, quantity)
           q == position.quantity
           c == Closes(position, side, quantity)
<1>1. /\ q \in Int /\ signed \in Int
      /\ signed = quantity \/ signed = -quantity
  BY DEF PositionType, Signed
<1>2. c = IF q = 0 \/ SameDirection(q, signed) THEN 0
          ELSE IF Magnitude(q) <= quantity THEN Magnitude(q) ELSE quantity
  BY ClosesIs
<1> HIDE DEF signed, q, c
<1>3. Magnitude(q) \in Nat /\ Magnitude(q + signed) \in Nat
  BY <1>1 DEF Magnitude
<1>4. c \in Nat /\ c <= Magnitude(q)
  BY <1>2, <1>3
<1>5. Magnitude(q + signed) <= Magnitude(q) + Q
  BY <1>1 DEF Magnitude
<1>6. c + Magnitude(q + signed) <= Magnitude(q) + Q
  BY <1>1, <1>2 DEF Magnitude, SameDirection
<1>7. QED
  BY <1>3, <1>4, <1>5, <1>6 DEF signed, q, c

(* Booking an execution and moving the position keeps the books right.     *)
LEMMA BookKeepsBalance ==
  ASSUME NEW position, Consistent(position), NEW side \in Sides,
         NEW price \in Nat \ {0}, NEW quantity \in Nat \ {0},
         NEW R, NEW C, NEW L, NEW T \in Nat, NEW P \in Nat, NEW Q \in Nat,
         Balanced(position, R, C, L, T, P),
         price <= P, quantity <= Q, P * (T + Q) < Scale * Half,
         NEW signed, signed = Signed(side, quantity),
         NEW after, after = ApplyTrade(position, side, price, quantity)
  PROVE  Balanced(after, R + CalculateRealized(position, "Trade", side, price, quantity),
                  C - signed * price, L + Rounding(position, side, quantity), T + Q, P)
<1> DEFINE q == position.quantity
           a == position.averagePrice
           open == Magnitude(q)
           left == Magnitude(q + signed)
           c == Closes(position, side, quantity)
           g == Gain(position, price)
           x == FromProduct(g, c)
           won == g * c
           value == q * a
           then == after.quantity * after.averagePrice
           paid == signed * price
           rounding == Rounding(position, side, quantity)
<1>1. /\ q \in Int /\ a \in Nat /\ a <= P /\ position \in PositionType
      /\ signed \in Int /\ paid \in Int /\ value \in Int
      /\ R \in Int /\ C \in Int /\ L \in Nat
      /\ Scale \in Nat \ {0} /\ Half \in Nat \ {0}
  <2>1. q \in Int /\ a \in Nat /\ a <= P /\ position \in PositionType
        /\ R \in Int /\ C \in Int /\ L \in Nat
    BY DEF Consistent, PositionType, Balanced
  <2>2. signed \in Int
    BY SignedType
  <2>3. paid \in Int /\ value \in Int
    BY <2>1, <2>2
  <2>4. QED
    BY <2>1, <2>2, <2>3, ScaleAssumption, HalfType
<1>2. /\ open \in Nat /\ left \in Nat /\ c \in Nat
      /\ c <= open /\ left <= open + Q /\ c + left <= open + Q
  BY <1>1, OpenAfter
<1>3. /\ open <= T
      /\ Scale * Magnitude(R) <= P * (T - open)
      /\ Magnitude(Scale * R - (C + value)) <= L
  BY DEF Balanced
<1>4. /\ after.quantity = q + signed
      /\ after.averagePrice \in Nat /\ after.averagePrice <= P
  <2>1. after.quantity = q + signed
    BY DEF ApplyTrade
  <2>2. QED
    BY <1>1, <2>1, ApplyTradePrice
<1>5. then \in Int
  BY <1>1, <1>4
<1>6. g \in Int /\ won \in Int /\ Magnitude(won) <= P * c
  BY <1>1, <1>2, GainBounded
<1>7. CalculateRealized(position, "Trade", side, price, quantity) = x
  BY DEF CalculateRealized
<1>8. rounding = IF q # 0 /\ SameDirection(q, signed) THEN open + (quantity - 1) ELSE Scale - 1
  BY <1>1, <1>2 DEF Rounding
<1>9. q = 0 \/ ~SameDirection(q, signed) => then - paid = value + won
  <2>1. CASE q = 0
    <3>1. c = 0
      BY <1>1, <2>1, ClosesIs
    <3>2. after.averagePrice = price
      BY <2>1 DEF ApplyTrade, EntryPriceAfter
    <3>3. then = (0 + signed) * price
      BY <1>4, <2>1, <3>2
    <3>4. value = 0 /\ won = 0
      BY <1>1, <1>6, <2>1, <3>1
    <3>5. QED
      BY <1>1, <3>3, <3>4
  <2>2. CASE q # 0 /\ ~SameDirection(q, signed)
    BY <2>2, ValueAfterClosing
  <2>3. QED
    BY <2>1, <2>2
<1>10. q # 0 /\ SameDirection(q, signed) =>
         c = 0 /\ Magnitude(value - (then - paid)) <= open + (quantity - 1)
  <2>1. SUFFICES ASSUME q # 0, SameDirection(q, signed)
                 PROVE  c = 0 /\ Magnitude(value - (then - paid)) <= open + (quantity - 1)
    OBVIOUS
  <2>2. c = 0
    BY <1>1, <2>1, ClosesIs
  <2>3. Magnitude(value - (then - paid)) <= open + quantity - 1
    BY <2>1, ValueAfterAdding
  <2>4. open + quantity - 1 = open + (quantity - 1)
    BY <1>2
  <2>5. QED
    BY <2>2, <2>3, <2>4
<1> HIDE DEF q, a, open, left, c, g, won, value, then, paid, rounding
<1>11. Magnitude(won) < Scale * Half
  <2>1. P * c <= P * (T + Q) /\ P * c \in Nat /\ P * (T + Q) \in Nat
    <3>1. T + Q \in Nat /\ c <= T + Q
      BY <1>2, <1>3
    <3>2. QED
      BY <1>2, <3>1, TimesMonotone
  <2>2. Magnitude(won) \in Nat /\ Scale * Half \in Nat
    BY <1>1, <1>6 DEF Magnitude
  <2>3. QED
    BY <1>6, <2>1, <2>2
<1>12. /\ x \in Int /\ Scale * x \in Int
       /\ Magnitude(won - Scale * x) <= Scale - 1
       /\ Scale * Magnitude(x) <= Magnitude(won)
  BY <1>2, <1>6, <1>11, ProductAsPrice DEF won
<1> HIDE DEF x
<1>13. c = 0 => x = 0
  <2>1. SUFFICES ASSUME c = 0, x # 0 PROVE FALSE
    OBVIOUS
  <2>2. Magnitude(x) \in Nat /\ 1 <= Magnitude(x)
    BY <1>12, <2>1 DEF Magnitude
  <2>3. Scale * 1 <= Scale * Magnitude(x) /\ Scale * Magnitude(x) \in Nat
    BY <1>1, <2>2, TimesMonotone
  <2>4. P * c = 0 /\ Scale * 1 = Scale
    BY <1>1, <2>1
  <2>5. Magnitude(won) \in Nat
    BY <1>6 DEF Magnitude
  <2>6. QED
    BY <1>1, <1>6, <1>12, <2>3, <2>4, <2>5
<1>14. Scale * Magnitude(R + x) <= P * ((T + Q) - left)
  <2>1. /\ Magnitude(R) \in Nat /\ Magnitude(x) \in Nat /\ Magnitude(R + x) \in Nat
        /\ Magnitude(R + x) <= Magnitude(R) + Magnitude(x)
        /\ Magnitude(won) \in Nat
    BY <1>1, <1>6, <1>12 DEF Magnitude
  <2>2. /\ Scale * Magnitude(R + x) <= Scale * (Magnitude(R) + Magnitude(x))
        /\ Scale * Magnitude(R + x) \in Nat
    BY <1>1, <2>1, TimesMonotone
  <2>3. /\ Scale * (Magnitude(R) + Magnitude(x)) = Scale * Magnitude(R) + Scale * Magnitude(x)
        /\ Scale * Magnitude(R) \in Nat /\ Scale * Magnitude(x) \in Nat
    BY <1>1, <2>1
  <2>4. T - open \in Nat /\ (T - open) + c \in Nat /\ (T + Q) - left \in Nat
        /\ (T - open) + c <= (T + Q) - left
    BY <1>2, <1>3
  <2>5. /\ P * ((T - open) + c) = P * (T - open) + P * c
        /\ P * (T - open) \in Nat /\ P * c \in Nat
    BY <1>2, <2>4
  <2>6. /\ P * ((T - open) + c) <= P * ((T + Q) - left)
        /\ P * ((T - open) + c) \in Nat /\ P * ((T + Q) - left) \in Nat
    BY <2>4, TimesMonotone
  <2>7. Scale * Magnitude(x) <= P * c
    BY <1>6, <1>12, <2>1, <2>3, <2>5
  <2>8. Scale * Magnitude(R) + Scale * Magnitude(x) <= P * (T - open) + P * c
    BY <1>3, <2>3, <2>5, <2>7
  <2>9. QED
    BY <2>2, <2>3, <2>5, <2>6, <2>8
<1>15. /\ L + rounding \in Nat
       /\ Magnitude(Scale * (R + x) - ((C - paid) + then)) <= L + rounding
  <2>1. Scale * (R + x) = Scale * R + Scale * x /\ Scale * R \in Int
    BY <1>1, <1>12
  <2> DEFINE sr == Scale * R
             sx == Scale * x
  <2>2. sr \in Int /\ sx \in Int /\ Scale * (R + x) = sr + sx
    BY <1>12, <2>1
  <2>3. Magnitude(sr - (C + value)) <= L /\ Magnitude(won - sx) <= Scale - 1
    BY <1>3, <1>12
  <2>4. x = 0 => sx = 0
    BY <1>1
  <2> HIDE DEF sr, sx
  <2>5. CASE q # 0 /\ SameDirection(q, signed)
    <3>1. sx = 0 /\ rounding = open + (quantity - 1)
          /\ Magnitude(value - (then - paid)) <= open + (quantity - 1)
      BY <1>8, <1>10, <1>13, <2>4, <2>5
    <3>2. Magnitude((sr + sx) - ((C - paid) + then)) <= L + rounding
      BY <1>1, <1>2, <1>5, <2>2, <2>3, <3>1 DEF Magnitude
    <3>3. QED
      BY <1>1, <1>2, <2>2, <3>1, <3>2
  <2>6. CASE q = 0 \/ ~SameDirection(q, signed)
    <3>1. rounding = Scale - 1 /\ then - paid = value + won
      BY <1>8, <1>9, <2>6
    <3>2. Magnitude((sr + sx) - ((C - paid) + then)) <= L + rounding
      BY <1>1, <1>5, <1>6, <2>2, <2>3, <3>1 DEF Magnitude
    <3>3. QED
      BY <1>1, <2>2, <3>1, <3>2
  <2>7. QED
    BY <2>5, <2>6
<1>16. R + x \in Int /\ C - paid \in Int
  BY <1>1, <1>12
<1>17. left <= T + Q
  BY <1>2, <1>3
<1>18. Magnitude(after.quantity) = left
  BY <1>4 DEF left
<1>19. Balanced(after, R + x, C - paid, L + rounding, T + Q, P)
  BY <1>4, <1>14, <1>15, <1>16, <1>17, <1>18 DEF Balanced, then
<1>20. QED
  BY <1>7, <1>19 DEF paid, rounding
-----------------------------------------------------------------------------
(* What an execution costs, and what all of them brought in.               *)
Flow(t, i) == IF t.instrument = i THEN Signed(t.side, t.quantity) * t.price ELSE 0

CashOf(ts, i) == -SumFunction([k \in DOMAIN ts |-> Flow(ts[k], i)])

LEMMA CashIsCashOf == ASSUME NEW i PROVE Cash(i) = CashOf(trades, i)
BY DEF Cash, CashOf, Flow

(* One more execution pays its price.                                      *)
LEMMA CashAppended ==
  ASSUME NEW ts \in Seq(Executions), NEW t \in Executions, NEW i
  PROVE  /\ CashOf(ts, i) \in Int /\ Flow(t, i) \in Int
         /\ CashOf(Append(ts, t), i) = CashOf(ts, i) - Flow(t, i)
<1> DEFINE n == Len(ts)
           us == Append(ts, t)
           f == [k \in DOMAIN ts |-> Flow(ts[k], i)]
           g == [k \in DOMAIN us |-> Flow(us[k], i)]
<1>1. /\ n \in Nat /\ DOMAIN ts = 1..n /\ DOMAIN us = 1..(n + 1) /\ us[n + 1] = t
      /\ \A k \in 1..n : us[k] = ts[k] /\ ts[k] \in Executions
  OBVIOUS
<1>2. ASSUME NEW u \in Executions PROVE Flow(u, i) \in Int
  <2>1. u.side \in Sides /\ u.quantity \in Int /\ u.price \in Int
    BY DEF Executions
  <2>2. Signed(u.side, u.quantity) \in Int
    BY <2>1, SignedType
  <2>3. Signed(u.side, u.quantity) * u.price \in Int
    BY <2>1, <2>2
  <2>4. QED
    BY <2>3 DEF Flow
<1>3. /\ \A k \in 1..n : f[k] \in Int /\ g[k] = f[k]
      /\ g[n + 1] = Flow(t, i)
  <2>1. \A k \in 1..n : f[k] = Flow(ts[k], i) /\ g[k] = Flow(ts[k], i)
    BY <1>1
  <2>2. g[n + 1] = Flow(t, i)
    BY <1>1
  <2> HIDE DEF f, g
  <2>3. QED
    BY <1>1, <1>2, <2>1, <2>2
<1>4. DOMAIN f = 1..n /\ DOMAIN g = 1..(n + 1)
  BY <1>1
<1>5. CashOf(ts, i) = -SumFunction(f) /\ CashOf(us, i) = -SumFunction(g)
  BY DEF CashOf
<1>6. Flow(t, i) \in Int
  BY <1>2
<1> HIDE DEF f, g, n, us
<1>7. SumFunction(f) \in Int /\ SumFunction(g) = SumFunction(f) + Flow(t, i)
  BY <1>1, <1>3, <1>4, <1>6, SumOneMore
<1>8. QED
  BY <1>5, <1>6, <1>7 DEF us

(* No price is above P and no quantity above Q, and all executions of a    *)
(* behaviour together are worth less than half a word, as a price.         *)
TurnoverFits(P, Q) ==
  /\ \A p \in Prices \cup MarketPrices : p <= P
  /\ \A q \in Quantities : q <= Q
  /\ P * (Q * MaxTrades) < Scale * Half

BooksBalanced(P, Q) ==
  /\ Len(trades) <= MaxTrades
  /\ realized \in [Instruments -> Int] /\ lost \in [Instruments -> Nat]
  /\ \A i \in Instruments :
       Balanced(positions[i], realized[i], CashOf(trades, i), lost[i], Q * Len(trades), P)

(* The books go on being right while more is traded, of others.            *)
LEMMA BalanceStays ==
  ASSUME NEW position, Consistent(position), NEW R, NEW C, NEW L, NEW T \in Nat,
         NEW P \in Nat, NEW Q \in Nat, Balanced(position, R, C, L, T, P)
  PROVE  Balanced(position, R, C, L, T + Q, P)
<1> DEFINE open == Magnitude(position.quantity)
<1>1. open \in Nat /\ open <= T /\ R \in Int
  BY DEF Consistent, PositionType, Magnitude, Balanced
<1> HIDE DEF open
<1>2. T - open \in Nat /\ (T + Q) - open \in Nat /\ T - open <= (T + Q) - open /\ open <= T + Q
  BY <1>1
<1>3. /\ P * (T - open) <= P * ((T + Q) - open)
      /\ P * (T - open) \in Nat /\ P * ((T + Q) - open) \in Nat
  BY <1>2, TimesMonotone
<1>4. Scale * Magnitude(R) <= P * (T - open)
  BY DEF Balanced, open
<1>5. Scale * Magnitude(R) \in Int
  <2>1. Magnitude(R) \in Int /\ Scale \in Int
    BY <1>1, ScaleAssumption DEF Magnitude
  <2>2. QED
    BY <2>1
<1>6. Scale * Magnitude(R) <= P * ((T + Q) - open)
  BY <1>3, <1>4, <1>5
<1>7. QED
  BY <1>2, <1>6 DEF Balanced, open

LEMMA InitBooksBalanced ==
  ASSUME NEW P \in Nat, NEW Q \in Nat, AccountInit
  PROVE  BooksBalanced(P, Q)
<1>1. /\ trades = <<>> /\ positions = [i \in Instruments |-> Flat]
      /\ realized = [i \in Instruments |-> 0] /\ lost = [i \in Instruments |-> 0]
  BY DEF AccountInit, Init
<1>2. Len(trades) = 0 /\ MaxTrades \in Nat /\ Q * Len(trades) = 0
  BY <1>1, MaxTradesAssumption
<1>3. ASSUME NEW i PROVE CashOf(trades, i) = 0
  <2>1. DOMAIN [k \in DOMAIN trades |-> Flow(trades[k], i)] = {}
    BY <1>1
  <2>2. SumFunction([k \in DOMAIN trades |-> Flow(trades[k], i)]) = 0
    BY <2>1, SumOfNothing
  <2>3. CashOf(trades, i) = -SumFunction([k \in DOMAIN trades |-> Flow(trades[k], i)])
    BY Zenon DEF CashOf
  <2>4. \A s \in Int : -s = 0 - s
    OBVIOUS
  <2>5. CashOf(trades, i) = 0 - 0
    BY <2>2, <2>3, <2>4, 0 \in Int, Zenon
  <2>6. QED
    BY <2>5
<1>4. Balanced(Flat, 0, 0, 0, 0, P)
  <2>1. Scale * 0 = 0 /\ P * (0 - 0) = 0 /\ Magnitude(0) = 0
    BY ScaleAssumption DEF Magnitude
  <2>2. QED
    BY <2>1 DEF Balanced, Flat
<1>5. QED
  BY <1>1, <1>2, <1>3, <1>4 DEF BooksBalanced

LEMMA NextBooksBalanced ==
  ASSUME NEW P \in Nat, NEW Q \in Nat, TurnoverFits(P, Q),
         PositionsSound, BooksBalanced(P, Q), [AccountNext]_accountVars
  PROVE  BooksBalanced(P, Q)'
<1>1. CASE Execution
  <2>1. PICK t \in Executions :
          /\ t.price \in Prices /\ t.quantity \in Quantities
          /\ Len(trades) < MaxTrades
          /\ trades' = Append(trades, t)
          /\ positions' = [positions EXCEPT ![t.instrument] =
                             ApplyTrade(@, t.side, t.price, t.quantity)]
          /\ Book(t.instrument, t.side, t.price, t.quantity)
    BY <1>1, ExecutionIs
  <2> DEFINE j == t.instrument
             T == Q * Len(trades)
  <2>2. /\ j \in Instruments /\ t.side \in Sides
        /\ t.price \in Nat \ {0} /\ t.quantity \in Nat \ {0}
    BY DEF Executions
  <2>3. /\ trades \in Seq(Executions) /\ positions \in [Instruments -> PositionType]
        /\ \A i \in Instruments : Consistent(positions[i])
    BY DEF PositionsSound
  <2>4. /\ Len(trades') = Len(trades) + 1 /\ Len(trades) \in Nat /\ MaxTrades \in Nat
        /\ T \in Nat
    BY <2>1, <2>3, MaxTradesAssumption
  <2>5. Q * Len(trades') = T + Q
    BY <2>4
  <2>6. P * (T + Q) < Scale * Half
    <3>1. Len(trades') \in Nat /\ Len(trades') <= MaxTrades
      BY <2>1, <2>4
    <3>2. Q * Len(trades') <= Q * MaxTrades /\ Q * Len(trades') \in Nat /\ Q * MaxTrades \in Nat
      BY <2>4, <3>1, TimesMonotone
    <3>3. /\ P * (T + Q) <= P * (Q * MaxTrades)
          /\ P * (T + Q) \in Nat /\ P * (Q * MaxTrades) \in Nat
      BY <2>5, <3>2, TimesMonotone
    <3>4. Scale * Half \in Nat
      BY HalfType, ScaleAssumption
    <3>5. P * (Q * MaxTrades) < Scale * Half
      BY DEF TurnoverFits
    <3>6. QED
      BY <3>3, <3>4, <3>5
  <2>7. t.price <= P /\ t.quantity <= Q
    BY <2>1 DEF TurnoverFits
  <2>8. \A i \in Instruments :
          Balanced(positions[i], realized[i], CashOf(trades, i), lost[i], T, P)
    BY DEF BooksBalanced
  <2>9. /\ realized \in [Instruments -> Int] /\ lost \in [Instruments -> Nat]
    BY DEF BooksBalanced
  <2>10. /\ realized'[j] = realized[j]
                + CalculateRealized(positions[j], "Trade", t.side, t.price, t.quantity)
         /\ lost'[j] = lost[j] + Rounding(positions[j], t.side, t.quantity)
         /\ positions'[j] = ApplyTrade(positions[j], t.side, t.price, t.quantity)
         /\ \A i \in Instruments : i # j =>
              realized'[i] = realized[i] /\ lost'[i] = lost[i] /\ positions'[i] = positions[i]
         /\ DOMAIN realized' = Instruments /\ DOMAIN lost' = Instruments
         /\ realized' = [i \in Instruments |-> realized'[i]]
         /\ lost' = [i \in Instruments |-> lost'[i]]
    BY <2>1, <2>2, <2>3, <2>9 DEF Book
  <2>11. \A i : CashOf(trades', i) = CashOf(trades, i) - Flow(t, i) /\ CashOf(trades, i) \in Int
    BY <2>1, <2>3, CashAppended
  <2> HIDE DEF T
  <2>12. Balanced(positions'[j], realized'[j], CashOf(trades', j), lost'[j], T + Q, P)
    <3>1. CashOf(trades', j) = CashOf(trades, j) - Signed(t.side, t.quantity) * t.price
      BY <2>11 DEF Flow
    <3>2. /\ Consistent(positions[j])
          /\ Balanced(positions[j], realized[j], CashOf(trades, j), lost[j], T, P)
      BY <2>2, <2>3, <2>8
    <3>3. Balanced(ApplyTrade(positions[j], t.side, t.price, t.quantity),
                   realized[j]
                     + CalculateRealized(positions[j], "Trade", t.side, t.price, t.quantity),
                   CashOf(trades, j) - Signed(t.side, t.quantity) * t.price,
                   lost[j] + Rounding(positions[j], t.side, t.quantity), T + Q, P)
      BY <2>2, <2>4, <2>6, <2>7, <3>2, BookKeepsBalance
    <3>4. QED
      BY <2>10, <3>1, <3>3
  <2>13. ASSUME NEW i \in Instruments, i # j
         PROVE  Balanced(positions'[i], realized'[i], CashOf(trades', i), lost'[i], T + Q, P)
    <3>1. CashOf(trades', i) = CashOf(trades, i)
      <4>1. Flow(t, i) = 0
        BY <2>13 DEF Flow
      <4>2. QED
        BY <2>11, <4>1
    <3>2. Balanced(positions[i], realized[i], CashOf(trades, i), lost[i], T + Q, P)
      BY <2>3, <2>4, <2>8, BalanceStays
    <3>3. QED
      BY <2>10, <2>13, <3>1, <3>2
  <2>14. \A i \in Instruments :
           Balanced(positions'[i], realized'[i], CashOf(trades', i), lost'[i], T + Q, P)
    BY <2>12, <2>13
  <2>15. realized' \in [Instruments -> Int] /\ lost' \in [Instruments -> Nat]
    <3>1. \A i \in Instruments : realized'[i] \in Int /\ lost'[i] \in Nat
      BY <2>14 DEF Balanced
    <3>2. QED
      BY <2>10, <3>1
  <2>16. Len(trades') <= MaxTrades
    BY <2>1, <2>4
  <2>17. QED
    BY <2>5, <2>14, <2>15, <2>16 DEF BooksBalanced
<1>2. CASE PublicTrade
  BY <1>2 DEF PublicTrade, OnPublicTrade, BooksBalanced
<1>3. CASE UNCHANGED accountVars
  BY <1>3 DEF accountVars, BooksBalanced
<1>4. QED
  BY <1>1, <1>2, <1>3 DEF AccountNext

(* What the calculator says the open position is worth, at any price.      *)
LEMMA BalancedAccountsForCash ==
  ASSUME NEW position, Consistent(position), NEW R, NEW C, NEW L, NEW T \in Nat,
         NEW P \in Nat, Balanced(position, R, C, L, T, P), P * T < Scale * Half,
         NEW price \in Nat, price <= P,
         NEW U, U = IF position.quantity = 0 THEN 0
                    ELSE FromProduct(Gain(position, price), Magnitude(position.quantity))
  PROVE  Magnitude(Scale * Narrow(R + U) - (C + position.quantity * price)) <= L + (Scale - 1)
<1> DEFINE q == position.quantity
           a == position.averagePrice
           open == Magnitude(q)
           won == Gain(position, price) * open
           value == q * a
           worth == q * price
<1>1. /\ q \in Int /\ a \in Nat /\ position \in PositionType /\ open \in Nat
      /\ R \in Int /\ C \in Int /\ L \in Nat /\ a <= P /\ open <= T
      /\ Scale \in Nat \ {0} /\ Half \in Nat \ {0}
  BY ScaleAssumption, HalfType DEF Consistent, PositionType, Balanced, Magnitude
<1>2. value \in Int /\ worth \in Int
  BY <1>1
<1>3. /\ Scale * Magnitude(R) <= P * (T - open)
      /\ Magnitude(Scale * R - (C + value)) <= L
  BY DEF Balanced
<1>4. won \in Int /\ Magnitude(won) <= P * open
  BY <1>1, GainBounded
<1>5. worth - value = won
  <2>1. (price - a) * q = worth - value
    BY <1>1
  <2>2. CASE q >= 0
    <3>1. open = q
      BY <1>1, <2>2 DEF Magnitude
    <3>2. CASE q = 0
      <4>1. Gain(position, price) \in Int
        BY <1>1 DEF Gain
      <4>2. won = 0 /\ worth = 0 /\ value = 0
        BY <1>1, <3>1, <3>2, <4>1
      <4>3. QED
        BY <4>2
    <3>3. CASE q > 0
      <4>1. won = (price - a) * q
        BY <3>1, <3>3 DEF Gain
      <4>2. QED
        BY <2>1, <4>1
    <3>4. QED
      BY <1>1, <2>2, <3>2, <3>3
  <2>3. CASE q < 0
    <3>1. won = (a - price) * (-q)
      BY <1>1, <2>3 DEF Magnitude, Gain
    <3>2. (a - price) * (-q) = (price - a) * q
      BY <1>1
    <3>3. QED
      BY <2>1, <3>1, <3>2
  <2>4. QED
    BY <1>1, <2>2, <2>3
<1>6. /\ P * (T - open) + P * open = P * T
      /\ P * (T - open) \in Nat /\ P * open \in Nat /\ P * T \in Nat
  <2>1. T - open \in Nat
    BY <1>1
  <2>2. P * (T - open) + P * open = P * T
    BY <1>1
  <2>3. QED
    BY <1>1, <2>1, <2>2
<1> HIDE DEF q, a, open, won, value, worth
<1>7. Magnitude(won) < Scale * Half /\ Magnitude(won) \in Nat
  <2>1. Magnitude(won) \in Nat /\ Scale * Half \in Nat
    BY <1>1, <1>4 DEF Magnitude
  <2>2. QED
    BY <1>4, <1>6, <2>1
<1>8. /\ U \in Int /\ Scale * U \in Int
      /\ Magnitude(won - Scale * U) <= Scale - 1
      /\ Scale * Magnitude(U) <= P * open
  <2>1. CASE q = 0
    <3>1. U = 0 /\ Scale * 0 = 0
      BY <1>1, <2>1 DEF q
    <3>2. won = 0
      BY <1>1, <1>4, <1>5, <2>1 DEF worth, value
    <3>3. Magnitude(0) = 0 /\ Magnitude(0 - 0) = 0
      BY DEF Magnitude
    <3>4. U \in Int /\ Scale * U = 0
      BY <3>1
    <3>5. Magnitude(won - Scale * U) = 0 /\ Scale * Magnitude(U) = 0
      BY <3>1, <3>2, <3>3, <3>4
    <3>6. QED
      BY <1>1, <1>6, <3>4, <3>5
  <2>2. CASE q # 0
    <3>1. U = FromProduct(Gain(position, price), open)
      BY <2>2 DEF q, open
    <3>2. Gain(position, price) \in Int
      BY <1>1 DEF Gain, q, a, PositionType
    <3>3. /\ U \in Int /\ Scale * U \in Int
          /\ Magnitude(won - Scale * U) <= Scale - 1
          /\ Scale * Magnitude(U) <= Magnitude(won)
      <4>1. Magnitude(Gain(position, price) * open) < Scale * Half
        BY <1>7 DEF won
      <4>2. open \in Int
        BY <1>1
      <4> DEFINE F == FromProduct(Gain(position, price), open)
      <4>3. /\ F \in Int /\ Scale * F \in Int
            /\ Magnitude(Gain(position, price) * open - Scale * F) <= Scale - 1
            /\ Scale * Magnitude(F) <= Magnitude(Gain(position, price) * open)
        BY <3>2, <4>1, <4>2, ProductAsPrice, Zenon
      <4>4. QED
        BY <3>1, <4>3, Zenon DEF won
    <3>4. Scale * Magnitude(U) \in Int
      <4>1. Magnitude(U) \in Int
        BY <3>3 DEF Magnitude
      <4>2. QED
        BY <1>1, <4>1
    <3>5. QED
      BY <1>4, <1>6, <1>7, <3>3, <3>4
  <2>3. QED
    BY <2>1, <2>2
<1>9. Narrow(R + U) = R + U
  <2>1. /\ Magnitude(R) \in Nat /\ Magnitude(U) \in Nat /\ Magnitude(R + U) \in Nat
        /\ Magnitude(R + U) <= Magnitude(R) + Magnitude(U)
    BY <1>1, <1>8 DEF Magnitude
  <2>2. /\ Scale * Magnitude(R + U) <= Scale * (Magnitude(R) + Magnitude(U))
        /\ Scale * Magnitude(R + U) \in Nat
    BY <1>1, <2>1, TimesMonotone
  <2>3. /\ Scale * (Magnitude(R) + Magnitude(U)) = Scale * Magnitude(R) + Scale * Magnitude(U)
        /\ Scale * Magnitude(R) \in Nat /\ Scale * Magnitude(U) \in Nat
    BY <1>1, <2>1
  <2>4. Scale * Half \in Nat
    BY <1>1
  <2>5. Scale * Magnitude(R + U) < Scale * Half
    BY <1>3, <1>6, <1>8, <2>2, <2>3, <2>4
  <2>6. QED
    BY <1>1, <1>8, <2>5, ScaledFits, NarrowFits
<1>10. Magnitude(Scale * (R + U) - (C + worth)) <= L + (Scale - 1)
  <2>1. Scale * (R + U) = Scale * R + Scale * U /\ Scale * R \in Int
    BY <1>1, <1>8
  <2> DEFINE sr == Scale * R
             su == Scale * U
  <2>2. sr \in Int /\ su \in Int /\ Scale * (R + U) = sr + su
    BY <1>8, <2>1
  <2>3. Magnitude(sr - (C + value)) <= L /\ Magnitude(won - su) <= Scale - 1
    BY <1>3, <1>8
  <2> HIDE DEF sr, su
  <2>4. Magnitude((sr + su) - (C + worth)) <= L + (Scale - 1)
    BY <1>1, <1>2, <1>4, <1>5, <2>2, <2>3 DEF Magnitude
  <2>5. QED
    BY <2>2, <2>4
<1>11. QED
  BY <1>9, <1>10 DEF worth, q

(* Realized and unrealized profit account for the cash, whatever was       *)
(* traded, as long as all of it together fits: nothing is counted twice or *)
(* forgotten, up to what the roundings on the way can have cost.           *)
THEOREM CashIsKept ==
  ASSUME NEW P \in Nat, NEW Q \in Nat, TurnoverFits(P, Q)
  PROVE  AccountSpec => []CashIsAccountedFor
<1>1. PositionsSound /\ BooksBalanced(P, Q) => CashIsAccountedFor
  <2> SUFFICES ASSUME PositionsSound, BooksBalanced(P, Q),
                      NEW i \in Instruments, NEW p \in MarketPrices
               PROVE  LET order  == [price |-> p, quantity |-> 1]
                          market == [bid |-> order, ask |-> order]
                          pnl    == [realized   |-> realized[i],
                                     unrealized |-> CalculateUnrealized(positions[i], market)]
                      IN  Magnitude(Scale * Total(pnl) - (Cash(i) + positions[i].quantity * p))
                            <= lost[i] + Scale - 1
    BY DEF CashIsAccountedFor
  <2> DEFINE order == [price |-> p, quantity |-> 1]
             market == [bid |-> order, ask |-> order]
             U == CalculateUnrealized(positions[i], market)
             T == Q * Len(trades)
  <2>1. U = IF positions[i].quantity = 0 THEN 0
            ELSE FromProduct(Gain(positions[i], p), Magnitude(positions[i].quantity))
    BY DEF CalculateUnrealized
  <2>2. /\ p \in Nat /\ p <= P
    BY MarketAssumption DEF TurnoverFits
  <2>3. /\ Consistent(positions[i])
        /\ Balanced(positions[i], realized[i], CashOf(trades, i), lost[i], T, P)
        /\ trades \in Seq(Executions) /\ Len(trades) <= MaxTrades /\ MaxTrades \in Nat
    BY MaxTradesAssumption DEF PositionsSound, BooksBalanced
  <2>4. T \in Nat /\ Len(trades) \in Nat
    BY <2>3
  <2>5. P * T < Scale * Half
    <3>1. Q * Len(trades) <= Q * MaxTrades /\ Q * MaxTrades \in Nat
      BY <2>3, <2>4, TimesMonotone
    <3>2. P * T <= P * (Q * MaxTrades) /\ P * T \in Nat /\ P * (Q * MaxTrades) \in Nat
      BY <2>4, <3>1, TimesMonotone
    <3>3. P * (Q * MaxTrades) < Scale * Half /\ Scale * Half \in Nat
      BY HalfType, ScaleAssumption DEF TurnoverFits
    <3>4. QED
      BY <3>2, <3>3
  <2> HIDE DEF U, T
  <2>6. Magnitude(Scale * Narrow(realized[i] + U)
                    - (CashOf(trades, i) + positions[i].quantity * p))
          <= lost[i] + (Scale - 1)
    BY <2>1, <2>2, <2>3, <2>4, <2>5, BalancedAccountsForCash
  <2>7. lost[i] + Scale - 1 = lost[i] + (Scale - 1)
    BY <2>3, ScaleAssumption DEF Balanced
  <2>8. Total([realized |-> realized[i], unrealized |-> U]) = Narrow(realized[i] + U)
    BY DEF Total
  <2>9. QED
    BY <2>6, <2>7, <2>8, CashIsCashOf DEF U
<1>2. AccountInit => BooksBalanced(P, Q)
  BY InitBooksBalanced
<1>3. /\ PositionsSound /\ BooksBalanced(P, Q) /\ [AccountNext]_accountVars
      => BooksBalanced(P, Q)'
  BY NextBooksBalanced
<1>4. QED
  BY <1>1, <1>2, <1>3, InitPositionsSound, NextPositionsSound, PTL DEF AccountSpec
=============================================================================
