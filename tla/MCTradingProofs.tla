--------------------------- MODULE MCTradingProofs ---------------------------
(***************************************************************************)
(* The composition of MCTrading, for every value of its constants: what    *)
(* holds of the strategies and of the order alone holds of the node that   *)
(* runs one of them.  A node with an example strategy sends no pending     *)
(* order and one with a pending order runs no example, so each part either *)
(* takes a step of its own or stands still.                                *)
(***************************************************************************)
EXTENDS MCTrading, ExampleStrategiesProofs, MT5OrdersProofs

(* Which examples there are, and a node that runs none of them. *)
Examples == {"fvg", "live", "sma"}
NoExample == script = "orders" /\ hedging = FALSE /\ TradingInit

(* The inductive invariant: the order's, and that of the example that      *)
(* runs, if one does.                                                      *)
NodeInv ==
  /\ OrdersInv
  /\ \/ NoExample
     \/ script \in Examples /\ TypeInv /\ BooksInv /\ FlightInv

LEMMA NodeInvInit == MCTradingInit => NodeInv
<1> SUFFICES ASSUME MCTradingInit PROVE NodeInv
  OBVIOUS
<1>1. OrdersInv /\ TradingInit
  BY OrdersInvInit DEF MCTradingInit
<1>2. CASE script = "orders"
  BY <1>1, <1>2 DEF MCTradingInit, NodeInv, NoExample
<1>3. CASE script \in Examples
  <2>1. hedging \in BOOLEAN
    BY <1>3 DEF MCTradingInit, Examples
  <2>2. TypeInv /\ BooksInv /\ FlightInv
    BY <1>1, <1>3, <2>1, TypeInvInit, BooksInvInit, FlightInvInit DEF Examples
  <2> QED BY <1>1, <1>3, <2>2 DEF NodeInv
<1> QED BY <1>2, <1>3 DEF MCTradingInit, Examples

(* A step of the example leaves it well, and still an example. *)
LEMMA ExampleSteps ==
  ASSUME TypeInv, BooksInv, FlightInv, [TradingNext]_tradingVars
  PROVE  script' \in Examples /\ TypeInv' /\ BooksInv' /\ FlightInv'
<1>1. TypeInv' /\ BooksInv' /\ FlightInv'
  BY TypeInvStep, BooksInvStep, FlightInvStep
<1>2. script' \in Examples
  BY <1>1 DEF TypeInv, StrategyType, Examples
<1> QED BY <1>1, <1>2

LEMMA NothingTraded ==
  ASSUME NoExample, UNCHANGED tradingVars
  PROVE  NoExample'
BY DEF NoExample, TradingInit, tradingVars, strategyVars, marketVars

LEMMA NodeInvStep ==
  NodeInv /\ [MCTradingNext]_<<tradingVars, orderVars>> => NodeInv'
<1> SUFFICES ASSUME NodeInv, [MCTradingNext]_<<tradingVars, orderVars>>
             PROVE  NodeInv'
  OBVIOUS
<1>1. /\ [OrdersNext]_orderVars
      /\ [script # "orders" /\ TradingNext]_tradingVars
  BY DEF MCTradingNext
<1>2. OrdersInv'
  BY <1>1, OrdersInvStep DEF NodeInv
<1>3. CASE NoExample
  <2>1. UNCHANGED tradingVars
    BY <1>1, <1>3 DEF NoExample
  <2> QED BY <1>2, <1>3, <2>1, NothingTraded DEF NodeInv
<1>4. CASE script \in Examples /\ TypeInv /\ BooksInv /\ FlightInv
  <2>1. [TradingNext]_tradingVars
    BY <1>1
  <2> QED BY <1>2, <1>4, <2>1, ExampleSteps DEF NodeInv
<1> QED BY <1>3, <1>4 DEF NodeInv

LEMMA NodeInvAlways == MCTradingSpec => []NodeInv
BY NodeInvInit, NodeInvStep, PTL DEF MCTradingSpec

-----------------------------------------------------------------------------
(* Before the first bar everything a strategy is to keep is kept. *)
LEMMA IdleIsWell ==
  ASSUME NoExample
  PROVE  TradingTypeOK /\ FlagTellsTruth /\ StatsAgree
<1> USE DEF NoExample, TradingInit
<1>1. TradingTypeOK
  <2>1. count \in 0..WarmupBars /\ entries \in 0..MaxEntries
    BY StrategiesAssumption
  <2> QED BY <2>1 DEF TradingTypeOK
<1>2. FlagTellsTruth
  BY DEF FlagTellsTruth, Wanted, Abs
<1>3. StatsAgree
  BY DEF StatsAgree, NetPnl, Equity, Abs
<1> QED BY <1>1, <1>2, <1>3

(* The types of both parts, whichever the node runs. *)
THEOREM NodeTypeCorrect == MCTradingSpec => []MCTypeOK
<1>1. NodeInv => MCTypeOK
  BY IdleIsWell, TypesHold DEF NodeInv, OrdersInv, MCTypeOK
<1> QED BY <1>1, NodeInvAlways, PTL

(* What was shown of an example strategy holds in the node: its statistics *)
(* add up and its flag is the broker's truth ...                           *)
THEOREM NodeStrategyWell == MCTradingSpec => [](FlagTellsTruth /\ StatsAgree)
<1>1. NodeInv => FlagTellsTruth /\ StatsAgree
  BY IdleIsWell, FlagHolds, StatsHold DEF NodeInv, BooksInv
<1> QED BY <1>1, NodeInvAlways, PTL

(* ... and so does what was shown of an order: it works as it was asked    *)
(* for, is reported as it works, and keeps its stop loss from a command    *)
(* that names none.                                                        *)
THEOREM NodeOrderWell == MCTradingSpec => [](WorksAsAsked /\ ReportsTrue) /\ StopKept
<1>1. NodeInv => OrdersInv /\ WorksAsAsked /\ ReportsTrue
  BY ReportsHold DEF NodeInv, OrdersInv
<1>2. OrdersInv => [StopStays]_orderVars
  BY StopStep
<1> QED BY <1>1, <1>2, NodeInvAlways, PTL DEF StopKept, StopStays

=============================================================================
