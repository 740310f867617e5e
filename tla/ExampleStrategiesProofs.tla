----------------------- MODULE ExampleStrategiesProofs -----------------------
(***************************************************************************)
(* The example strategies, for every set of bars, every parameter of the   *)
(* strategies and any number of entries: their statistics add up, and,     *)
(* where nothing goes wrong, their flag, the engine and the broker agree   *)
(* once nothing is under way.                                              *)
(***************************************************************************)
EXTENDS ExampleStrategies, SequenceTheorems, TLAPS

Directions == {"BUY", "SELL"}
Zones == [side : Directions, low : Int, high : Int, stop : Int, age : Nat]
Trades ==
  IF script = "sma"
    THEN [side : Directions]
    ELSE [side : Directions, entry : Int, stop : Int, target : Int]
Books ==
  [trades : Nat, wins : Nat, losses : Nat, won : Int, lost : Int, beyond : BOOLEAN]

(* What a strategy keeps ... *)
StrategyType ==
  /\ script \in {"fvg", "live", "sma"}
  /\ phase \in {"new", "running", "deaf", "stopped"}
  /\ count \in 0..WarmupBars
  /\ recent \in Seq(Bars) /\ Len(recent) <= 2
  /\ zone \in {NoZone} \cup Zones
  /\ zone # NoZone => trade = NoTrade /\ zone.low < zone.high
  /\ trade \in {NoTrade} \cup Trades
  /\ trade # NoTrade => entries > 0
  /\ stats \in Books
  /\ entries \in 0..MaxEntries
  /\ script = "sma" => zone = NoZone

(* ... and what engine and broker keep of it. *)
MarketType ==
  /\ sent \in Seq(Int)
  /\ unseen \in Seq(Int)
  /\ known \in Int
  /\ other \in Int
  /\ hedging \in BOOLEAN
  /\ longs \in Nat /\ shorts \in Nat
  /\ ~hedging => longs = 0 \/ shorts = 0

TypeInv == StrategyType /\ MarketType

(* A trade that was not entered beyond its stop loses at its stop. *)
BooksInv ==
  /\ script = "fvg" /\ phase # "stopped" =>
       stats.trades = stats.wins + stats.losses + (IF trade = NoTrade THEN 0 ELSE 1)
  /\ ~stats.beyond =>
       /\ stats.lost <= 0
       /\ script = "fvg" /\ trade # NoTrade =>
            Sign(trade.side) * (trade.entry - trade.stop) > 0

(* The orders under way in the order the broker takes them: executed and   *)
(* not yet seen by the engine, then waiting.                               *)
UnderWay == Len(unseen) + Len(sent)
Order(i) == IF i <= Len(unseen) THEN unseen[i] ELSE sent[i - Len(unseen)]

(* At most two orders are under way.  The engine's position with them      *)
(* is what the strategy wants, and with the first alone it is one trade    *)
(* size at most; the broker's is the engine's with what was executed.      *)
FlightInv ==
  mishap = "none" =>
    /\ UnderWay <= 2
    /\ known \in -1..1
    /\ UnderWay = 0 => known = Wanted
    /\ UnderWay = 1 => known + Order(1) = Wanted
    /\ UnderWay = 2 => /\ known + Order(1) \in -1..1
                       /\ known + Order(1) + Order(2) = Wanted
    /\ Len(unseen) = 0 => longs - shorts = known
    /\ Len(unseen) = 1 => longs - shorts = known + unseen[1]
    /\ Len(unseen) = 2 => longs - shorts = known + unseen[1] + unseen[2]
    /\ trade = NoTrade /\ phase # "stopped" => UnderWay <= 1

-----------------------------------------------------------------------------
(* Records with and without a position, and what is made of them. *)

LEMMA RecordFacts ==
  /\ \A z \in Zones : z # NoZone
  /\ StrategyType /\ trade # NoTrade => trade \in Trades /\ trade.side \in Directions
  /\ StrategyType /\ zone # NoZone => zone \in Zones
<1>1. ASSUME NEW z \in Zones PROVE z # NoZone
  <2>1. z.side \in Directions
    BY DEF Zones
  <2> QED BY <2>1 DEF NoZone, Directions
<1>2. ASSUME StrategyType, trade # NoTrade PROVE trade \in Trades /\ trade.side \in Directions
  BY <1>2 DEF StrategyType, Trades
<1>3. ASSUME StrategyType, zone # NoZone PROVE zone \in Zones
  BY <1>3 DEF StrategyType
<1> QED BY <1>1, <1>2, <1>3

LEMMA TradesAreTrades == \A t \in Trades : t # NoTrade
<1> SUFFICES ASSUME NEW t \in Trades PROVE t # NoTrade
  OBVIOUS
<1>1. t.side \in Directions
  BY DEF Trades
<1> QED BY <1>1 DEF NoTrade, Directions

LEMMA SignIs == \A side : Sign(side) \in {1, -1}
BY DEF Sign

LEMMA CloseOrdersType ==
  ASSUME TypeInv
  PROVE  CloseOrders \in Seq(Int)
<1>1. ASSUME NEW p, NEW v \in Int PROVE Closing(p, v) \in Seq(Int)
  BY DEF Closing
<1>2. known \in Int /\ other \in Int /\ script \in {"fvg", "live", "sma"}
  BY DEF TypeInv, StrategyType, MarketType
<1>3. /\ -known \in Int /\ -other \in Int
      /\ -Sign(trade.side) * Abs(known) \in Int
      /\ -Sign(trade.side) * Abs(other) \in Int
  BY <1>2, SignIs DEF Abs
<1>4. CASE script = "fvg"
  <2>1. CloseOrders = Closing(known, -Sign(trade.side) * Abs(known)) \o
                      Closing(other, -Sign(trade.side) * Abs(other))
    BY <1>4 DEF CloseOrders
  <2> QED BY <1>1, <1>3, <2>1, ConcatProperties
<1>5. CASE script = "sma"
  <2>1. CloseOrders = Closing(known, -known) \o Closing(other, -other)
    BY <1>5 DEF CloseOrders
  <2> QED BY <1>1, <1>3, <2>1, ConcatProperties
<1>6. CASE script = "live"
  <2>1. CloseOrders = Closing(known, -known)
    BY <1>6 DEF CloseOrders
  <2> QED BY <1>1, <1>3, <2>1
<1> QED BY <1>2, <1>4, <1>5, <1>6

(* _detect_fvg() makes a gap with room between its edges, or none. *)
LEMMA DetectedIsGap ==
  ASSUME StrategyType, Len(recent) = 2, NEW c \in Bars
  PROVE  Detected(c) # NoZone =>
           /\ Detected(c) \in Zones
           /\ Detected(c).low < Detected(c).high
           /\ Detected(c).age = 0
<1>1. recent[1] \in Bars /\ recent[2] \in Bars
  BY DEF StrategyType
<1> DEFINE a == recent[1]
           b == recent[2]
<1>2. /\ a.low \in Nat /\ a.high \in Nat /\ b.low \in Nat /\ b.high \in Nat
      /\ c.low \in Nat /\ c.high \in Nat
  BY <1>1, StrategiesAssumption
<1> HIDE DEF a, b
<1>3. ASSUME NEW side \in Directions, NEW high \in Int, NEW low \in Int, NEW stop \in Int,
             low < high
      PROVE  /\ Gap(side, high, low, stop) \in Zones
             /\ Gap(side, high, low, stop).low < Gap(side, high, low, stop).high
             /\ Gap(side, high, low, stop).age = 0
  BY <1>3 DEF Gap, Zones
<1>4. \A n \in Int : n \div 2 \in Int
  OBVIOUS
<1>5. CASE c.high < a.low
  <2>1. Detected(c) = IF a.low - c.high >= MinGap
                        THEN Gap("BUY", a.low, c.high, b.low - (a.low - c.high) \div 2)
                        ELSE NoZone
    BY <1>5 DEF Detected, a, b
  <2>2. b.low - (a.low - c.high) \div 2 \in Int
    BY <1>2, <1>4
  <2> DEFINE gap == Gap("BUY", a.low, c.high, b.low - (a.low - c.high) \div 2)
  <2>3. gap \in Zones /\ gap.low < gap.high /\ gap.age = 0
    BY <1>2, <1>3, <1>5, <2>2 DEF Directions
  <2>4. Detected(c) = gap \/ Detected(c) = NoZone
    BY <2>1
  <2> HIDE DEF gap
  <2> QED BY <2>3, <2>4
<1>6. CASE ~(c.high < a.low) /\ c.low > a.high
  <2>1. Detected(c) = IF c.low - a.high >= MinGap
                        THEN Gap("SELL", c.low, a.high, b.high + (c.low - a.high) \div 2)
                        ELSE NoZone
    BY <1>6 DEF Detected, a, b
  <2>2. b.high + (c.low - a.high) \div 2 \in Int
    BY <1>2, <1>4
  <2> DEFINE gap == Gap("SELL", c.low, a.high, b.high + (c.low - a.high) \div 2)
  <2>3. gap \in Zones /\ gap.low < gap.high /\ gap.age = 0
    BY <1>2, <1>3, <1>6, <2>2 DEF Directions
  <2>4. Detected(c) = gap \/ Detected(c) = NoZone
    BY <2>1
  <2> HIDE DEF gap
  <2> QED BY <2>3, <2>4
<1>7. CASE ~(c.high < a.low) /\ ~(c.low > a.high)
  <2>1. Detected(c) = NoZone
    BY <1>7 DEF Detected, a, b
  <2> QED BY <2>1
<1> QED BY <1>5, <1>6, <1>7

(* A touched zone becomes a trade on its side. *)
LEMMA EnteredIsTrade ==
  ASSUME script # "sma", NEW z \in Zones, NEW bar \in Bars
  PROVE  /\ Entered(z, bar) \in Trades
         /\ Entered(z, bar).side = z.side
         /\ Entered(z, bar).entry = bar.close /\ Entered(z, bar).stop = z.stop
<1>1. z.side \in Directions /\ z.stop \in Int /\ bar.close \in Int
  BY StrategiesAssumption DEF Zones
<1>2. Abs(bar.close - z.stop) \in Int
  BY <1>1 DEF Abs
<1>3. RiskReward * Abs(bar.close - z.stop) \in Int
  BY <1>2, StrategiesAssumption
<1>4. Sign(z.side) * RiskReward * Abs(bar.close - z.stop) \in Int
  BY <1>2, <1>3, SignIs, StrategiesAssumption
<1>5. bar.close + Sign(z.side) * RiskReward * Abs(bar.close - z.stop) \in Int
  BY <1>1, <1>4
<1> QED BY <1>1, <1>5 DEF Entered, Trades

LEMMA CountedIsBooks ==
  ASSUME StrategyType, script = "fvg", trade # NoTrade, NEW bar \in Bars
  PROVE  /\ Counted(bar) \in Books
         /\ Counted(bar).trades = stats.trades /\ Counted(bar).beyond = stats.beyond
         /\ Counted(bar).wins + Counted(bar).losses = stats.wins + stats.losses + 1
         /\ Counted(bar).lost \in {stats.lost, stats.lost + Pnl(trade.stop)}
<1>1. stats \in Books
  BY DEF StrategyType
<1>2. /\ trade.entry \in Int /\ trade.stop \in Int /\ trade.target \in Int
  BY RecordFacts DEF Trades
<1>3. Pnl(trade.stop) \in Int /\ Pnl(trade.target) \in Int
  BY <1>2, SignIs DEF Pnl
<1> DEFINE won == Pnl(trade.target)
           lost == Pnl(trade.stop)
<1>4. /\ stats.trades \in Nat /\ stats.wins \in Nat /\ stats.losses \in Nat
      /\ stats.won + won \in Int /\ stats.lost + lost \in Int
  BY <1>1, <1>3 DEF Books
<1>5. CASE HitTarget(bar)
  <2>1. Counted(bar) = [stats EXCEPT !.wins = @ + 1, !.won = @ + won]
    BY <1>5 DEF Counted
  <2> HIDE DEF won, lost
  <2>3. /\ Counted(bar).trades = stats.trades
        /\ Counted(bar).wins = stats.wins + 1 /\ Counted(bar).losses = stats.losses
        /\ Counted(bar).won = stats.won + won /\ Counted(bar).lost = stats.lost
    BY <1>1, <2>1 DEF Books
  <2>4. Counted(bar).beyond = stats.beyond
    BY <1>1, <2>1 DEF Books
  <2>5. Counted(bar) \in Books
    <3>1. stats.wins + 1 \in Nat /\ stats.won + won \in Int
      BY <1>4
    <3>2. [stats EXCEPT !.wins = stats.wins + 1] \in Books
      BY <1>1, <3>1 DEF Books
    <3>3. [[stats EXCEPT !.wins = stats.wins + 1] EXCEPT !.won = stats.won + won] \in Books
      BY <3>1, <3>2 DEF Books
    <3>4. Counted(bar) =
            [[stats EXCEPT !.wins = stats.wins + 1] EXCEPT !.won = stats.won + won]
      BY <1>1, <2>1 DEF Books
    <3> QED BY <3>3, <3>4
  <2> QED BY <1>4, <2>1, <2>3, <2>4, <2>5
<1>6. CASE ~HitTarget(bar)
  <2>1. Counted(bar) = [stats EXCEPT !.losses = @ + 1, !.lost = @ + lost]
    BY <1>6 DEF Counted
  <2>2. lost = Pnl(trade.stop)
    OBVIOUS
  <2> HIDE DEF won, lost
  <2>3. /\ Counted(bar).trades = stats.trades
        /\ Counted(bar).losses = stats.losses + 1 /\ Counted(bar).wins = stats.wins
        /\ Counted(bar).lost = stats.lost + lost /\ Counted(bar).won = stats.won
    BY <1>1, <2>1 DEF Books
  <2>4. Counted(bar).beyond = stats.beyond
    BY <1>1, <2>1 DEF Books
  <2>5. Counted(bar) \in Books
    <3>1. stats.losses + 1 \in Nat /\ stats.lost + lost \in Int
      BY <1>4
    <3>2. [stats EXCEPT !.losses = stats.losses + 1] \in Books
      BY <1>1, <3>1 DEF Books
    <3>3. [[stats EXCEPT !.losses = stats.losses + 1] EXCEPT !.lost = stats.lost + lost] \in Books
      BY <3>1, <3>2 DEF Books
    <3>4. Counted(bar) =
            [[stats EXCEPT !.losses = stats.losses + 1] EXCEPT !.lost = stats.lost + lost]
      BY <1>1, <2>1 DEF Books
    <3> QED BY <3>3, <3>4
  <2> QED BY <1>4, <2>2, <2>3, <2>4, <2>5
<1> QED BY <1>5, <1>6

-----------------------------------------------------------------------------
(* Types. *)

LEMMA TypeInvInit ==
  ASSUME script \in {"fvg", "live", "sma"}, hedging \in BOOLEAN, TradingInit
  PROVE  TypeInv
<1>1. count \in 0..WarmupBars /\ entries \in 0..MaxEntries
  BY StrategiesAssumption DEF TradingInit
<1>2. recent \in Seq(Bars) /\ Len(recent) <= 2 /\ sent \in Seq(Int) /\ unseen \in Seq(Int)
  BY DEF TradingInit
<1>3. stats \in Books
  BY DEF TradingInit, Books
<1> QED BY <1>1, <1>2, <1>3 DEF TradingInit, TypeInv, StrategyType, MarketType

(* What on_bar() remembers. *)
LEMMA RememberKeeps ==
  ASSUME StrategyType, NEW bar \in Bars, Remember(bar)
  PROVE  count' \in 0..WarmupBars /\ recent' \in Seq(Bars) /\ Len(recent') <= 2
<1>1. count' \in 0..WarmupBars
  BY StrategiesAssumption DEF StrategyType, Remember
<1>2. CASE Len(recent) < 2
  BY <1>1, <1>2 DEF StrategyType, Remember
<1>3. CASE ~(Len(recent) < 2)
  <2>1. recent[2] \in Bars /\ recent' = <<recent[2], bar>>
    BY <1>3 DEF StrategyType, Remember
  <2> QED BY <1>1, <2>1
<1> QED BY <1>2, <1>3

LEMMA CheckEntryType ==
  ASSUME TypeInv, NEW bar \in Bars, script # "sma", trade = NoTrade, PendingFvg,
         entries < MaxEntries, CheckEntry(zone, bar), UNCHANGED script
  PROVE  /\ zone' \in {NoZone} \cup Zones
         /\ zone' # NoZone => trade' = NoTrade /\ zone'.low < zone'.high
         /\ (trade \in {NoTrade} \cup Trades)'
         /\ (trade # NoTrade => entries > 0)'
         /\ stats' \in Books
         /\ entries' \in 0..MaxEntries
         /\ sent' \in Seq(Int)
<1>1. zone \in Zones /\ zone.low < zone.high
  BY RecordFacts DEF PendingFvg, TypeInv, StrategyType
<1>2. /\ stats \in Books /\ entries \in 0..MaxEntries /\ sent \in Seq(Int)
  BY DEF TypeInv, StrategyType, MarketType
<1>3. CASE zone' = Aged(zone) /\ UNCHANGED <<trade, stats, sent, entries>>
  <2>1. Aged(zone) \in Zones /\ Aged(zone).low = zone.low /\ Aged(zone).high = zone.high
    BY <1>1 DEF Aged, Zones
  <2> QED BY <1>1, <1>2, <1>3, <2>1
<1>4. CASE zone' = NoZone /\ UNCHANGED <<trade, stats, sent, entries>>
  BY <1>2, <1>4
<1>5. CASE /\ bar.close # zone.stop /\ entries' = entries + 1
           /\ Market(<<Sign(zone.side)>>) /\ trade' = Entered(zone, bar)
           /\ stats' =
                IF script # "fvg" THEN stats ELSE
                  [stats EXCEPT !.trades = @ + 1,
                     !.beyond = @ \/ Sign(zone.side) * (bar.close - zone.stop) < 0]
           /\ zone' = NoZone
  <2>1. trade' \in Trades
    BY <1>1, <1>5, EnteredIsTrade
  <2>2. (trade \in {NoTrade} \cup Trades)'
    BY <2>1 DEF Trades
  <2>3. stats' \in Books
    <3>1. DEFINE wrong == stats.beyond \/ Sign(zone.side) * (bar.close - zone.stop) < 0
    <3>2. wrong \in BOOLEAN
      BY <1>2 DEF Books
    <3>3. stats' = stats \/ stats' = [stats EXCEPT !.trades = @ + 1, !.beyond = wrong]
      BY <1>5
    <3> HIDE DEF wrong
    <3>4. stats.trades + 1 \in Nat
      BY <1>2 DEF Books
    <3> QED BY <1>2, <3>2, <3>3, <3>4 DEF Books
  <2>4. sent' \in Seq(Int)
    BY <1>2, <1>5, SignIs DEF Market
  <2>5. entries' \in 0..MaxEntries /\ entries' > 0
    BY <1>2, <1>5, StrategiesAssumption
  <2> QED BY <1>5, <2>2, <2>3, <2>4, <2>5
<1> QED BY <1>3, <1>4, <1>5 DEF CheckEntry

LEMMA OnBarType ==
  ASSUME TypeInv, NEW bar \in Bars, OnBar(bar)
  PROVE  TypeInv'
<1>1. count' \in 0..WarmupBars /\ recent' \in Seq(Bars) /\ Len(recent') <= 2
  BY RememberKeeps DEF OnBar, TypeInv
<1>2. /\ script # "sma"
      /\ UNCHANGED <<phase, unseen, known, other, longs, shorts, script, hedging>>
  BY DEF OnBar
<1>3. CASE ~Warm /\ UNCHANGED <<zone, trade, stats, sent, mishap, entries>>
  BY <1>1, <1>2, <1>3 DEF TypeInv, StrategyType, MarketType, Trades
<1>4. CASE Warm /\ CheckExit(bar)
  <2>1. CASE HitStop(bar) \/ HitTarget(bar)
    <3>1. /\ trade # NoTrade /\ UNCHANGED <<zone, entries>> /\ Market(CloseOrders)
          /\ trade' = NoTrade
          /\ stats' = IF script = "fvg" THEN Counted(bar) ELSE stats
      BY <1>4, <2>1 DEF CheckExit
    <3>2. sent' \in Seq(Int)
      BY <3>1, CloseOrdersType, ConcatProperties DEF Market, TypeInv, MarketType
    <3>3. stats' \in Books
      BY <3>1, CountedIsBooks DEF TypeInv, StrategyType
    <3> QED BY <1>1, <1>2, <3>1, <3>2, <3>3 DEF TypeInv, StrategyType, MarketType, Trades
  <2>2. CASE ~(HitStop(bar) \/ HitTarget(bar))
    <3>1. UNCHANGED <<zone, entries, sent, trade, stats>>
      BY <1>4, <2>2 DEF CheckExit
    <3> QED BY <1>1, <1>2, <3>1 DEF TypeInv, StrategyType, MarketType, Trades
  <2> QED BY <2>1, <2>2
<1>5. CASE Warm /\ LookForEntry(bar)
  <2>1. trade = NoTrade /\ entries < MaxEntries
    BY <1>5 DEF LookForEntry, OnBar
  <2>2. CASE PendingFvg /\ CheckEntry(zone, bar)
    BY <1>1, <1>2, <2>1, <2>2, CheckEntryType DEF TypeInv, StrategyType, MarketType
  <2>3. CASE /\ Len(recent) = 2
             /\ zone' \in {Detected(bar)} \cup (IF script = "fvg" THEN {NoZone} ELSE {})
             /\ UNCHANGED <<trade, stats, sent, entries>>
    <3>1. zone' # NoZone => zone' \in Zones /\ zone'.low < zone'.high
      BY <2>3, DetectedIsGap DEF TypeInv
    <3> QED BY <1>1, <1>2, <2>1, <2>3, <3>1 DEF TypeInv, StrategyType, MarketType, Trades
  <2>4. CASE UNCHANGED <<zone, trade, stats, sent, entries>>
    BY <1>1, <1>2, <2>4 DEF TypeInv, StrategyType, MarketType, Trades
  <2> QED BY <1>5, <2>2, <2>3, <2>4 DEF LookForEntry
<1> QED BY <1>3, <1>4, <1>5 DEF OnBar

LEMMA ExecuteType ==
  ASSUME TypeInv, Execute
  PROVE  TypeInv'
<1> DEFINE v == Head(sent)
           l == longs + (IF v > 0 THEN v ELSE 0)
           s == shorts + (IF v < 0 THEN -v ELSE 0)
           both == IF hedging THEN 0 ELSE Lesser(l, s)
<1>1. /\ sent # <<>> /\ sent' = Tail(sent) /\ unseen' = Append(unseen, v)
      /\ longs' = l - both /\ shorts' = s - both
      /\ UNCHANGED <<strategyVars, known, other, script, hedging, entries>>
  BY DEF Execute
<1>2. v \in Int /\ sent' \in Seq(Int) /\ unseen' \in Seq(Int)
  BY <1>1, HeadTailProperties, AppendProperties DEF TypeInv, MarketType
<1>3. l \in Nat /\ s \in Nat
  BY <1>2 DEF TypeInv, MarketType
<1> HIDE DEF v, l, s
<1>4. /\ hedging => both = 0
      /\ ~hedging => both = Lesser(l, s)
  OBVIOUS
<1>5. /\ longs' \in Nat /\ shorts' \in Nat
      /\ ~hedging => longs' = 0 \/ shorts' = 0
  BY <1>1, <1>3 DEF Lesser
<1> HIDE DEF both
<1> QED BY <1>1, <1>2, <1>5 DEF strategyVars, TypeInv, StrategyType, MarketType, Trades

LEMMA OnCrossType ==
  ASSUME TypeInv, NEW side \in {"BUY", "SELL", "none"}, OnCross(side)
  PROVE  TypeInv'
<1>1. /\ script = "sma"
      /\ UNCHANGED <<phase, recent, zone, stats, unseen, known, other, longs, shorts,
                     script, hedging>>
      /\ count' = IF count < WarmupBars THEN count + 1 ELSE count
  BY DEF OnCross
<1>2. count' \in 0..WarmupBars
  BY <1>1, StrategiesAssumption DEF TypeInv, StrategyType
<1>3. CASE UNCHANGED <<entries, trade, sent>>
  BY <1>1, <1>2, <1>3 DEF TypeInv, StrategyType, MarketType, Trades
<1>4. CASE /\ entries < MaxEntries /\ entries' = entries + 1 /\ side # "none"
           /\ trade' = [side |-> side]
           /\ Market((IF trade = NoTrade THEN <<>> ELSE CloseOrders) \o <<Sign(side)>>)
  <2>1. trade' \in Trades'
    BY <1>1, <1>4 DEF Trades, Directions
  <2>2. sent' \in Seq(Int)
    <3>1. (IF trade = NoTrade THEN <<>> ELSE CloseOrders) \in Seq(Int)
      BY CloseOrdersType
    <3>2. <<Sign(side)>> \in Seq(Int)
      BY SignIs
    <3> QED BY <1>4, <3>1, <3>2, ConcatProperties DEF Market, TypeInv, MarketType
  <2>3. entries' \in 0..MaxEntries /\ entries' > 0
    BY <1>4, StrategiesAssumption DEF TypeInv, StrategyType
  <2> QED BY <1>1, <1>2, <2>1, <2>2, <2>3 DEF TypeInv, StrategyType, MarketType
<1> QED BY <1>3, <1>4 DEF OnCross

LEMMA TypeInvStep == TypeInv /\ [TradingNext]_tradingVars => TypeInv'
<1> SUFFICES ASSUME TypeInv, [TradingNext]_tradingVars
             PROVE  TypeInv'
  OBVIOUS
<1>1. CASE OnStart
  BY <1>1 DEF OnStart, marketVars, TypeInv, StrategyType, MarketType, Trades
<1>2. CASE OnStop
  <2>1. /\ phase' = "stopped"
        /\ UNCHANGED <<count, recent, zone, stats, unseen, known, other, longs, shorts,
                       script, hedging, entries>>
    BY <1>2 DEF OnStop
  <2>2. CASE trade = NoTrade
    <3>1. UNCHANGED <<sent, trade>>
      BY <1>2, <2>2 DEF OnStop
    <3> QED BY <2>1, <3>1 DEF TypeInv, StrategyType, MarketType, Trades
  <2>3. CASE trade # NoTrade
    <3>1. Market(CloseOrders) /\ (trade' = trade \/ trade' = NoTrade)
      BY <1>2, <2>3 DEF OnStop
    <3>2. sent' \in Seq(Int)
      BY <3>1, CloseOrdersType, ConcatProperties DEF Market, TypeInv, MarketType
    <3> QED BY <2>1, <2>3, <3>1, <3>2 DEF TypeInv, StrategyType, MarketType, Trades
  <2> QED BY <2>2, <2>3
<1>3. ASSUME NEW bar \in Bars, OnBar(bar)
      PROVE  TypeInv'
  BY <1>3, OnBarType
<1>4. ASSUME NEW side \in {"BUY", "SELL", "none"}, OnCross(side)
      PROVE  TypeInv'
  BY <1>4, OnCrossType
<1>5. CASE Execute
  BY <1>5, ExecuteType
<1>6. CASE Refuse
  <2>1. sent' \in Seq(Int)
    BY <1>6, HeadTailProperties DEF Refuse, TypeInv, MarketType
  <2> QED BY <1>6, <2>1 DEF Refuse, strategyVars, TypeInv, StrategyType, MarketType, Trades
<1>7. CASE PollFill
  <2>1. unseen' \in Seq(Int) /\ known' \in Int
    BY <1>7, HeadTailProperties DEF PollFill, TypeInv, MarketType
  <2> QED BY <1>7, <2>1 DEF PollFill, strategyVars, TypeInv, StrategyType, MarketType, Trades
<1>8. CASE LoseFill
  <2>1. unseen' \in Seq(Int)
    BY <1>8, HeadTailProperties DEF LoseFill, TypeInv, MarketType
  <2> QED BY <1>8, <2>1 DEF LoseFill, strategyVars, TypeInv, StrategyType, MarketType, Trades
<1>9. CASE OtherTrades
  <2>1. other' \in Int
    BY <1>9, StrategiesAssumption DEF OtherTrades
  <2> QED
    BY <1>9, <2>1 DEF OtherTrades, strategyVars, TypeInv, StrategyType, MarketType, Trades
<1>10. CASE UNCHANGED tradingVars
  BY <1>10
  DEF tradingVars, strategyVars, marketVars, TypeInv, StrategyType, MarketType, Trades
<1> QED BY <1>1, <1>2, <1>3, <1>4, <1>5, <1>6, <1>7, <1>8, <1>9, <1>10 DEF TradingNext

-----------------------------------------------------------------------------
(* Statistics. *)

LEMMA BooksInvInit == TradingInit => BooksInv
BY DEF TradingInit, BooksInv

LEMMA ExitBooks ==
  ASSUME TypeInv, BooksInv, NEW bar \in Bars, trade # NoTrade, trade' = NoTrade,
         stats' = IF script = "fvg" THEN Counted(bar) ELSE stats,
         phase # "stopped", UNCHANGED <<script, phase>>
  PROVE  BooksInv'
<1>2. CASE script = "fvg"
  <2>1. /\ Counted(bar).trades = stats.trades /\ Counted(bar).beyond = stats.beyond
        /\ Counted(bar).wins + Counted(bar).losses = stats.wins + stats.losses + 1
        /\ Counted(bar).lost \in {stats.lost, stats.lost + Pnl(trade.stop)}
    BY <1>2, CountedIsBooks DEF TypeInv
  <2>2. /\ stats' = Counted(bar)
        /\ stats.trades = stats.wins + stats.losses + 1
    BY <1>2 DEF BooksInv
  <2>3. stats'.trades = stats'.wins + stats'.losses
    <3>1. stats'.wins \in Nat /\ stats'.losses \in Nat
      BY <1>2, <2>2, CountedIsBooks DEF TypeInv, Books
    <3> QED BY <2>1, <2>2, <3>1
  <2>4. ASSUME ~stats'.beyond PROVE stats'.lost <= 0
    <3>1. stats.lost <= 0 /\ stats.lost \in Int
          /\ Sign(trade.side) * (trade.entry - trade.stop) > 0
      BY <1>2, <2>1, <2>2, <2>4 DEF BooksInv, TypeInv, StrategyType, Books
    <3>2. trade.entry \in Int /\ trade.stop \in Int
      BY <1>2, RecordFacts DEF TypeInv, Trades
    <3>3. Pnl(trade.stop) \in Int /\ Pnl(trade.stop) < 0
      BY <3>1, <3>2, SignIs DEF Pnl
    <3> QED BY <2>1, <2>2, <3>1, <3>3
  <2>5. stats'.wins \in Nat /\ stats'.losses \in Nat
    BY <1>2, <2>2, CountedIsBooks DEF TypeInv, Books
  <2> QED BY <2>3, <2>4, <2>5 DEF BooksInv
<1>3. CASE script # "fvg"
  BY <1>3 DEF BooksInv
<1> QED BY <1>2, <1>3

LEMMA EntryBooks ==
  ASSUME TypeInv, BooksInv, NEW bar \in Bars, script # "sma", trade = NoTrade,
         PendingFvg, CheckEntry(zone, bar), UNCHANGED <<script, phase>>
  PROVE  BooksInv'
<1>1. zone \in Zones
  BY RecordFacts DEF PendingFvg, TypeInv
<1>2. CASE UNCHANGED <<trade, stats>>
  BY <1>2 DEF BooksInv
<1>3. CASE /\ bar.close # zone.stop /\ trade' = Entered(zone, bar)
           /\ stats' =
                IF script # "fvg" THEN stats ELSE
                  [stats EXCEPT !.trades = @ + 1,
                     !.beyond = @ \/ Sign(zone.side) * (bar.close - zone.stop) < 0]
  <2>1. /\ trade' \in Trades /\ trade'.side = zone.side
        /\ trade'.entry = bar.close /\ trade'.stop = zone.stop
    BY <1>1, <1>3, EnteredIsTrade
  <2>2. trade' # NoTrade
    BY <2>1, TradesAreTrades
  <2>4. CASE script # "fvg"
    BY <1>3, <2>4 DEF BooksInv
  <2>5. CASE script = "fvg"
    <3> DEFINE wrong == stats.beyond \/ Sign(zone.side) * (bar.close - zone.stop) < 0
    <3>1. stats' = [stats EXCEPT !.trades = @ + 1, !.beyond = wrong]
      BY <1>3, <2>5
    <3>2. stats \in Books
      BY DEF TypeInv, StrategyType
    <3>3. /\ stats'.trades = stats.trades + 1 /\ stats'.wins = stats.wins
          /\ stats'.losses = stats.losses /\ stats'.lost = stats.lost
      BY <3>1, <3>2 DEF Books
    <3>4. stats'.beyond = wrong
      BY <3>1, <3>2 DEF Books
    <3>5. phase # "stopped" => stats.trades = stats.wins + stats.losses
      BY <2>5, <3>2 DEF BooksInv, Books
    <3>6. ASSUME ~stats'.beyond
          PROVE  /\ stats'.lost <= 0
                 /\ Sign(trade'.side) * (trade'.entry - trade'.stop) > 0
      <4>1. ~stats.beyond /\ ~(Sign(zone.side) * (bar.close - zone.stop) < 0)
        BY <3>4, <3>6
      <4>2. bar.close \in Int /\ zone.stop \in Int
        BY <1>1, StrategiesAssumption DEF Zones
      <4>3. Sign(zone.side) * (bar.close - zone.stop) > 0
        BY <1>3, <4>1, <4>2, SignIs
      <4>4. stats.lost <= 0
        BY <4>1 DEF BooksInv
      <4> QED BY <2>1, <3>3, <4>3, <4>4
    <3>7. phase' # "stopped" => stats'.trades = stats'.wins + stats'.losses + 1
      BY <3>3, <3>5
    <3> QED BY <2>2, <3>6, <3>7 DEF BooksInv
  <2> QED BY <2>4, <2>5
<1> QED BY <1>2, <1>3 DEF CheckEntry

LEMMA BooksInvStep == TypeInv /\ BooksInv /\ [TradingNext]_tradingVars => BooksInv'
<1> SUFFICES ASSUME TypeInv, BooksInv, [TradingNext]_tradingVars
             PROVE  BooksInv'
  OBVIOUS
<1>1. ASSUME UNCHANGED <<script, trade, stats>>, phase' = "stopped" \/ phase # "stopped"
      PROVE  BooksInv'
  BY <1>1 DEF BooksInv
<1>2. ASSUME UNCHANGED <<script, trade, stats, phase>>
      PROVE  BooksInv'
  BY <1>2 DEF BooksInv
<1>3. CASE OnStart
  BY <1>1, <1>3 DEF OnStart
<1>4. CASE OnStop
  <2>1. /\ UNCHANGED <<script, stats>> /\ phase' = "stopped"
        /\ trade' = trade \/ trade' = NoTrade
    BY <1>4 DEF OnStop
  <2> QED BY <1>1, <2>1 DEF BooksInv
<1>5. ASSUME NEW bar \in Bars, OnBar(bar)
      PROVE  BooksInv'
  <2>1. script # "sma" /\ phase = "running" /\ UNCHANGED <<phase, script>>
    BY <1>5 DEF OnBar
  <2>2. CASE UNCHANGED <<trade, stats>>
    BY <1>2, <2>1, <2>2
  <2>3. CASE CheckExit(bar)
    <3>1. CASE HitStop(bar) \/ HitTarget(bar)
      BY <2>1, <2>3, <3>1, ExitBooks DEF CheckExit
    <3>2. CASE ~(HitStop(bar) \/ HitTarget(bar))
      BY <2>2, <2>3, <3>2 DEF CheckExit
    <3> QED BY <3>1, <3>2
  <2>4. CASE LookForEntry(bar)
    <3>1. CASE trade = NoTrade /\ PendingFvg /\ CheckEntry(zone, bar)
      BY <2>1, <3>1, EntryBooks
    <3> QED BY <2>2, <2>4, <3>1 DEF LookForEntry
  <2> QED BY <1>5, <2>2, <2>3, <2>4 DEF OnBar
<1>6. ASSUME NEW side \in {"BUY", "SELL", "none"}, OnCross(side)
      PROVE  BooksInv'
  BY <1>6 DEF OnCross, BooksInv
<1>7. CASE Execute \/ Refuse \/ PollFill \/ LoseFill \/ OtherTrades
  BY <1>2, <1>7 DEF Execute, Refuse, PollFill, LoseFill, OtherTrades, strategyVars
<1>8. CASE UNCHANGED tradingVars
  BY <1>2, <1>8 DEF tradingVars, strategyVars
<1> QED BY <1>3, <1>4, <1>5, <1>6, <1>7, <1>8 DEF TradingNext

-----------------------------------------------------------------------------
(* The flag, the engine and the broker. *)

LEMMA WantedIs == Wanted \in {-1, 0, 1} /\ (trade = NoTrade => Wanted = 0)
BY SignIs DEF Wanted

LEMMA FlightInvInit == TradingInit => FlightInv
BY DEF TradingInit, FlightInv, UnderWay, Wanted

(* Nothing that counts has moved. *)
LEMMA QuietFlight ==
  ASSUME FlightInv, UNCHANGED <<sent, unseen, known, longs, shorts, mishap>>,
         Wanted' = Wanted,
         trade' = NoTrade /\ phase' # "stopped" => trade = NoTrade /\ phase # "stopped"
  PROVE  FlightInv'
BY DEF FlightInv, UnderWay, Order

(* A close while nothing went wrong has one order to send, and only sends  *)
(* it when nothing is under way.                                           *)
LEMMA CloseIs ==
  ASSUME TypeInv, FlightInv, trade # NoTrade, phase # "stopped", CloseMishap = "none"
  PROVE  /\ mishap = "none" /\ sent = <<>> /\ unseen = <<>>
         /\ known = Wanted /\ Wanted \in {1, -1} /\ CloseOrders = <<-known>>
<1>1. mishap = "none" /\ sent = <<>> /\ unseen = <<>> /\ (script # "live" => other = 0)
  BY DEF CloseMishap, Mishap
<1>2. known = Wanted /\ Wanted = Sign(trade.side)
  BY <1>1 DEF FlightInv, UnderWay, Wanted
<1>3. Closing(known, -known) = <<-known>>
  BY <1>2, SignIs DEF Closing
<1>4. -Sign(trade.side) * Abs(known) = -known
  BY <1>2, SignIs DEF Abs
<1>5. <<-known>> \in Seq(Int)
  BY DEF TypeInv, MarketType
<1>6. ASSUME script = "live" PROVE CloseOrders = <<-known>>
  <2>1. CloseOrders = Closing(known, -known)
    BY <1>6 DEF CloseOrders
  <2> QED BY <1>3, <2>1
<1>7. ASSUME script \in {"fvg", "sma"} PROVE CloseOrders = <<-known>>
  <2>1. \A n : Closing(other, n) = <<>>
    BY <1>1, <1>7 DEF Closing
  <2>2. CloseOrders = Closing(known, -known) \o <<>>
    <3>1. CASE script = "fvg"
      BY <1>4, <2>1, <3>1 DEF CloseOrders
    <3>2. CASE script = "sma"
      BY <2>1, <3>2 DEF CloseOrders
    <3> QED BY <1>7, <3>1, <3>2
  <2>3. <<-known>> \o <<>> = <<-known>>
    BY <1>5, ConcatEmptySeq
  <2> QED BY <1>3, <2>2, <2>3
<1>8. CloseOrders = <<-known>>
  BY <1>6, <1>7 DEF TypeInv, StrategyType
<1> QED BY <1>1, <1>2, <1>8, SignIs

(* One more order, from a strategy that has at most one under way. *)
LEMMA OneMoreOrder ==
  ASSUME TypeInv, FlightInv, mishap = "none", UnderWay <= 1,
         NEW v \in Int, sent' = Append(sent, v),
         UNCHANGED <<unseen, known, longs, shorts>>,
         Wanted' = Wanted + v,
         UnderWay = 0 \/ trade' # NoTrade \/ phase' = "stopped"
  PROVE  FlightInv'
<1>1. sent \in Seq(Int) /\ unseen \in Seq(Int) /\ known \in Int
  BY DEF TypeInv, MarketType
<1>2. Len(sent) \in Nat /\ Len(unseen) \in Nat
  BY <1>1
<1>3. /\ Len(sent') = Len(sent) + 1
      /\ \A i \in 1..Len(sent) : sent'[i] = sent[i]
      /\ sent'[Len(sent) + 1] = v
  BY <1>1, AppendProperties
<1>4. UnderWay' = UnderWay + 1
  BY <1>2, <1>3 DEF UnderWay
<1>5. CASE UnderWay = 0
  <2>1. Len(sent) = 0 /\ Len(unseen) = 0 /\ Len(unseen') = 0
    BY <1>2, <1>5 DEF UnderWay
  <2>2. Order(1)' = v
    BY <1>3, <2>1 DEF Order
  <2>3. known = Wanted /\ longs - shorts = known
    BY <1>5, <2>1 DEF FlightInv
  <2> QED BY <1>1, <1>4, <1>5, <2>1, <2>2, <2>3, WantedIs DEF FlightInv
<1>6. CASE UnderWay = 1
  <2>1. Order(2)' = v
    BY <1>2, <1>3, <1>6 DEF UnderWay, Order
  <2>2. Order(1)' = Order(1)
    BY <1>2, <1>3, <1>6 DEF UnderWay, Order
  <2>3. known + Order(1) = Wanted
    BY <1>6 DEF FlightInv
  <2>4. Len(unseen) = 0 \/ Len(unseen) = 1
    BY ONLY <1>2, <1>6 DEF UnderWay
  <2> QED BY <1>1, <1>4, <1>6, <2>1, <2>2, <2>3, <2>4, WantedIs DEF FlightInv
<1> QED BY <1>2, <1>5, <1>6 DEF UnderWay

(* The two orders of a cross, when nothing is under way. *)
LEMMA TwoOrders ==
  ASSUME TypeInv, FlightInv, mishap = "none", sent = <<>>, unseen = <<>>,
         NEW v \in {1, -1}, sent' = <<-known, v>>,
         UNCHANGED <<unseen, known, longs, shorts>>,
         Wanted' = v, trade' # NoTrade
  PROVE  FlightInv'
<1>1. known \in Int /\ known \in -1..1 /\ longs - shorts = known
  BY DEF TypeInv, MarketType, FlightInv, UnderWay
<1>2. UnderWay' = 2 /\ Len(unseen') = 0
  BY DEF UnderWay
<1>3. Order(1)' = -known /\ Order(2)' = v
  BY <1>1 DEF Order
<1> QED BY <1>1, <1>2, <1>3 DEF FlightInv

(* What is executed is what waited longest: the line stays as it is. *)
LEMMA ExecuteFlight ==
  ASSUME TypeInv, FlightInv, Execute, mishap = "none"
  PROVE  FlightInv'
<1> DEFINE v == Head(sent)
           l == longs + (IF v > 0 THEN v ELSE 0)
           s == shorts + (IF v < 0 THEN -v ELSE 0)
           both == IF hedging THEN 0 ELSE Lesser(l, s)
<1>1. /\ sent # <<>> /\ sent' = Tail(sent) /\ unseen' = Append(unseen, v)
      /\ longs' = l - both /\ shorts' = s - both
      /\ UNCHANGED <<phase, trade, known, mishap>>
  BY DEF Execute, strategyVars
<1>2. /\ sent \in Seq(Int) /\ unseen \in Seq(Int) /\ known \in Int
      /\ longs \in Nat /\ shorts \in Nat
  BY DEF TypeInv, MarketType
<1>3. v \in Int /\ v = sent[1] /\ Len(sent) \in Nat /\ Len(unseen) \in Nat /\ Len(sent) # 0
  BY <1>1, <1>2, HeadTailProperties
<1>4. longs' - shorts' = longs - shorts + v
  <2>1. l \in Int /\ s \in Int /\ l - s = longs - shorts + v
    BY <1>2, <1>3
  <2> HIDE DEF l, s
  <2>2. both \in Int
    BY <2>1 DEF Lesser
  <2> HIDE DEF both
  <2> QED BY <1>1, <1>2, <1>3, <2>1, <2>2
<1> HIDE DEF v, l, s, both
<1>5. /\ Len(sent') = Len(sent) - 1
      /\ \A i \in 1..Len(sent) - 1 : sent'[i] = sent[i + 1]
  BY <1>1, <1>2, HeadTailProperties
<1>6. /\ Len(unseen') = Len(unseen) + 1
      /\ \A i \in 1..Len(unseen) : unseen'[i] = unseen[i]
      /\ unseen'[Len(unseen) + 1] = v
  BY <1>1, <1>2, <1>3, AppendProperties
<1>7. /\ UnderWay' = UnderWay
      /\ UnderWay = 1 \/ UnderWay = 2
      /\ Len(unseen) = 0 \/ Len(unseen) = 1
  <2>1. UnderWay <= 2
    BY DEF FlightInv
  <2>2. UnderWay' = UnderWay
    BY ONLY <1>3, <1>5, <1>6 DEF UnderWay
  <2> QED BY ONLY <1>3, <2>1, <2>2 DEF UnderWay
<1>8. \A i \in 1..UnderWay : Order(i)' = Order(i)
  <2> SUFFICES ASSUME NEW i \in 1..UnderWay PROVE Order(i)' = Order(i)
    OBVIOUS
  <2>1. CASE i <= Len(unseen)
    BY <1>3, <1>6, <2>1 DEF UnderWay, Order
  <2>2. CASE i = Len(unseen) + 1
    BY <1>3, <1>6, <2>2 DEF UnderWay, Order
  <2>3. CASE i > Len(unseen) + 1
    <3>1. i - Len(unseen') \in 1..Len(sent) - 1 /\ ~(i <= Len(unseen')) /\ ~(i <= Len(unseen))
      BY <1>3, <1>6, <2>3 DEF UnderWay
    <3>2. sent'[i - Len(unseen')] = sent[i - Len(unseen') + 1]
      BY <1>5, <3>1
    <3>3. i - Len(unseen') + 1 = i - Len(unseen)
      BY <1>3, <1>6
    <3> QED BY <3>1, <3>2, <3>3 DEF Order
  <2> QED BY <1>3, <2>1, <2>2, <2>3
<1>9. /\ Len(unseen') = 1 => longs' - shorts' = known + unseen'[1]
      /\ Len(unseen') = 2 => longs' - shorts' = known + unseen'[1] + unseen'[2]
      /\ Len(unseen') # 0
  <2>1. CASE Len(unseen) = 0
    BY <1>2, <1>3, <1>4, <1>6, <2>1 DEF FlightInv
  <2>2. CASE Len(unseen) = 1
    BY <1>2, <1>3, <1>4, <1>6, <2>2 DEF FlightInv
  <2> QED BY <1>7, <2>1, <2>2
<1>10. Wanted' = Wanted
  BY <1>1 DEF Wanted
<1> QED BY <1>1, <1>7, <1>8, <1>9, <1>10 DEF FlightInv

(* What the engine sees is what was executed first. *)
LEMMA PollFlight ==
  ASSUME TypeInv, FlightInv, PollFill, mishap = "none"
  PROVE  FlightInv'
<1>1. /\ unseen # <<>> /\ unseen' = Tail(unseen) /\ known' = known + Head(unseen)
      /\ UNCHANGED <<phase, trade, sent, longs, shorts, mishap>>
  BY DEF PollFill, strategyVars
<1>2. sent \in Seq(Int) /\ unseen \in Seq(Int) /\ known \in Int
  BY DEF TypeInv, MarketType
<1>3. /\ Head(unseen) = unseen[1] /\ unseen[1] \in Int
      /\ Len(sent) \in Nat /\ Len(unseen) \in Nat /\ Len(unseen) # 0
  BY <1>1, <1>2, HeadTailProperties
<1>4. /\ Len(unseen') = Len(unseen) - 1
      /\ \A i \in 1..Len(unseen) - 1 : unseen'[i] = unseen[i + 1]
  BY <1>1, <1>2, HeadTailProperties
<1>5. /\ UnderWay' = UnderWay - 1
      /\ UnderWay = 1 \/ UnderWay = 2
      /\ Len(unseen) = 1 \/ Len(unseen) = 2
  <2>1. UnderWay <= 2
    BY DEF FlightInv
  <2> QED BY <1>1, <1>3, <1>4, <2>1 DEF UnderWay
<1>6. Wanted' = Wanted
  BY <1>1 DEF Wanted
<1>7. Order(1) = unseen[1]
  BY <1>3 DEF Order
<1>8. CASE Len(unseen) = 1
  <2>1. longs - shorts = known + unseen[1] /\ Len(unseen') = 0
    BY <1>4, <1>8 DEF FlightInv
  <2>2. known' \in -1..1 /\ (UnderWay' = 0 => known' = Wanted)
    BY <1>1, <1>3, <1>5, <1>7, WantedIs DEF FlightInv
  <2>3. UnderWay' = 1 => known' + Order(1)' = Wanted
    <3>1. Order(1)' = sent[1] /\ Order(2) = sent[1]
      <4>1. Len(unseen') = 0 /\ sent' = sent
        BY <1>1, <1>4, <1>8
      <4> QED BY <1>8, <4>1 DEF Order
    <3> QED BY <1>1, <1>3, <1>5, <1>7, <3>1 DEF FlightInv
  <2>4. UnderWay' = 0 \/ UnderWay' = 1
    BY ONLY <1>5
  <2>5. longs' - shorts' = known'
    BY <1>1, <1>3, <2>1
  <2> QED BY ONLY <1>6, <2>1, <2>2, <2>3, <2>4, <2>5 DEF FlightInv
<1>9. CASE Len(unseen) = 2
  <2>1. UnderWay = 2 /\ UnderWay' = 1 /\ Len(unseen') = 1
    BY <1>3, <1>4, <1>5, <1>9 DEF UnderWay
  <2>2. unseen'[1] = unseen[2] /\ unseen[2] \in Int
    BY <1>2, <1>4, <1>9
  <2>3. Order(2) = unseen[2] /\ Order(1)' = unseen'[1]
    BY <1>9, <2>1 DEF Order
  <2>4. longs - shorts = known + unseen[1] + unseen[2]
    BY <1>9 DEF FlightInv
  <2>5. /\ known + unseen[1] \in -1..1
        /\ known + unseen[1] + unseen[2] = Wanted
    BY <1>7, <2>1, <2>3 DEF FlightInv
  <2>6. known' \in -1..1 /\ known' + Order(1)' = Wanted
    BY <1>1, <1>3, <2>2, <2>3, <2>5
  <2>7. longs' - shorts' = known' + unseen'[1]
    BY <1>1, <1>3, <2>2, <2>4
  <2> QED BY ONLY <1>6, <2>1, <2>6, <2>7 DEF FlightInv
<1> QED BY <1>5, <1>8, <1>9

(* on_bar(): an exit sends one order from rest, an entry one more. *)
LEMMA OnBarFlight ==
  ASSUME TypeInv, FlightInv, NEW bar \in Bars, OnBar(bar), mishap' = "none"
  PROVE  FlightInv'
<1>1. /\ script # "sma" /\ phase = "running" /\ phase' = phase
      /\ UNCHANGED <<unseen, known, longs, shorts>>
  BY DEF OnBar
<1>2. sent \in Seq(Int)
  BY DEF TypeInv, MarketType
<1>3. ASSUME UNCHANGED <<trade, sent, mishap>> PROVE FlightInv'
  BY <1>1, <1>3, QuietFlight DEF Wanted
<1>4. CASE CheckExit(bar)
  <2>1. CASE HitStop(bar) \/ HitTarget(bar)
    <3>1. /\ trade # NoTrade /\ Market(CloseOrders) /\ CloseMishap = "none"
          /\ trade' = NoTrade
      BY <1>4, <2>1 DEF CheckExit
    <3>2. /\ mishap = "none" /\ sent = <<>> /\ unseen = <<>>
          /\ known = Wanted /\ Wanted \in {1, -1} /\ CloseOrders = <<-known>>
      BY <1>1, <3>1, CloseIs
    <3>3. sent' = Append(sent, -known)
      BY <3>1, <3>2 DEF Market
    <3>4. UnderWay = 0 /\ Wanted' = Wanted + (-known) /\ -known \in Int
      BY <3>1, <3>2 DEF UnderWay, Wanted
    <3> QED BY <1>1, <3>2, <3>3, <3>4, OneMoreOrder
  <2>2. CASE ~(HitStop(bar) \/ HitTarget(bar))
    BY <1>3, <1>4, <2>2 DEF CheckExit
  <2> QED BY <2>1, <2>2
<1>5. CASE LookForEntry(bar)
  <2>1. trade = NoTrade /\ mishap' = mishap
    BY <1>5 DEF LookForEntry
  <2>2. CASE UNCHANGED <<trade, sent>>
    BY <1>3, <2>1, <2>2
  <2>3. CASE /\ PendingFvg /\ Market(<<Sign(zone.side)>>)
             /\ trade' = Entered(zone, bar)
    <3>1. zone \in Zones
      BY <2>3, RecordFacts DEF PendingFvg, TypeInv
    <3>2. trade' # NoTrade /\ trade'.side = zone.side
      BY <1>1, <2>3, <3>1, EnteredIsTrade, TradesAreTrades
    <3>3. Wanted = 0 /\ Wanted' = Sign(zone.side)
      BY <1>1, <2>1, <3>2 DEF Wanted
    <3>4. UnderWay <= 1
      BY <1>1, <2>1 DEF FlightInv
    <3>5. Sign(zone.side) \in Int
      BY SignIs
    <3>6. sent' = Append(sent, Sign(zone.side))
      BY <1>2, <2>3, <3>5, AppendIsConcat DEF Market
    <3>7. Wanted' = Wanted + Sign(zone.side)
      BY <3>3, <3>5
    <3> QED BY <1>1, <2>1, <3>2, <3>4, <3>5, <3>6, <3>7, OneMoreOrder
  <2> QED BY <1>5, <2>1, <2>2, <2>3 DEF LookForEntry, CheckEntry
<1>6. CASE ~Warm /\ UNCHANGED <<zone, trade, stats, sent, mishap, entries>>
  BY <1>3, <1>6
<1> QED BY <1>4, <1>5, <1>6 DEF OnBar

(* on_stop() closes what the strategy has; afterwards it wants nothing. *)
LEMMA OnStopFlight ==
  ASSUME TypeInv, FlightInv, OnStop, mishap' = "none"
  PROVE  FlightInv'
<1>1. /\ phase # "stopped" /\ phase' = "stopped"
      /\ UNCHANGED <<unseen, known, longs, shorts>>
  BY DEF OnStop
<1>2. Wanted' = 0
  BY <1>1 DEF Wanted
<1>3. CASE trade = NoTrade
  <2>1. UNCHANGED <<sent, mishap, trade>>
    BY <1>3 DEF OnStop
  <2>2. Wanted' = Wanted
    BY <1>2, <1>3, WantedIs
  <2> QED BY <1>1, <2>1, <2>2, QuietFlight
<1>4. CASE trade # NoTrade
  <2>1. Market(CloseOrders) /\ CloseMishap = "none"
    BY <1>4 DEF OnStop
  <2>2. /\ mishap = "none" /\ sent = <<>> /\ unseen = <<>>
        /\ known = Wanted /\ Wanted \in {1, -1} /\ CloseOrders = <<-known>>
    BY <1>1, <1>4, <2>1, CloseIs
  <2>3. sent' = Append(sent, -known)
    BY <2>1, <2>2 DEF Market
  <2>4. UnderWay = 0 /\ Wanted' = Wanted + (-known) /\ -known \in Int
    BY <1>2, <2>2 DEF UnderWay
  <2> QED BY <1>1, <2>2, <2>3, <2>4, OneMoreOrder
<1> QED BY <1>3, <1>4

(* A cross turns the position around from rest, or opens the first. *)
LEMMA OnCrossFlight ==
  ASSUME TypeInv, FlightInv, NEW side \in {"BUY", "SELL", "none"}, OnCross(side),
         mishap' = "none"
  PROVE  FlightInv'
<1>1. /\ phase = "running" /\ phase' = phase
      /\ UNCHANGED <<unseen, known, longs, shorts>>
  BY DEF OnCross
<1>2. CASE UNCHANGED <<entries, trade, sent, mishap>>
  BY <1>1, <1>2, QuietFlight DEF Wanted
<1>3. CASE /\ side # "none" /\ trade' = [side |-> side]
           /\ Market((IF trade = NoTrade THEN <<>> ELSE CloseOrders) \o <<Sign(side)>>)
           /\ mishap' = IF trade = NoTrade THEN mishap ELSE CloseMishap
  <2>1. trade' # NoTrade /\ trade'.side = side
    <3>1. trade'.side = side
      BY <1>3
    <3> QED BY <1>3, <3>1 DEF NoTrade
  <2>2. Wanted' = Sign(side) /\ Sign(side) \in {1, -1} /\ Sign(side) \in Int
    BY <1>1, <2>1, SignIs DEF Wanted
  <2>3. <<Sign(side)>> \in Seq(Int) /\ sent \in Seq(Int)
    BY <2>2 DEF TypeInv, MarketType
  <2>4. CASE trade = NoTrade
    <3>1. mishap = "none" /\ UnderWay <= 1 /\ Wanted = 0
      BY <1>1, <1>3, <2>4, WantedIs DEF FlightInv
    <3>2. sent' = sent \o (<<>> \o <<Sign(side)>>)
      BY <1>3, <2>4 DEF Market
    <3>3. sent' = Append(sent, Sign(side))
      BY <2>2, <2>3, <3>2, ConcatEmptySeq, AppendIsConcat
    <3>4. Wanted' = Wanted + Sign(side)
      BY <2>2, <3>1
    <3> QED BY <1>1, <2>1, <2>2, <3>1, <3>3, <3>4, OneMoreOrder
  <2>5. CASE trade # NoTrade
    <3>1. CloseMishap = "none"
      BY <1>3, <2>5
    <3>2. /\ mishap = "none" /\ sent = <<>> /\ unseen = <<>>
          /\ CloseOrders = <<-known>> /\ known \in Int
      BY <1>1, <2>5, <3>1, CloseIs DEF TypeInv, MarketType
    <3>3. sent' = <<>> \o (<<-known>> \o <<Sign(side)>>)
      BY <1>3, <2>5, <3>2 DEF Market
    <3>4. <<-known>> \o <<Sign(side)>> = <<-known, Sign(side)>>
      <4>1. <<-known>> \in Seq(Int)
        BY <3>2
      <4>2. ASSUME NEW a \in Int, NEW b \in Int PROVE Append(<<a>>, b) = <<a, b>>
        <5>1. <<a>> \in Seq(Int) /\ Len(<<a>>) = 1 /\ <<a>>[1] = a
          OBVIOUS
        <5>2. <<a, b>> \in Seq(Int) /\ Len(<<a, b>>) = 2
              /\ <<a, b>>[1] = a /\ <<a, b>>[2] = b
          OBVIOUS
        <5>3. DEFINE longer == Append(<<a>>, b)
        <5>4. /\ longer \in Seq(Int) /\ Len(longer) = 2
              /\ longer[1] = a /\ longer[2] = b
          BY ONLY <5>1, AppendProperties
        <5> HIDE DEF longer
        <5>5. longer = <<a, b>>
          BY ONLY <5>2, <5>4, SeqEqual
        <5> QED BY <5>5 DEF longer
      <4>3. Append(<<-known>>, Sign(side)) = <<-known, Sign(side)>>
        BY <2>2, <3>2, <4>2
      <4> QED BY <2>2, <4>1, <4>3, AppendIsConcat
    <3>5. <<-known, Sign(side)>> \in Seq(Int)
      BY <2>2, <3>2
    <3>6. sent' = <<-known, Sign(side)>>
      BY <3>3, <3>4, <3>5, ConcatEmptySeq
    <3> QED BY <1>1, <2>1, <2>2, <3>2, <3>6, TwoOrders
  <2> QED BY <2>4, <2>5
<1> QED BY <1>2, <1>3 DEF OnCross

LEMMA FlightInvStep == TypeInv /\ FlightInv /\ [TradingNext]_tradingVars => FlightInv'
<1> SUFFICES ASSUME TypeInv, FlightInv, [TradingNext]_tradingVars, mishap' = "none"
             PROVE  FlightInv'
  BY DEF FlightInv
<1>1. CASE OnStart
  <2>1. /\ phase = "new" /\ phase' \in {"running", "deaf"}
        /\ UNCHANGED <<trade, sent, unseen, known, longs, shorts, mishap>>
    BY <1>1 DEF OnStart, marketVars
  <2> QED BY <2>1, QuietFlight DEF Wanted
<1>2. CASE OnStop
  BY <1>2, OnStopFlight
<1>3. ASSUME NEW bar \in Bars, OnBar(bar) PROVE FlightInv'
  BY <1>3, OnBarFlight
<1>4. ASSUME NEW side \in {"BUY", "SELL", "none"}, OnCross(side) PROVE FlightInv'
  BY <1>4, OnCrossFlight
<1>5. CASE Execute
  BY <1>5, ExecuteFlight DEF Execute
<1>6. CASE Refuse \/ LoseFill
  BY <1>6 DEF Refuse, LoseFill, OneFault, Mishap
<1>7. CASE PollFill
  BY <1>7, PollFlight DEF PollFill
<1>8. CASE OtherTrades
  BY <1>8, QuietFlight DEF OtherTrades, strategyVars, Wanted
<1>9. CASE UNCHANGED tradingVars
  BY <1>9, QuietFlight DEF tradingVars, strategyVars, marketVars, Wanted
<1> QED BY <1>1, <1>2, <1>3, <1>4, <1>5, <1>6, <1>7, <1>8, <1>9 DEF TradingNext

-----------------------------------------------------------------------------
(* The specification. *)

LEMMA TradingInvAlways == TradingSpec => [](TypeInv /\ BooksInv /\ FlightInv)
<1>1. /\ script \in {"fvg", "live", "sma"} /\ hedging \in BOOLEAN /\ TradingInit
      => TypeInv /\ BooksInv /\ FlightInv
  BY TypeInvInit, BooksInvInit, FlightInvInit
<1>2. TypeInv /\ BooksInv /\ FlightInv /\ [TradingNext]_tradingVars
      => (TypeInv /\ BooksInv /\ FlightInv)'
  BY TypeInvStep, BooksInvStep, FlightInvStep
<1> QED BY <1>1, <1>2, PTL DEF TradingSpec

(* What the invariant says of the properties. *)

LEMMA TypesHold == TypeInv => TradingTypeOK
BY DEF TypeInv, StrategyType, MarketType, TradingTypeOK

LEMMA StatsHold == TypeInv /\ BooksInv => StatsAgree
<1> SUFFICES ASSUME TypeInv, BooksInv PROVE StatsAgree
  OBVIOUS
<1>1. ASSUME ~stats.beyond PROVE NetPnl = Equity
  <2>1. stats.won \in Int /\ stats.lost \in Int /\ stats.lost <= 0
    BY <1>1 DEF TypeInv, StrategyType, Books, BooksInv
  <2> QED BY <2>1 DEF NetPnl, Equity, Abs
<1> QED BY <1>1 DEF BooksInv, StatsAgree

LEMMA FlagHolds == TypeInv /\ FlightInv => FlagTellsTruth
<1> SUFFICES ASSUME TypeInv, FlightInv, mishap = "none"
             PROVE  /\ Abs(longs - shorts) <= 1
                    /\ sent = <<>> /\ unseen = <<>> =>
                         known = Wanted /\ longs - shorts = Wanted
  BY DEF FlagTellsTruth
<1>1. /\ Len(sent) \in Nat /\ Len(unseen) \in Nat /\ known \in Int
      /\ longs - shorts \in Int
  BY DEF TypeInv, MarketType
<1>2. longs - shorts \in -1..1
  <2>1. CASE Len(unseen) = 0
    BY <2>1 DEF FlightInv
  <2>2. CASE Len(unseen) = 1
    <3>1. Order(1) = unseen[1]
      BY <2>2 DEF Order
    <3>2. UnderWay = 1 \/ UnderWay = 2
      <4>1. UnderWay <= 2
        BY DEF FlightInv
      <4> QED BY ONLY <1>1, <2>2, <4>1 DEF UnderWay
    <3> QED BY <2>2, <3>1, <3>2, WantedIs DEF FlightInv
  <2>3. CASE Len(unseen) = 2
    <3>1. Order(1) = unseen[1] /\ Order(2) = unseen[2]
      BY <2>3 DEF Order
    <3>2. UnderWay = 2
      <4>1. UnderWay <= 2
        BY DEF FlightInv
      <4> QED BY ONLY <1>1, <2>3, <4>1 DEF UnderWay
    <3> QED BY <2>3, <3>1, <3>2, WantedIs DEF FlightInv
  <2>4. Len(unseen) = 0 \/ Len(unseen) = 1 \/ Len(unseen) = 2
    <3>1. UnderWay <= 2
      BY DEF FlightInv
    <3>2. Len(unseen) + Len(sent) <= 2
      BY <3>1 DEF UnderWay
    <3>3. \A m, n \in Nat : m + n <= 2 => m = 0 \/ m = 1 \/ m = 2
      OBVIOUS
    <3> QED BY ONLY <1>1, <3>2, <3>3
  <2> QED BY <2>1, <2>2, <2>3, <2>4
<1>3. ASSUME sent = <<>>, unseen = <<>>
      PROVE  known = Wanted /\ longs - shorts = Wanted
  BY <1>3 DEF FlightInv, UnderWay
<1> QED BY <1>1, <1>2, <1>3 DEF Abs

(* A zone and a trade exclude each other, a zone has room between its      *)
(* edges, and a netting account holds one direction only.                  *)
THEOREM TradingTypeCorrect == TradingSpec => []TradingTypeOK
BY TypesHold, TradingInvAlways, PTL

(* Wins and losses account for the trades, and get_stats() for the equity, *)
(* unless some trade was entered beyond its stop.                          *)
THEOREM StatsAddUp == TradingSpec => []StatsAgree
BY StatsHold, TradingInvAlways, PTL

(* While nothing went wrong the broker never holds more than one trade     *)
(* size, and once nothing is under way the strategy's flag, the engine's   *)
(* position and the broker's are the same.                                 *)
THEOREM FlagIsTrue == TradingSpec => []FlagTellsTruth
BY FlagHolds, TradingInvAlways, PTL

=============================================================================
