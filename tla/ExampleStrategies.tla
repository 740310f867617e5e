-------------------------- MODULE ExampleStrategies --------------------------
(***************************************************************************)
(* The strategies of examples/: the fair value gap strategy of             *)
(* fvg_strategy.py ("fvg"), its live variant of live.py ("live") and the   *)
(* moving average crossover of backtest_eurusd.py ("sma"), each on its own *)
(* against an engine and a broker that answer later.                       *)
(*                                                                         *)
(* A strategy keeps its own notion of its position and sends market orders *)
(* only.  An order waits in the engine (sent), is executed or refused at   *)
(* the broker, and its fill waits (unseen) until the execution client      *)
(* polls it; only then the engine's position (known) changes.              *)
(*                                                                         *)
(* Prices are even integers in units of half a point, so that half a gap   *)
(* is one; volumes are trade sizes, signed, positive for BUY.  The moving  *)
(* averages are not computed: the trend filter may or may not block, the   *)
(* fast average is above, below or at the slow one.                        *)
(***************************************************************************)
EXTENDS Integers, Sequences

CONSTANTS
  Bars,        \* bars that may come: records low, high, close
  MinGap,      \* fvg_min_size
  RiskReward,  \* risk_reward
  MaxBars,     \* FVGZone.max_bars
  WarmupBars,  \* warmup_bars of fvg_strategy.py, slow_period of "sma"
  WindowBars,  \* max(sma_period + 5, 10), or the 100 of live.py
  Others,      \* positions another strategy may have
  MaxEntries   \* bound: entries of a strategy

ASSUME StrategiesAssumption ==
  /\ Bars \subseteq [low : Nat, high : Nat, close : Nat]
  /\ MinGap \in Nat \ {0}
  /\ RiskReward \in Nat \ {0}
  /\ MaxBars \in Nat
  /\ WarmupBars \in Nat
  /\ WindowBars \in Nat
  /\ Others \subseteq Int
  /\ MaxEntries \in Nat

VARIABLES
  script,    \* which of the strategies this is
  phase,     \* new, running, deaf (no instrument, no subscription), stopped
  count,     \* _bar_count, as far as the warm-up asks
  recent,    \* the last two bars
  zone,      \* _pending_fvg with the bars since it was formed, else NoZone
  trade,     \* _position_side, _entry_price, ..., else NoTrade
  stats,     \* _trades, _wins, _losses, the pnl of both; beyond is history:
             \* some trade was entered beyond its stop
  sent,      \* orders submitted and not yet executed
  unseen,    \* fills not yet polled
  known,     \* the engine's position of this strategy
  other,     \* the engine's position of another strategy
  hedging,   \* whether the account keeps both directions apart
  longs,     \* what the broker holds for this strategy
  shorts,
  mishap,    \* history: what first went wrong between strategy and broker
  entries    \* bound and history: entries so far

strategyVars == <<phase, count, recent, zone, trade, stats>>
marketVars == <<sent, unseen, known, other, longs, shorts, mishap>>
tradingVars == <<strategyVars, marketVars, script, hedging, entries>>

Sign(side) == IF side = "BUY" THEN 1 ELSE -1

Mishap(what) == IF mishap = "none" THEN what ELSE mishap

Abs(n) == IF n < 0 THEN -n ELSE n

NoZone == [side |-> "none"]
NoTrade == [side |-> "none"]

TradingInit ==
  /\ phase = "new"
  /\ count = 0
  /\ recent = <<>>
  /\ zone = NoZone
  /\ trade = NoTrade
  /\ stats = [trades |-> 0, wins |-> 0, losses |-> 0, won |-> 0, lost |-> 0,
              beyond |-> FALSE]
  /\ sent = <<>>
  /\ unseen = <<>>
  /\ known = 0
  /\ other = 0
  /\ longs = 0
  /\ shorts = 0
  /\ mishap = "none"
  /\ entries = 0

-----------------------------------------------------------------------------
(* Orders of a strategy. *)

Market(orders) == sent' = sent \o orders

(* The orders that close position p of the engine's cache. *)
Closing(p, volume) == IF p = 0 THEN <<>> ELSE <<volume>>

(* Mutant: a position is closed with an order of its own direction. *)
CloseOrdersAgain ==
  Closing(known, Sign(trade.side) * Abs(known)) \o
  Closing(other, Sign(trade.side) * Abs(other))

(* fvg: every open position on the instrument, with the side opposite to   *)
(* the strategy's own flag.  sma: every one, opposite to its own side.     *)
(* live: close_all_positions(), those of this strategy.                    *)
CloseOrders ==
  CASE script = "fvg" ->
         Closing(known, -Sign(trade.side) * Abs(known)) \o
         Closing(other, -Sign(trade.side) * Abs(other))
    [] script = "sma" -> Closing(known, -known) \o Closing(other, -other)
    [] script = "live" -> Closing(known, -known)

(* What a close has not seen coming: fills under way, positions of others. *)
CloseMishap ==
  IF sent # <<>> \/ unseen # <<>> THEN Mishap("overtaken")
  ELSE IF script # "live" /\ other # 0 THEN Mishap("shared")
  ELSE mishap

-----------------------------------------------------------------------------
(* on_start() and on_stop() *)

OnStart ==
  /\ phase = "new"
  /\ phase' \in {"running", "deaf"}
  /\ UNCHANGED <<count, recent, zone, trade, stats, marketVars, script, hedging,
                 entries>>

(* The live variant keeps its flag, the others forget their position.      *)
OnStop ==
  /\ phase \in {"running", "deaf"}
  /\ phase' = "stopped"
  /\ IF trade = NoTrade
       THEN UNCHANGED <<sent, mishap, trade>>
       ELSE /\ Market(CloseOrders)
            /\ mishap' = CloseMishap
            /\ trade' = IF script = "live" THEN trade ELSE NoTrade
  /\ UNCHANGED <<count, recent, zone, stats, unseen, known, other, longs, shorts,
                 script, hedging, entries>>

-----------------------------------------------------------------------------
(* The fair value gap strategy. *)

(* self._bars keeps what the warm-up filled it with, or WindowBars. *)
Retained ==
  IF script = "fvg" /\ WarmupBars - 1 > WindowBars THEN WarmupBars - 1
                                                   ELSE WindowBars

(* The current bar and those since the zone was formed, of the bars that   *)
(* are still in self._bars.                                                *)
Stale(z) == z.age + 1 > MaxBars /\ Retained > MaxBars

Gap(side, high, low, stop) ==
  [side |-> side, low |-> low, high |-> high, stop |-> stop, age |-> 0]

(* _detect_fvg() with the bar c, when the trend filter does not block.     *)
Detected(c) ==
  LET a == recent[1]  b == recent[2] IN
  IF c.high < a.low THEN
       LET size == a.low - c.high IN
       IF size >= MinGap THEN Gap("BUY", a.low, c.high, b.low - size \div 2)
                         ELSE NoZone
  ELSE IF c.low > a.high THEN
       LET size == c.low - a.high IN
       IF size >= MinGap THEN Gap("SELL", c.low, a.high, b.high + size \div 2)
                         ELSE NoZone
  ELSE NoZone

Touches(z, bar) == bar.low <= z.high /\ bar.high >= z.low

(* The trade a touched zone becomes at the close of the bar. *)
Entered(z, bar) ==
  [side |-> z.side, entry |-> bar.close, stop |-> z.stop,
   target |-> bar.close + Sign(z.side) * RiskReward * Abs(bar.close - z.stop)]

Aged(z) == [z EXCEPT !.age = @ + 1]

(* _check_fvg_entry(): not touched, at its stop, or entered. *)
CheckEntry(z, bar) ==
  \/ /\ ~Touches(z, bar)
     /\ zone' = Aged(z)
     /\ UNCHANGED <<trade, stats, sent, entries>>
  \/ /\ Touches(z, bar)
     /\ bar.close = z.stop
     /\ zone' = NoZone
     /\ UNCHANGED <<trade, stats, sent, entries>>
  \/ /\ Touches(z, bar)
     /\ bar.close # z.stop
     /\ entries' = entries + 1
     /\ Market(<<Sign(z.side)>>)
     /\ trade' = Entered(z, bar)
     /\ stats' =
          IF script # "fvg" THEN stats ELSE
            [stats EXCEPT !.trades = @ + 1,
                          !.beyond = @ \/ Sign(z.side) * (bar.close - z.stop) < 0]
     /\ zone' = NoZone

PendingFvg == zone # NoZone /\ ~Stale(zone)

(* The part of on_bar() for a strategy without a position. *)
LookForEntry(bar) ==
  /\ trade = NoTrade
  /\ UNCHANGED mishap
  /\ \/ /\ PendingFvg
        /\ CheckEntry(zone, bar)
     \/ /\ ~PendingFvg
        /\ Len(recent) = 2
        /\ zone' \in {Detected(bar)} \cup (IF script = "fvg" THEN {NoZone} ELSE {})
        /\ UNCHANGED <<trade, stats, sent, entries>>
     \/ /\ Len(recent) < 2
        /\ UNCHANGED <<zone, trade, stats, sent, entries>>

HitStop(bar) ==
  IF trade.side = "BUY" THEN bar.low <= trade.stop ELSE bar.high >= trade.stop
HitTarget(bar) ==
  IF trade.side = "BUY" THEN bar.high >= trade.target ELSE bar.low <= trade.target

Pnl(exit) == Sign(trade.side) * (exit - trade.entry)

(* Mutant: a bar that reaches both prices counts as a win and as a loss. *)
CountedTwice(bar) ==
  [stats EXCEPT
     !.wins = IF HitTarget(bar) THEN @ + 1 ELSE @,
     !.won = IF HitTarget(bar) THEN @ + Pnl(trade.target) ELSE @,
     !.losses = IF HitStop(bar) THEN @ + 1 ELSE @,
     !.lost = IF HitStop(bar) THEN @ + Pnl(trade.stop) ELSE @]

(* The target wins over the stop when a bar reaches both. *)
Counted(bar) ==
  IF HitTarget(bar)
    THEN [stats EXCEPT !.wins = @ + 1, !.won = @ + Pnl(trade.target)]
    ELSE [stats EXCEPT !.losses = @ + 1, !.lost = @ + Pnl(trade.stop)]

(* _check_exit() and _close_position() *)
CheckExit(bar) ==
  /\ trade # NoTrade
  /\ UNCHANGED <<zone, entries>>
  /\ IF HitStop(bar) \/ HitTarget(bar)
       THEN /\ Market(CloseOrders)
            /\ mishap' = CloseMishap
            /\ trade' = NoTrade
            /\ stats' = IF script = "fvg" THEN Counted(bar) ELSE stats
       ELSE UNCHANGED <<sent, mishap, trade, stats>>

Warm == script # "fvg" \/ count + 1 >= WarmupBars

(* Mutant: the oldest bar is not dropped. *)
RememberAll(bar) ==
  /\ count' = IF count < WarmupBars THEN count + 1 ELSE count
  /\ recent' = Append(recent, bar)

(* The bar count, and the window of bars. *)
Remember(bar) ==
  /\ count' = IF count < WarmupBars THEN count + 1 ELSE count
  /\ recent' = IF Len(recent) < 2 THEN Append(recent, bar) ELSE <<recent[2], bar>>

(* on_bar() *)
OnBar(bar) ==
  /\ script # "sma"
  /\ phase = "running"
  /\ trade # NoTrade \/ entries < MaxEntries
  /\ Remember(bar)
  /\ \/ ~Warm /\ UNCHANGED <<zone, trade, stats, sent, mishap, entries>>
     \/ Warm /\ CheckExit(bar)
     \/ Warm /\ LookForEntry(bar)
  /\ UNCHANGED <<phase, unseen, known, other, longs, shorts, script, hedging>>

-----------------------------------------------------------------------------
(* SmaCross: on a cross, close and open the other way; both orders go out  *)
(* one behind the other.                                                   *)
OnCross(side) ==
  /\ script = "sma"
  /\ phase = "running"
  /\ count' = IF count < WarmupBars THEN count + 1 ELSE count
  /\ IF count + 1 >= WarmupBars /\ side # "none" /\ trade.side # side
       THEN /\ entries < MaxEntries
            /\ entries' = entries + 1
            /\ trade' = [side |-> side]
            /\ Market((IF trade = NoTrade THEN <<>> ELSE CloseOrders) \o <<Sign(side)>>)
            /\ mishap' = IF trade = NoTrade THEN mishap ELSE CloseMishap
       ELSE UNCHANGED <<entries, trade, sent, mishap>>
  /\ UNCHANGED <<phase, recent, zone, stats, unseen, known, other, longs, shorts,
                 script, hedging>>

-----------------------------------------------------------------------------
(* The engine and the broker. *)

Lesser(a, b) == IF a < b THEN a ELSE b

(* The oldest order is executed; a request names no position, so that a    *)
(* hedging account opens one in the other direction instead of closing.    *)
Execute ==
  /\ sent # <<>>
  /\ sent' = Tail(sent)
  /\ LET v == Head(sent)
         l == longs + (IF v > 0 THEN v ELSE 0)
         s == shorts + (IF v < 0 THEN -v ELSE 0)
         both == IF hedging THEN 0 ELSE Lesser(l, s)
     IN /\ longs' = l - both
        /\ shorts' = s - both
        /\ unseen' = Append(unseen, v)
  /\ UNCHANGED <<strategyVars, known, other, mishap, script, hedging, entries>>

(* Bound: nothing else goes wrong after the first mishap. *)
OneFault == mishap = "none"

(* It is refused, or its submission raises; no strategy listens for that. *)
Refuse ==
  /\ OneFault
  /\ sent # <<>>
  /\ sent' = Tail(sent)
  /\ mishap' = Mishap("refused")
  /\ UNCHANGED <<strategyVars, unseen, known, other, longs, shorts, script,
                 hedging, entries>>

(* The execution client polls the oldest fill. *)
PollFill ==
  /\ unseen # <<>>
  /\ unseen' = Tail(unseen)
  /\ known' = known + Head(unseen)
  /\ UNCHANGED <<strategyVars, sent, other, longs, shorts, mishap, script,
                 hedging, entries>>

(* ... or never: see dropped and day in MT5Execution. *)
LoseFill ==
  /\ OneFault
  /\ unseen # <<>>
  /\ unseen' = Tail(unseen)
  /\ mishap' = Mishap("lost")
  /\ UNCHANGED <<strategyVars, sent, known, other, longs, shorts, script,
                 hedging, entries>>

OtherTrades ==
  /\ OneFault
  /\ script # "live"      \* which looks at its own positions only
  /\ other' \in Others \ {other}
  /\ UNCHANGED <<strategyVars, sent, unseen, known, longs, shorts, mishap,
                 script, hedging, entries>>

TradingNext ==
  \/ OnStart \/ OnStop
  \/ \E bar \in Bars : OnBar(bar)
  \/ \E side \in {"BUY", "SELL", "none"} : OnCross(side)
  \/ Execute \/ Refuse
  \/ PollFill \/ LoseFill
  \/ OtherTrades

TradingSpec ==
  /\ script \in {"fvg", "live", "sma"}
  /\ hedging \in BOOLEAN
  /\ TradingInit
  /\ [][TradingNext]_tradingVars

-----------------------------------------------------------------------------
(* Correctness. *)

(* Every variable keeps its type; a zone and a trade exclude each other;   *)
(* the history of bars stays short.                                        *)
TradingTypeOK ==
  /\ phase \in {"new", "running", "deaf", "stopped"}
  /\ count \in 0..WarmupBars
  /\ Len(recent) <= 2
  /\ zone # NoZone => trade = NoTrade /\ zone.low < zone.high
  /\ trade # NoTrade => entries > 0
  /\ longs \in Nat /\ shorts \in Nat
  /\ ~hedging => longs = 0 \/ shorts = 0
  /\ entries \in 0..MaxEntries

Wanted == IF trade = NoTrade \/ phase = "stopped" THEN 0 ELSE Sign(trade.side)

(* When no order was refused, no fill lost, no close sent while a fill was *)
(* under way and no other strategy on the instrument: the broker never     *)
(* holds more than one trade size, and with nothing under way the position *)
(* the strategy believes in, the engine's and the broker's are the same.   *)
FlagTellsTruth ==
  mishap = "none" =>
    /\ Abs(longs - shorts) <= 1
    /\ sent = <<>> /\ unseen = <<>> =>
         known = Wanted /\ longs - shorts = Wanted

(* get_stats(): net_pnl from gross profit and gross loss, and the equity   *)
(* the drawdown is computed along.                                         *)
NetPnl == stats.won - Abs(stats.lost)
Equity == stats.won + stats.lost

(* Every entry counted is a win, a loss or still open; net_pnl is what the *)
(* equity curve ends with, unless a trade was entered beyond its stop.     *)
StatsAgree ==
  /\ script = "fvg" /\ phase = "running" =>
       stats.trades = stats.wins + stats.losses + (IF trade = NoTrade THEN 0 ELSE 1)
  /\ ~stats.beyond => NetPnl = Equity

=============================================================================
