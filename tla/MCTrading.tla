------------------------------ MODULE MCTrading ------------------------------
(***************************************************************************)
(* For TLC: a node that runs one of the example strategies, or any         *)
(* strategy that works with a pending order ("orders").                    *)
(***************************************************************************)
EXTENDS ExampleStrategies, MT5Orders

Bar(low, high, close) == [low |-> low, high |-> high, close |-> close]

MCBars == {Bar(8, 8, 8), Bar(6, 8, 6), Bar(2, 4, 2)}

MCOthers == {0, -1}

MCTradingInit ==
  /\ script \in {"fvg", "live", "sma", "orders"}
  /\ hedging \in (IF script = "orders" THEN {FALSE} ELSE BOOLEAN)
  /\ TradingInit
  /\ OrdersInit
  /\ script # "orders" => ~found

MCTradingNext ==
  \/ script # "orders" /\ TradingNext /\ UNCHANGED orderVars
  \/ script = "orders" /\ OrdersNext /\ UNCHANGED tradingVars

MCTradingSpec == MCTradingInit /\ [][MCTradingNext]_<<tradingVars, orderVars>>

(* The variables of both modules keep their types. *)
MCTypeOK == TradingTypeOK /\ OrdersTypeOK

=============================================================================
