------------------------------ MODULE FillLedger ------------------------------
(***************************************************************************)
(* What the execution client promises about fills, without saying how: the *)
(* broker executes deals one after the other, and each deal is reported to *)
(* the trading engine at most once, and not before it was executed         *)
(* (mt5connect/execution.py:763-765).                                      *)
(***************************************************************************)
EXTENDS Integers

CONSTANT Deals      \* deal tickets, numbered in the order of execution

VARIABLES
  executed,   \* how many deals the broker has executed
  reported    \* per deal: how often it was reported

ledgerVars == <<executed, reported>>

LedgerInit ==
  /\ executed = 0
  /\ reported = [d \in Deals |-> 0]

(* The broker executes the next deal. *)
Execute ==
  /\ executed + 1 \in Deals
  /\ executed' = executed + 1
  /\ UNCHANGED reported

(* A poll reports some executed deals that were never reported before. *)
Report ==
  \E batch \in SUBSET {d \in Deals : d <= executed /\ reported[d] = 0} :
    /\ reported' = [d \in Deals |-> IF d \in batch THEN 1 ELSE reported[d]]
    /\ UNCHANGED executed

LedgerNext == Execute \/ Report

LedgerSpec == LedgerInit /\ [][LedgerNext]_ledgerVars

=============================================================================
