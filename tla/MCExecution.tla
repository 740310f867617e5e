----------------------------- MODULE MCExecution -----------------------------
(***************************************************************************)
(* The execution client for TLC.  Client order ids are interchangeable; no *)
(* definition names one of them.                                           *)
(***************************************************************************)
EXTENDS MT5Execution, TLC

OrderSymmetry == Permutations(Orders)

=============================================================================
