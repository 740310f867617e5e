------------------------------- MODULE MCData -------------------------------
(***************************************************************************)
(* The data client for TLC: s1 is in config.symbols, s2 is not and has two *)
(* bar types that share its quotes.  Both are in upper case but where a    *)
(* run has s1 for a name like EURUSDm.                                     *)
(***************************************************************************)
EXTENDS MT5Data

CONSTANTS s1, s2, S1

MCSymbols == {s1, s2}
MCConfigSymbols == {s1}
MCBarType == {s2} \X {1, 5}
MCUpper == [s \in MCSymbols |-> s]
MCUpperCased == [s \in MCSymbols |-> IF s = s1 THEN S1 ELSE s]

=============================================================================
