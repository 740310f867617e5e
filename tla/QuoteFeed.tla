------------------------------ MODULE QuoteFeed ------------------------------
(***************************************************************************)
(* What the data client promises about quotes, without saying how: each    *)
(* publication of a symbol is newer than every other since the symbol was  *)
(* last released (mt5connect/data.py:371-376), and after a release at most *)
(* one more comes, from a poll that was under way (data.py:354-356).       *)
(***************************************************************************)
EXTENDS Integers, Sequences

CONSTANT Symbols

VARIABLES
  market,    \* per symbol: time of the broker's newest tick
  standing,  \* symbols the engine asked for
  late,      \* released symbols that one more tick may come of
  heard      \* per symbol: the tick times published since its last release

feedVars == <<market, standing, late, heard>>

FeedInit ==
  /\ market = [s \in Symbols |-> 0]
  /\ standing = {}
  /\ late = {}
  /\ heard = [s \in Symbols |-> <<>>]

Tick(s) ==
  /\ market' = [market EXCEPT ![s] = @ + 1]
  /\ UNCHANGED <<standing, late, heard>>

Ask(asked) ==
  /\ standing' = standing \cup asked
  /\ late' = late \ asked
  /\ UNCHANGED <<market, heard>>

(* The engine releases symbols, one or all. *)
Release(released) ==
  /\ standing' = standing \ released
  /\ late' \in SUBSET (late \cup released)
  /\ heard' = [s \in Symbols |-> IF s \in released THEN <<>> ELSE heard[s]]
  /\ UNCHANGED market

Publish(s) ==
  /\ s \in standing \cup late
  /\ \A i \in DOMAIN heard[s] : heard[s][i] < market[s]
  /\ heard' = [heard EXCEPT ![s] = Append(@, market[s])]
  /\ late' = late \ {s}
  /\ UNCHANGED <<market, standing>>

(* The poll that was under way passes symbols by, or ends. *)
Settle ==
  /\ late' \in SUBSET late
  /\ UNCHANGED <<market, standing, heard>>

FeedNext ==
  \/ \E s \in Symbols : Tick(s) \/ Publish(s)
  \/ \E some \in SUBSET Symbols : Ask(some) \/ Release(some)
  \/ Settle

FeedSpec == FeedInit /\ [][FeedNext]_feedVars

=============================================================================
