------------------------------- MODULE Outage -------------------------------
(***************************************************************************)
(* What a poll loop does about outages, without the connection it shares:  *)
(* "On connection error -> attempt reconnect. On reconnect failure -> stop *)
(* loop (node must be restarted)" (mt5connect/execution.py:694-695).       *)
(* An outage is met with at most so many handshakes, each after a pause no *)
(* shorter than the one before; a loop that gave up, or that left while it *)
(* had no connection, never polls again.                                   *)
(***************************************************************************)
EXTENDS Integers

CONSTANTS
  Attempts,   \* handshakes an outage is met with
  First,      \* the first pause of an outage
  Longest     \* the ceiling of the others

VARIABLES
  mode,       \* ready (to start), serving, retrying, over
  made,       \* handshakes made in this outage
  pause       \* the pause before the next handshake, or the last one

outageVars == <<mode, made, pause>>

OutageInit ==
  /\ mode = "ready"
  /\ made = 0
  /\ pause = 0

(* The client connects and its loop polls. *)
Begin ==
  /\ mode = "ready"
  /\ mode' = "serving"
  /\ UNCHANGED <<made, pause>>

Interrupt ==
  /\ mode = "serving"
  /\ Attempts > 0
  /\ mode' = "retrying"
  /\ pause' = First
  /\ UNCHANGED made

NoShorter(p) == {q \in 0..Longest : p <= Longest => p <= q}

Retry ==
  /\ mode = "retrying"
  /\ made + 1 < Attempts
  /\ made' = made + 1
  /\ pause' \in NoShorter(pause)
  /\ UNCHANGED mode

(* A handshake succeeds: the next outage starts anew. *)
Recover ==
  /\ mode = "retrying"
  /\ mode' = "serving"
  /\ made' = 0
  /\ UNCHANGED pause

GiveUpOn ==
  /\ \/ mode = "retrying" /\ made' = made + 1
     \/ mode = "serving" /\ made' = made
  /\ made' = Attempts
  /\ mode' = "over"
  /\ UNCHANGED pause

(* The client disconnects, or the connection is closed before it starts. *)
Leave ==
  /\ mode' \in (IF mode = "serving" THEN {"ready", "over"} ELSE {"over"})
  /\ UNCHANGED <<made, pause>>

OutageNext == Begin \/ Interrupt \/ Retry \/ Recover \/ GiveUpOn \/ Leave

OutageSpec == OutageInit /\ [][OutageNext]_outageVars

=============================================================================
