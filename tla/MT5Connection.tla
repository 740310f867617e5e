---------------------------- MODULE MT5Connection ----------------------------
(***************************************************************************)
(* The life cycle of the one MT5Connection object a trading node shares    *)
(* between its clients (mt5connect/connection.py), together with the       *)
(* MetaTrader 5 terminal it talks to.                                      *)
(*                                                                         *)
(* The object is used from asyncio tasks of one thread.  Every method but  *)
(* reconnect_async() runs to its end without an await, so it is one        *)
(* action; reconnect_async() gives up control only in its back-off sleep,  *)
(* so it is the action ReconnectAsync (from the call to the first sleep)   *)
(* and the action Wake (from the end of one sleep to the next, or to the   *)
(* return).  The states INITIALIZING, LOGGING_IN and SHUTTING_DOWN begin   *)
(* and end inside one action and no other task can observe them.           *)
(*                                                                         *)
(* A definition whose comment starts with "Mutant" is a deliberately wrong *)
(* variant of the definition after it; no specification uses it.           *)
(***************************************************************************)
EXTENDS Integers, FiniteSets

CONSTANTS
  Callers,        \* tasks that may await reconnect_async()
  MaxAttempts,    \* config.reconnect_max_attempts
  InitialDelay,   \* config.reconnect_initial_delay_s
  MaxDelay,       \* config.reconnect_max_delay_s
  MaxFlaps        \* bound: how often the terminal changes in a behaviour

ASSUME ConnectionAssumption ==
  /\ IsFiniteSet(Callers)
  /\ MaxAttempts \in Nat
  /\ InitialDelay \in Nat
  /\ MaxDelay \in Nat
  /\ MaxFlaps \in Nat

VARIABLES
  state,      \* self._state
  attempt,    \* self._attempt, shared by every reconnecting task
  dated,      \* self._connected_at is not None
  link,       \* what the mt5 library really holds open
  terminal,   \* the terminal process and its broker
  asleep,     \* tasks inside the back-off sleep of reconnect_async()
  delay,      \* per task: length of its current (or last) sleep
  tries,      \* history: handshakes of reconnects since the last success
  flaps       \* bound: terminal changes so far

connVars ==
  <<state, attempt, dated, link, terminal, asleep, delay, tries, flaps>>

(* The states another task can observe. *)
ConnectionState ==
  {"DISCONNECTED", "INITIALIZED", "CONNECTED", "RECONNECTING", "FAILED"}

(* closed: mt5.shutdown() was the last word; ipc: initialised, not logged  *)
(* in; session: logged in; lost: opened, then the terminal went away.      *)
Link == {"closed", "ipc", "session", "lost"}

(* down: no process to talk to; offline: it runs but refuses the login. *)
Terminal == {"down", "offline", "up"}

ConnInit ==
  /\ state = "DISCONNECTED"
  /\ attempt = 0
  /\ dated = FALSE
  /\ link = "closed"
  /\ terminal \in Terminal
  /\ asleep = {}
  /\ delay = [c \in Callers |-> 0]
  /\ tries = 0
  /\ flaps = 0

-----------------------------------------------------------------------------
(* Helpers of the methods. *)

(* Mutant: a failed login forgets that the IPC channel is open. *)
LoginFailureDisconnects(from) ==
  /\ state' = IF terminal = "up" THEN "CONNECTED" ELSE "DISCONNECTED"
  /\ link' = CASE terminal = "down" -> from
               [] terminal = "offline" -> "ipc"
               [] terminal = "up" -> "session"
  /\ dated' = (dated \/ terminal = "up")

(* _initialize() and, when it succeeds, _login(), over a link that was     *)
(* `from`.  Each failing half raises and leaves a state of its own.        *)
Handshake(from) ==
  \/ /\ terminal = "down"
     /\ state' = "DISCONNECTED"
     /\ link' = from
     /\ UNCHANGED dated
  \/ /\ terminal = "offline"
     /\ state' = "INITIALIZED"
     /\ link' = "ipc"
     /\ UNCHANGED dated
  \/ /\ terminal = "up"
     /\ state' = "CONNECTED"
     /\ link' = "session"
     /\ dated' = TRUE

(* ensure_connected() returns; otherwise it raises MT5ConnectionError. *)
EnsureConnected == state = "CONNECTED"

(* get_account_info() returns a snapshot; otherwise it raises. *)
AccountInfoAnswers == EnsureConnected /\ link = "session"

(* Mutant: the loop condition counts one attempt too many. *)
AttemptsLeftOneMore == attempt <= MaxAttempts

(* Mutant: the loop condition gives up one attempt too early. *)
AttemptsLeftOneLess == attempt + 1 < MaxAttempts

(* The condition of both reconnect loops. *)
AttemptsLeft == attempt < MaxAttempts

(* Mutant: the back-off doubles without a ceiling. *)
NextDelayUncapped(d) == 2 * d

(* The delay after a sleep of length d. *)
NextDelay(d) == IF 2 * d < MaxDelay THEN 2 * d ELSE MaxDelay

(* Both reconnect loops end without success: the last login may have left  *)
(* a date, and the counter is not reset.                                   *)
GiveUp ==
  /\ state' = "FAILED"
  /\ UNCHANGED dated

(* Mutant: success does not give the next outage a fresh retry budget. *)
SucceedKeepsCounter ==
  /\ attempt' = attempt
  /\ tries' = 0

(* A completed handshake resets the retry counter. *)
Succeed ==
  /\ attempt' = 0
  /\ tries' = 0

-----------------------------------------------------------------------------
(* Methods. *)

(* connect(): a failed half raises and leaves the retry counter alone. *)
Connect ==
  /\ Handshake(link)
  /\ IF terminal = "up" THEN Succeed ELSE UNCHANGED <<attempt, tries>>
  /\ UNCHANGED <<terminal, asleep, delay, flaps>>

(* disconnect(): returns early when already DISCONNECTED. *)
Disconnect ==
  /\ state # "DISCONNECTED"
  /\ state' = "DISCONNECTED"
  /\ link' = "closed"
  /\ dated' = FALSE
  /\ UNCHANGED <<attempt, terminal, asleep, delay, tries, flaps>>

(* reconnect(): blocks the thread, so all the attempts it has left happen  *)
(* in one step.  When the terminal changes between two of them, the step   *)
(* ends as if it had changed before the first.                             *)
Reconnect ==
  /\ \/ /\ AttemptsLeft
        /\ terminal = "up"
        /\ Handshake("closed")
        /\ Succeed
     \/ /\ AttemptsLeft
        /\ terminal # "up"
        /\ link' = IF terminal = "down" THEN "closed" ELSE "ipc"
        /\ attempt' = MaxAttempts
        /\ tries' = tries + (MaxAttempts - attempt)
        /\ GiveUp
     \/ /\ ~AttemptsLeft
        /\ GiveUp
        /\ UNCHANGED <<attempt, link, tries>>
  /\ UNCHANGED <<terminal, asleep, delay, flaps>>

(* reconnect_async() up to its first sleep, or to its return when no       *)
(* attempt is left.                                                        *)
ReconnectAsync(c) ==
  /\ c \notin asleep
  /\ \/ /\ AttemptsLeft
        /\ state' = "RECONNECTING"
        /\ attempt' = attempt + 1
        /\ asleep' = asleep \cup {c}
        /\ delay' = [delay EXCEPT ![c] = InitialDelay]
        /\ UNCHANGED dated
     \/ /\ ~AttemptsLeft
        /\ GiveUp
        /\ UNCHANGED <<attempt, asleep, delay>>
  /\ UNCHANGED <<link, terminal, tries, flaps>>

(* Mutant: a failed attempt is not counted. *)
WakeUncounted(c) ==
  /\ c \in asleep
  /\ Handshake("closed")
  /\ IF terminal = "up"
       THEN Succeed /\ asleep' = asleep \ {c}
       ELSE tries' = tries + 1 /\ UNCHANGED <<attempt, asleep>>
  /\ UNCHANGED <<terminal, delay, flaps>>

(* Mutant: a failed attempt starts over as if it had not been made. *)
WakeStartsOver(c) ==
  /\ c \in asleep
  /\ Handshake("closed")
  /\ IF terminal = "up" THEN Succeed /\ asleep' = asleep \ {c}
                        ELSE UNCHANGED <<attempt, tries, asleep>>
  /\ UNCHANGED <<terminal, delay, flaps>>

(* The sleep of reconnect_async() ends: shut down, try again, and on       *)
(* failure sleep longer or give up.                                        *)
Wake(c) ==
  /\ c \in asleep
  /\ \/ /\ terminal = "up"
        /\ Handshake("closed")
        /\ Succeed
        /\ asleep' = asleep \ {c}
        /\ UNCHANGED delay
     \/ /\ terminal # "up"
        /\ AttemptsLeft
        /\ Handshake("closed")
        /\ attempt' = attempt + 1
        /\ tries' = tries + 1
        /\ delay' = [delay EXCEPT ![c] = NextDelay(@)]
        /\ UNCHANGED asleep
     \/ /\ terminal # "up"
        /\ ~AttemptsLeft
        /\ link' = IF terminal = "down" THEN "closed" ELSE "ipc"
        /\ tries' = tries + 1
        /\ GiveUp
        /\ asleep' = asleep \ {c}
        /\ UNCHANGED <<attempt, delay>>
  /\ UNCHANGED <<terminal, flaps>>

(* The task that awaits reconnect_async() is cancelled in its sleep: the   *)
(* state and the attempt it had counted stay as they are.                  *)
CancelReconnect(c) ==
  /\ c \in asleep
  /\ asleep' = asleep \ {c}
  /\ UNCHANGED <<state, attempt, dated, link, terminal, delay, tries, flaps>>

-----------------------------------------------------------------------------
(* The terminal, outside the program. *)

TerminalChanges ==
  /\ flaps < MaxFlaps
  /\ flaps' = flaps + 1
  /\ terminal' \in Terminal \ {terminal}
  /\ link' = IF terminal' = "down" /\ link # "closed" THEN "lost" ELSE link
  /\ UNCHANGED <<state, attempt, dated, asleep, delay, tries>>

ConnNext ==
  \/ Connect
  \/ Disconnect
  \/ Reconnect
  \/ \E c \in Callers : ReconnectAsync(c) \/ Wake(c) \/ CancelReconnect(c)
  \/ TerminalChanges

ConnSpec == ConnInit /\ [][ConnNext]_connVars

(* asyncio wakes every sleeper whose delay is over. *)
ConnFairSpec == ConnSpec /\ \A c \in Callers : WF_connVars(Wake(c))

-----------------------------------------------------------------------------
(* Correctness. *)

(* Every variable keeps its type; the shared retry counter stays within    *)
(* config.reconnect_max_attempts however many tasks advance it.            *)
ConnTypeOK ==
  /\ state \in ConnectionState
  /\ attempt \in 0..MaxAttempts
  /\ dated \in BOOLEAN
  /\ link \in Link
  /\ terminal \in Terminal
  /\ asleep \subseteq Callers
  /\ delay \in [Callers -> Nat]
  /\ tries \in Nat
  /\ flaps \in 0..MaxFlaps

(* disconnect() does nothing in state DISCONNECTED, so on every path that  *)
(* leads there the library must hold nothing open: whatever failed half of *)
(* a handshake came before, no IPC channel or session is left behind.      *)
DisconnectedIsClosed == state = "DISCONNECTED" => link \in {"closed", "lost"}

(* Whichever of connect(), reconnect() and reconnect_async() made the      *)
(* connection CONNECTED, a login succeeded since the last shutdown, the    *)
(* uptime clock runs and the next outage starts with all its attempts.     *)
ConnectedIsFresh ==
  state = "CONNECTED" => link \in {"session", "lost"} /\ dated /\ attempt = 0

(* The connection is declared permanently failed only when the shared      *)
(* counter has reached the configured number of attempts.                  *)
FailedIsExhausted == state = "FAILED" => attempt = MaxAttempts

(* Tasks that share the counter cannot multiply the load on the broker:    *)
(* between two successes there are at most MaxAttempts handshakes, and one *)
(* more for each task that was already asleep at the last success.         *)
ReconnectBudget ==
  tries + Cardinality(asleep) <= attempt + Cardinality(Callers)

(* reconnect_async() returns, although every other task's success gives it *)
(* a fresh budget: once the terminal stays as it is, either its next       *)
(* attempt succeeds or the budget runs out.                                *)
ReconnectReturns == \A c \in Callers : c \in asleep ~> c \notin asleep

=============================================================================
