------------------------------- MODULE MT5Node -------------------------------
(***************************************************************************)
(* A trading node at run time: the execution client's poll loop            *)
(* (execution.py) and the data client's poll loop (data.py) on the one     *)
(* MT5Connection that the factories share between them (factories.py).     *)
(* What the loops poll is the subject of other modules; here a poll only   *)
(* succeeds or meets MT5ConnectionError.                                   *)
(*                                                                         *)
(* The library has one session, and the process may hold another           *)
(* MT5Connection object that uses it (OtherConnection).                    *)
(*                                                                         *)
(* A definition whose comment starts with "Mutant" is a deliberately wrong *)
(* variant of the definition after it; no specification uses it.           *)
(***************************************************************************)
EXTENDS MT5Connection

CONSTANTS
  ExecTask,       \* the execution client's poll task
  SecondObject    \* the process may hold another MT5Connection

ASSUME NodeAssumption ==
  /\ Callers = {ExecTask}
  /\ SecondObject \in BOOLEAN

VARIABLES
  built,      \* the factories have registered the connection
  execLoop,   \* off, running, reconnecting, stopped (left the loop)
  dataLoop,   \* off, running, dead (left by an exception)
  holder      \* history: the object that used the library last, own or other

nodeVars == <<built, execLoop, dataLoop, holder>>
allVars == <<connVars, nodeVars>>

NodeInit ==
  /\ ConnInit
  /\ built = FALSE
  /\ execLoop = "off"
  /\ dataLoop = "off"
  /\ holder = "own"

-----------------------------------------------------------------------------
(* Factories. *)

(* The first factory connects and registers.  When connect() raises, the   *)
(* object is dropped with whatever it had opened, and a later try builds a *)
(* new one.                                                                *)
Build ==
  /\ ~built
  /\ \/ /\ terminal = "up"
        /\ Connect
        /\ built' = TRUE
     \/ /\ terminal # "up"
        /\ link' = IF terminal = "offline" THEN "ipc" ELSE link
        /\ UNCHANGED <<state, attempt, dated, terminal, asleep, delay, tries, flaps>>
        /\ UNCHANGED built
  /\ holder' = "own"
  /\ UNCHANGED <<execLoop, dataLoop>>

(* clear_connection_registry(), or disconnect() on the shared object, with *)
(* the clients in whatever state they are.  They keep the object; a        *)
(* factory that is called later makes another (OtherConnection).           *)
CloseConnection ==
  /\ built
  /\ Disconnect
  /\ UNCHANGED nodeVars

(* Another object connects, reconnects or disconnects: the one built for   *)
(* another account, or for this one once the registry has been cleared.    *)
(* It works on the same session and knows nothing of this object's state.  *)
OtherConnection ==
  /\ SecondObject
  /\ \/ link' = "closed"
     \/ terminal = "offline" /\ link' = "ipc"
     \/ terminal = "up" /\ link' = "session"
  /\ holder' = "other"
  /\ UNCHANGED <<state, attempt, dated, terminal, asleep, delay, tries, flaps,
                 built, execLoop, dataLoop>>

-----------------------------------------------------------------------------
(* Execution client. *)

(* _connect(): raises unless connected. *)
ExecConnect ==
  /\ built
  /\ execLoop = "off"
  /\ EnsureConnected
  /\ execLoop' = "running"
  /\ UNCHANGED <<connVars, built, dataLoop, holder>>

(* Mutant: the loop goes to reconnect whatever the error was. *)
ReconnectOnAnyError == TRUE

(* What sends the loop to reconnect: the poll raised MT5ConnectionError.   *)
(* (An answer of None from the library raises nothing.)                    *)
PollRaises == ~EnsureConnected

(* The poll raises: enter reconnect_async(), stop when it is exhausted.    *)
ExecPollRaises ==
  /\ execLoop = "running"
  /\ PollRaises
  /\ ReconnectAsync(ExecTask)
  /\ execLoop' = IF AttemptsLeft THEN "reconnecting" ELSE "stopped"
  /\ UNCHANGED <<built, dataLoop, holder>>

(* Mutant: the loop stops when one attempt of reconnect_async() fails. *)
AfterWakeStopsEarly == IF state' = "CONNECTED" THEN "running" ELSE "stopped"

(* Where the loop is after reconnect_async() used its time slice. *)
AfterWake ==
  IF ExecTask \in asleep' THEN "reconnecting"
  ELSE IF state' = "CONNECTED" THEN "running" ELSE "stopped"

(* reconnect_async() goes on, and returns True or False or sleeps again. *)
ExecWake ==
  /\ Wake(ExecTask)
  /\ execLoop' = AfterWake
  /\ holder' = "own"
  /\ UNCHANGED <<built, dataLoop>>

(* Mutant: the poll task is forgotten but not cancelled. *)
ExecDisconnectNoCancel ==
  /\ execLoop # "off"
  /\ execLoop' = "off"
  /\ UNCHANGED <<connVars, built, dataLoop, holder>>

(* _disconnect(): cancel the poll task, in its sleep or in reconnect's. *)
ExecDisconnect ==
  /\ execLoop # "off"
  /\ execLoop' = "off"
  /\ IF execLoop = "reconnecting" THEN CancelReconnect(ExecTask)
                                  ELSE UNCHANGED connVars
  /\ UNCHANGED <<built, dataLoop, holder>>

-----------------------------------------------------------------------------
(* Data client. *)

(* _connect(): raises unless connected. *)
DataConnect ==
  /\ built
  /\ dataLoop = "off"
  /\ EnsureConnected
  /\ dataLoop' = "running"
  /\ UNCHANGED <<connVars, built, execLoop, holder>>

(* _poll_loop() has no handler: the exception of a poll ends the task. *)
DataPollRaises ==
  /\ dataLoop = "running"
  /\ PollRaises
  /\ dataLoop' = "dead"
  /\ UNCHANGED <<connVars, built, execLoop, holder>>

(* _disconnect() *)
DataDisconnect ==
  /\ dataLoop # "off"
  /\ dataLoop' = "off"
  /\ UNCHANGED <<connVars, built, execLoop, holder>>

-----------------------------------------------------------------------------
NodeNext ==
  \/ Build \/ CloseConnection \/ OtherConnection
  \/ ExecConnect \/ ExecPollRaises \/ ExecWake \/ ExecDisconnect
  \/ DataConnect \/ DataPollRaises \/ DataDisconnect
  \/ TerminalChanges /\ UNCHANGED nodeVars

NodeSpec == NodeInit /\ [][NodeNext]_allVars

(* The event loop runs due timers: polls and wake-ups are not put off for  *)
(* ever.                                                                   *)
NodeFairSpec ==
  /\ NodeSpec
  /\ WF_allVars(ExecPollRaises)
  /\ WF_allVars(ExecWake)
  /\ WF_allVars(DataPollRaises)

-----------------------------------------------------------------------------
(* Correctness. *)

(* Types; and the loop's place and the connection's sleepers agree: no     *)
(* reconnect is left behind by a cancelled loop.                           *)
NodeTypeOK ==
  /\ ConnTypeOK
  /\ built \in BOOLEAN
  /\ execLoop \in {"off", "running", "reconnecting", "stopped"}
  /\ dataLoop \in {"off", "running", "dead"}
  /\ holder \in {"own", "other"}
  /\ execLoop = "reconnecting" <=> ExecTask \in asleep

(* "permanently failed after N attempts" (connection.py:167-171) tells the *)
(* truth in a node: N handshakes were made since the last success, however *)
(* many outages there were before.                                         *)
FailureIsEarned == state = "FAILED" => tries = MaxAttempts

(* The execution loop gives up only together with the connection: it never *)
(* stays stopped beside a connection that works.                           *)
StoppedIsFailed == execLoop = "stopped" => state \in {"FAILED", "DISCONNECTED"}

OwnSession == link = "session" /\ holder = "own"

(* Reconnecting never tears down the session its own object has logged in: *)
(* a retry, which shuts the library down before anything else, meets no    *)
(* such session, and it ends only with the terminal, when the connection   *)
(* is closed or when another object takes the library.  (The session of    *)
(* another object has no such protection: a loop whose connection was      *)
(* closed shuts it down at its next retry.)                                *)
LiveSessionKept ==
  [][/\ ExecWake => ~OwnSession
     /\ OwnSession /\ ~OwnSession'
          => terminal' = "down" \/ CloseConnection \/ OtherConnection]_allVars

(* Where the execution loop is in the life of Outage: a loop that is off   *)
(* can start before the connection is built and while it is connected.     *)
OutageMode ==
  CASE execLoop = "running" -> "serving"
    [] execLoop = "reconnecting" -> "retrying"
    [] execLoop = "stopped" -> "over"
    [] execLoop = "off" -> IF ~built \/ EnsureConnected THEN "ready" ELSE "over"

O == INSTANCE Outage WITH
       Attempts <- MaxAttempts, First <- InitialDelay, Longest <- MaxDelay,
       mode <- OutageMode, made <- tries, pause <- delay[ExecTask]

(* Whatever the factories, the data client, the terminal and the engine do *)
(* to the connection, the execution loop meets each outage with as many    *)
(* handshakes as are configured and never shorter pauses, starts the next  *)
(* one anew, and once over it never polls again.                           *)
ImplementsOutage == O!OutageSpec

(* A poll loop that meets a connection that is not usable ends up with a   *)
(* usable one, or stops, or is stopped: it does not spin or hang.          *)
LoopRecovers ==
  execLoop \in {"running", "reconnecting"} /\ ~EnsureConnected
    ~> EnsureConnected \/ execLoop \in {"stopped", "off"}

-----------------------------------------------------------------------------
(* What the source says of itself and the code does not do. *)

(* README.md:32 "Automatic reconnection with exponential backoff",         *)
(* execution.py:694 "On connection error -> attempt reconnect": when the   *)
(* terminal no longer answers, the loop gets an answer again or leaves its *)
(* polling to reconnect.                                                   *)
LostLinkNoticed ==
  execLoop = "running" /\ ~AccountInfoAnswers
    ~> AccountInfoAnswers \/ execLoop # "running"

(* tests/test_data.py:14 "_poll_loop() - reconnect on connection error,    *)
(* stop on failure": the data loop ends by itself only on failure.         *)
DataLoopStopsOnFailure == dataLoop = "dead" => state = "FAILED"

=============================================================================
