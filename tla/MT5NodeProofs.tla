---------------------------- MODULE MT5NodeProofs ----------------------------
(***************************************************************************)
(* Safety of a node's two poll loops on their shared connection, for every *)
(* retry configuration and any number of outages.                          *)
(*                                                                         *)
(* The connection's own invariant does not carry over: a factory whose     *)
(* connect() fails leaves the channel it opened behind (Build), so that    *)
(* DISCONNECTED does not mean closed here, and another object may use the  *)
(* same session.  What holds instead is that a session this object logged  *)
(* in is that of a connected object, and that the loop and the retry       *)
(* counter go together.                                                    *)
(***************************************************************************)
EXTENDS MT5Node, TLAPS

(* Before the factories succeed nothing uses the connection. *)
Unbuilt ==
  ~built => /\ state = "DISCONNECTED" /\ execLoop = "off"
            /\ attempt = 0 /\ tries = 0

(* When this object used the library last and left it logged in, it is     *)
(* connected; and no session is left in a terminal that is down.           *)
SessionIsConnected ==
  /\ OwnSession => state = "CONNECTED"
  /\ link = "session" => terminal # "down"

(* A running loop has its whole budget; in a reconnect every attempt but   *)
(* the one it sleeps before has been made.                                 *)
LoopBudget ==
  /\ state = "CONNECTED" \/ execLoop = "running" => attempt = 0 /\ tries = 0
  /\ execLoop = "running" => state \in {"CONNECTED", "DISCONNECTED"}
  /\ execLoop = "reconnecting" => state # "CONNECTED" /\ tries + 1 = attempt

(* The inductive invariant. *)
NodeInv ==
  /\ NodeTypeOK
  /\ Unbuilt
  /\ SessionIsConnected
  /\ LoopBudget
  /\ FailureIsEarned
  /\ StoppedIsFailed

LEMMA NodeInvInit == NodeInit => NodeInv
  <1> SUFFICES ASSUME NodeInit PROVE NodeInv
    OBVIOUS
  <1>1. ConnTypeOK
    <2>1. attempt \in 0..MaxAttempts /\ tries \in Nat /\ flaps \in 0..MaxFlaps
      BY ConnectionAssumption DEF NodeInit, ConnInit
    <2>2. delay \in [Callers -> Nat]
      BY DEF NodeInit, ConnInit
    <2>3. QED BY <2>1, <2>2 DEF NodeInit, ConnInit, ConnTypeOK, ConnectionState, Link
  <1>2. QED
    BY <1>1 DEF NodeInit, ConnInit, NodeInv, NodeTypeOK, Unbuilt, SessionIsConnected,
                LoopBudget, FailureIsEarned, StoppedIsFailed, OwnSession

(* Every step of the factories, the loops, the closing of the connection   *)
(* and the terminal keeps it.                                              *)
LEMMA NodeInvStep == NodeInv /\ [NodeNext]_allVars => NodeInv'
  <1> SUFFICES ASSUME NodeInv, [NodeNext]_allVars
               PROVE  NodeInv'
    OBVIOUS
  <1> USE ConnectionAssumption, NodeAssumption
      DEF NodeInv, NodeTypeOK, ConnTypeOK, Unbuilt, SessionIsConnected, LoopBudget,
          FailureIsEarned, StoppedIsFailed, ConnectionState, Link, Terminal,
          OwnSession, EnsureConnected
  <1>1. CASE Build
    <2>1. CASE terminal = "up"
      <3>1. /\ state' = "CONNECTED" /\ link' = "session" /\ dated' = TRUE
            /\ attempt' = 0 /\ tries' = 0 /\ built' = TRUE
            /\ holder' = "own"
            /\ UNCHANGED <<terminal, asleep, delay, flaps, execLoop, dataLoop>>
        BY <1>1, <2>1 DEF Build, Connect, Handshake, Succeed
      <3>2. QED BY <1>1, <3>1 DEF Build
    <2>2. CASE terminal # "up"
      BY <1>1, <2>2 DEF Build
    <2>3. QED BY <2>1, <2>2
  <1>2. CASE CloseConnection
    BY <1>2 DEF CloseConnection, Disconnect, nodeVars
  <1>3. CASE ExecConnect
    BY <1>3 DEF ExecConnect, connVars
  <1>4. CASE ExecPollRaises
    BY <1>4 DEF ExecPollRaises, PollRaises, ReconnectAsync, GiveUp, AttemptsLeft
  <1>5. CASE ExecWake
    <2>1. execLoop = "reconnecting" /\ built
      BY <1>5 DEF ExecWake, Wake
    <2>2. CASE terminal = "up"
      <3>1. /\ state' = "CONNECTED" /\ link' = "session" /\ dated' = TRUE
            /\ attempt' = 0 /\ tries' = 0
            /\ asleep' = asleep \ {ExecTask} /\ holder' = "own"
            /\ UNCHANGED <<terminal, delay, flaps, built, dataLoop>>
        BY <1>5, <2>2 DEF ExecWake, Wake, Handshake, Succeed
      <3>2. execLoop' = "running"
        BY <1>5, <3>1 DEF ExecWake, AfterWake
      <3>3. QED BY <2>1, <2>2, <3>1, <3>2
    <2>3. CASE terminal # "up" /\ AttemptsLeft
      <3>1. /\ state' \in {"DISCONNECTED", "INITIALIZED"}
            /\ link' \in {"closed", "ipc"} /\ dated' = dated
            /\ attempt' = attempt + 1 /\ tries' = tries + 1
            /\ delay' = [delay EXCEPT ![ExecTask] = NextDelay(delay[ExecTask])]
            /\ holder' = "own"
            /\ UNCHANGED <<asleep, terminal, flaps, built, dataLoop>>
        BY <1>5, <2>3 DEF ExecWake, Wake, Handshake, Terminal
      <3>2. execLoop' = "reconnecting"
        BY <2>1, <3>1, <1>5 DEF ExecWake, AfterWake, Wake
      <3>3. NextDelay(delay[ExecTask]) \in Nat
        BY DEF NextDelay
      <3>4. delay' \in [Callers -> Nat]
        BY <3>1, <3>3
      <3>5. QED BY <2>1, <2>3, <3>1, <3>2, <3>4 DEF AttemptsLeft
    <2>4. CASE terminal # "up" /\ ~AttemptsLeft
      <3>1. /\ state' = "FAILED" /\ link' \in {"closed", "ipc"} /\ dated' = dated
            /\ tries' = tries + 1 /\ asleep' = asleep \ {ExecTask}
            /\ holder' = "own"
            /\ UNCHANGED <<attempt, delay, terminal, flaps, built, dataLoop>>
        BY <1>5, <2>4 DEF ExecWake, Wake, GiveUp
      <3>2. execLoop' = "stopped"
        BY <1>5, <3>1 DEF ExecWake, AfterWake
      <3>3. attempt = MaxAttempts
        BY <2>4 DEF AttemptsLeft
      <3>4. QED BY <2>1, <3>1, <3>2, <3>3
    <2>5. QED BY <2>2, <2>3, <2>4
  <1>6. CASE ExecDisconnect
    BY <1>6 DEF ExecDisconnect, CancelReconnect, connVars
  <1>7. CASE DataConnect \/ DataPollRaises \/ DataDisconnect
    BY <1>7 DEF DataConnect, DataPollRaises, DataDisconnect, connVars
  <1>8. CASE TerminalChanges /\ UNCHANGED nodeVars
    BY <1>8 DEF TerminalChanges, nodeVars, Terminal
  <1>9. CASE UNCHANGED allVars
    BY <1>9 DEF allVars, connVars, nodeVars
  <1>10. CASE OtherConnection
    BY <1>10 DEF OtherConnection
  <1>11. QED
    BY <1>1, <1>2, <1>3, <1>4, <1>5, <1>6, <1>7, <1>8, <1>9, <1>10 DEF NodeNext

LEMMA NodeInvariant == NodeSpec => []NodeInv
  <1>1. QED BY NodeInvInit, NodeInvStep, PTL DEF NodeSpec

(* The loop reconnects exactly while the connection has its task asleep:   *)
(* no cancelled loop leaves a reconnect behind.                            *)
THEOREM NodeTypeCorrect == NodeSpec => []NodeTypeOK
  <1>1. NodeInv => NodeTypeOK
    BY DEF NodeInv
  <1>2. QED BY <1>1, NodeInvariant, PTL

(* "permanently failed" is said after exactly the configured number of     *)
(* handshakes since the last success.                                      *)
THEOREM FailuresEarned == NodeSpec => []FailureIsEarned
  <1>1. NodeInv => FailureIsEarned
    BY DEF NodeInv
  <1>2. QED BY <1>1, NodeInvariant, PTL

(* The execution loop never stays stopped beside a working connection. *)
THEOREM StoppedForAReason == NodeSpec => []StoppedIsFailed
  <1>1. NodeInv => StoppedIsFailed
    BY DEF NodeInv
  <1>2. QED BY <1>1, NodeInvariant, PTL

(* A retry never shuts down a session its own object logged in; such a     *)
(* session ends with the terminal, by the closing of the connection, or    *)
(* because another object takes the library.                               *)
THEOREM SessionsKept == NodeSpec => LiveSessionKept
  <1>1. ASSUME NodeInv, ExecWake
        PROVE  ~OwnSession
    BY <1>1 DEF ExecWake, Wake, NodeInv, NodeTypeOK, SessionIsConnected, LoopBudget
  <1>2. ASSUME NodeInv, NodeNext, OwnSession, ~OwnSession',
               ~CloseConnection, ~OtherConnection
        PROVE  terminal' = "down"
    <2>1. state = "CONNECTED" /\ built /\ execLoop # "reconnecting"
      BY <1>2 DEF NodeInv, SessionIsConnected, Unbuilt, LoopBudget
    <2>2. ~Build /\ ~ExecPollRaises /\ ~ExecWake
      BY <1>1, <1>2, <2>1 DEF Build, ExecPollRaises, PollRaises, EnsureConnected
    <2>3. ~(ExecConnect \/ ExecDisconnect \/ DataConnect \/ DataPollRaises
              \/ DataDisconnect)
      BY <1>2, <2>1 DEF ExecConnect, ExecDisconnect, DataConnect, DataPollRaises,
                        DataDisconnect, CancelReconnect, connVars, OwnSession
    <2>4. TerminalChanges /\ UNCHANGED nodeVars
      BY <1>2, <2>2, <2>3 DEF NodeNext
    <2>5. QED BY <1>2, <2>4 DEF TerminalChanges, nodeVars, OwnSession
  <1>3. NodeInv /\ [NodeNext]_allVars =>
          [/\ ExecWake => ~OwnSession
           /\ OwnSession /\ ~OwnSession'
                => terminal' = "down" \/ CloseConnection \/ OtherConnection]_allVars
    BY <1>1, <1>2
  <1>4. QED BY <1>3, NodeInvariant, PTL DEF NodeSpec, LiveSessionKept

-----------------------------------------------------------------------------
(* The refinement of Outage. *)

OutageStep == [O!OutageNext]_(O!outageVars)

(* Types the mapping needs. *)
LEMMA MappedTypes ==
  ASSUME NodeInv
  PROVE  /\ MaxAttempts \in Nat /\ MaxDelay \in Nat
         /\ attempt \in Nat /\ attempt <= MaxAttempts /\ tries \in Nat
         /\ delay[ExecTask] \in Nat
  BY ConnectionAssumption, NodeAssumption DEF NodeInv, NodeTypeOK, ConnTypeOK

(* A step that moves neither the loop, nor the retries, nor whether a loop *)
(* that is off could start.                                                *)
LEMMA OutageStutters ==
  ASSUME UNCHANGED <<execLoop, tries, delay>>,
         execLoop = "off" => (~built \/ EnsureConnected) = (~built' \/ EnsureConnected')
  PROVE  OutageStep
  <1>1. OutageMode' = OutageMode
    <2>1. CASE execLoop = "off"
      BY <2>1 DEF OutageMode
    <2>2. CASE execLoop # "off"
      BY <2>2 DEF OutageMode
    <2>3. QED BY <2>1, <2>2
  <1>2. UNCHANGED <<OutageMode, tries, delay[ExecTask]>>
    BY <1>1
  <1>3. QED BY <1>2 DEF OutageStep, O!outageVars

(* A loop that is not off, or could not start, leaves for good. *)
LEMMA LeaveMaps ==
  ASSUME UNCHANGED <<tries, delay>>, OutageMode' = "over"
  PROVE  OutageStep
  BY DEF OutageStep, O!OutageNext, O!Leave

(* The client connects or disconnects, and the connection is closed. *)
LEMMA ClientMaps ==
  ASSUME NodeInv, ExecConnect \/ ExecDisconnect \/ CloseConnection
  PROVE  OutageStep
  <1>1. CASE ExecConnect
    <2>1. OutageMode = "ready" /\ OutageMode' = "serving"
      BY <1>1 DEF ExecConnect, OutageMode
    <2>2. UNCHANGED <<tries, delay[ExecTask]>>
      BY <1>1 DEF ExecConnect, connVars
    <2>3. QED BY <2>1, <2>2 DEF OutageStep, O!OutageNext, O!Begin
  <1>2. CASE ExecDisconnect
    <2>1. /\ execLoop # "off" /\ execLoop' = "off"
          /\ UNCHANGED <<tries, delay, built, state>>
      BY <1>2 DEF ExecDisconnect, CancelReconnect, connVars
    <2>2. OutageMode' \in {"ready", "over"}
      BY <2>1 DEF OutageMode
    <2>3. CASE execLoop = "running"
      <3>1. OutageMode = "serving"
        BY <2>3 DEF OutageMode
      <3>2. QED BY <2>1, <2>2, <3>1 DEF OutageStep, O!OutageNext, O!Leave
    <2>4. CASE execLoop # "running"
      <3>1. execLoop \in {"reconnecting", "stopped"}
        BY <2>1, <2>4 DEF NodeInv, NodeTypeOK
      <3>2. built /\ state # "CONNECTED"
        BY <3>1 DEF NodeInv, Unbuilt, LoopBudget, StoppedIsFailed
      <3>3. OutageMode' = "over"
        BY <2>1, <3>2 DEF OutageMode, EnsureConnected
      <3>4. QED BY <2>1, <3>3, LeaveMaps
    <2>5. QED BY <2>3, <2>4
  <1>3. CASE CloseConnection
    <2>1. /\ built /\ state' # "CONNECTED"
          /\ UNCHANGED <<tries, delay, execLoop, built>>
      BY <1>3 DEF CloseConnection, Disconnect, nodeVars
    <2>2. CASE execLoop = "off"
      <3>1. OutageMode' = "over"
        BY <2>1, <2>2 DEF OutageMode, EnsureConnected
      <3>2. QED BY <2>1, <3>1, LeaveMaps
    <2>3. CASE execLoop # "off"
      BY <2>1, <2>3, OutageStutters
    <2>4. QED BY <2>2, <2>3
  <1>4. QED BY <1>1, <1>2, <1>3

(* A poll raises: the outage begins with the whole budget ... *)
LEMMA PollRaisesMaps ==
  ASSUME NodeInv, ExecPollRaises
  PROVE  OutageStep
  <1>1. /\ execLoop = "running" /\ OutageMode = "serving" /\ UNCHANGED tries
        /\ attempt = 0 /\ tries = 0
    BY DEF ExecPollRaises, ReconnectAsync, OutageMode, NodeInv, LoopBudget
  <1>2. CASE AttemptsLeft
    <2>1. MaxAttempts > 0
      BY <1>1, <1>2 DEF AttemptsLeft
    <2>2. execLoop' = "reconnecting" /\ delay'[ExecTask] = InitialDelay
      BY <1>2, NodeAssumption
         DEF ExecPollRaises, ReconnectAsync, NodeInv, NodeTypeOK, ConnTypeOK
    <2>3. OutageMode' = "retrying"
      BY <2>2 DEF OutageMode
    <2>4. QED BY <1>1, <2>1, <2>2, <2>3 DEF OutageStep, O!OutageNext, O!Interrupt
  <1>3. CASE ~AttemptsLeft
    <2>1. MaxAttempts = 0
      BY <1>1, <1>3, MappedTypes DEF AttemptsLeft
    <2>2. execLoop' = "stopped" /\ UNCHANGED delay
      BY <1>3 DEF ExecPollRaises, ReconnectAsync
    <2>3. OutageMode' = "over"
      BY <2>2 DEF OutageMode
    <2>4. QED BY <1>1, <2>1, <2>2, <2>3 DEF OutageStep, O!OutageNext, O!GiveUpOn
  <1>4. QED BY <1>2, <1>3

(* ... and each time its sleep ends, a handshake ends the outage, makes    *)
(* the next pause longer, or was the last.                                 *)
LEMMA WakeMaps ==
  ASSUME NodeInv, ExecWake
  PROVE  OutageStep
  <1>1. /\ ExecTask \in asleep /\ execLoop = "reconnecting" /\ tries + 1 = attempt
        /\ OutageMode = "retrying"
    BY DEF ExecWake, Wake, NodeInv, NodeTypeOK, LoopBudget, OutageMode
  <1>2. CASE terminal = "up"
    <2>1. /\ state' = "CONNECTED" /\ tries' = 0 /\ UNCHANGED delay
          /\ ExecTask \notin asleep'
      BY <1>2 DEF ExecWake, Wake, Handshake, Succeed
    <2>2. OutageMode' = "serving"
      BY <2>1 DEF ExecWake, AfterWake, OutageMode
    <2>3. QED BY <1>1, <2>1, <2>2 DEF OutageStep, O!OutageNext, O!Recover
  <1>3. CASE terminal # "up" /\ AttemptsLeft
    <2>1. /\ tries' = tries + 1 /\ UNCHANGED asleep
          /\ delay' = [delay EXCEPT ![ExecTask] = NextDelay(delay[ExecTask])]
      BY <1>3 DEF ExecWake, Wake
    <2>2. OutageMode' = "retrying"
      BY <1>1, <2>1 DEF ExecWake, AfterWake, OutageMode
    <2>3. tries + 1 < MaxAttempts
      BY <1>1, <1>3 DEF AttemptsLeft
    <2>4. delay'[ExecTask] = NextDelay(delay[ExecTask])
      BY <2>1, NodeAssumption DEF NodeInv, NodeTypeOK, ConnTypeOK
    <2>5. NextDelay(delay[ExecTask]) \in O!NoShorter(delay[ExecTask])
      BY MappedTypes DEF NextDelay, O!NoShorter
    <2>6. QED BY <1>1, <2>1, <2>2, <2>3, <2>4, <2>5 DEF OutageStep, O!OutageNext, O!Retry
  <1>4. CASE terminal # "up" /\ ~AttemptsLeft
    <2>1. /\ tries' = tries + 1 /\ UNCHANGED delay
          /\ state' = "FAILED" /\ ExecTask \notin asleep'
      BY <1>4 DEF ExecWake, Wake, GiveUp
    <2>2. OutageMode' = "over"
      BY <2>1 DEF ExecWake, AfterWake, OutageMode
    <2>3. tries' = MaxAttempts
      BY <1>1, <1>4, <2>1, MappedTypes DEF AttemptsLeft
    <2>4. QED BY <1>1, <2>1, <2>2, <2>3 DEF OutageStep, O!OutageNext, O!GiveUpOn
  <1>5. QED BY <1>2, <1>3, <1>4

(* The factories, the data client, another object and the terminal leave   *)
(* outages alone.                                                          *)
LEMMA OthersMap ==
  ASSUME NodeInv,
         \/ Build \/ OtherConnection \/ DataConnect \/ DataPollRaises \/ DataDisconnect
         \/ TerminalChanges /\ UNCHANGED nodeVars
         \/ UNCHANGED allVars
  PROVE  OutageStep
  <1>1. CASE Build
    <2>1. execLoop = "off" /\ tries = 0 /\ UNCHANGED <<execLoop, delay>>
      BY <1>1 DEF Build, Connect, NodeInv, Unbuilt
    <2>2. tries' = 0 /\ (~built' \/ EnsureConnected')
      BY <1>1, <2>1 DEF Build, Connect, Handshake, Succeed, EnsureConnected
    <2>3. QED BY <1>1, <2>1, <2>2, OutageStutters DEF Build
  <1>2. CASE DataConnect \/ DataPollRaises \/ DataDisconnect
    BY <1>2, OutageStutters
       DEF DataConnect, DataPollRaises, DataDisconnect, connVars, EnsureConnected
  <1>3. CASE TerminalChanges /\ UNCHANGED nodeVars
    BY <1>3, OutageStutters DEF TerminalChanges, nodeVars, EnsureConnected
  <1>4. CASE UNCHANGED allVars
    BY <1>4, OutageStutters DEF allVars, connVars, nodeVars, EnsureConnected
  <1>5. CASE OtherConnection
    BY <1>5, OutageStutters DEF OtherConnection, EnsureConnected
  <1>6. QED BY <1>1, <1>2, <1>3, <1>4, <1>5

(* For any retry configuration and any number of outages the execution     *)
(* loop is what Outage says: the configured number of handshakes in each   *)
(* outage, never shorter pauses, and no polling again once it is over.     *)
THEOREM LoopImplementsOutage == NodeSpec => ImplementsOutage
  <1>1. NodeInit => O!OutageInit
    <2> SUFFICES ASSUME NodeInit PROVE O!OutageInit
      OBVIOUS
    <2>1. OutageMode = "ready" /\ tries = 0
      BY DEF NodeInit, ConnInit, OutageMode
    <2>2. delay[ExecTask] = 0
      BY NodeAssumption DEF NodeInit, ConnInit
    <2>3. QED BY <2>1, <2>2 DEF O!OutageInit
  <1>2. NodeInv /\ [NodeNext]_allVars => [O!OutageNext]_(O!outageVars)
    <2> SUFFICES ASSUME NodeInv, [NodeNext]_allVars PROVE OutageStep
      BY DEF OutageStep
    <2>1. QED BY ClientMaps, PollRaisesMaps, WakeMaps, OthersMap DEF NodeNext
  <1>3. QED BY <1>1, <1>2, NodeInvariant, PTL DEF NodeSpec, ImplementsOutage, O!OutageSpec

=============================================================================
