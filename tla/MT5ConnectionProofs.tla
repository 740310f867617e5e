------------------------- MODULE MT5ConnectionProofs -------------------------
(***************************************************************************)
(* Safety of the connection's life cycle for every set of reconnecting     *)
(* tasks and every retry configuration.                                    *)
(***************************************************************************)
EXTENDS MT5Connection, FiniteSetTheorems, TLAPS

(* Nothing stays open across the death of the terminal process: what makes *)
(* a failed initialize() safe to report as DISCONNECTED.                   *)
LinkNeedsTerminal == terminal = "down" => link \in {"closed", "lost"}

(* The inductive invariant. *)
ConnInv ==
  /\ ConnTypeOK
  /\ LinkNeedsTerminal
  /\ DisconnectedIsClosed
  /\ ConnectedIsFresh
  /\ FailedIsExhausted

-----------------------------------------------------------------------------
(* A handshake over any link leaves the library and the state in step: the *)
(* facts every method that calls _initialize() and _login() rests on.      *)
LEMMA HandshakeLeaves ==
  ASSUME NEW from \in Link, ConnTypeOK, Handshake(from),
         terminal = "down" => from \in {"closed", "lost"}
  PROVE  /\ state' \in {"DISCONNECTED", "INITIALIZED", "CONNECTED"}
         /\ link' \in Link
         /\ dated' \in BOOLEAN
         /\ state' = "DISCONNECTED" => link' \in {"closed", "lost"}
         /\ state' = "CONNECTED" => terminal = "up" /\ link' = "session" /\ dated'
         /\ terminal = "down" => link' \in {"closed", "lost"}
  BY DEF Handshake, ConnTypeOK, Link, Terminal

(* A new connection object satisfies the invariant. *)
LEMMA ConnInvInit == ConnInit => ConnInv
  <1> SUFFICES ASSUME ConnInit PROVE ConnInv
    OBVIOUS
  <1>1. ConnTypeOK
    <2>1. attempt \in 0..MaxAttempts /\ tries \in Nat /\ flaps \in 0..MaxFlaps
      BY ConnectionAssumption DEF ConnectionAssumption, ConnInit
    <2>2. delay \in [Callers -> Nat]
      BY DEF ConnInit
    <2>3. state \in ConnectionState /\ link \in Link /\ terminal \in Terminal
      BY DEF ConnInit, ConnectionState, Link
    <2>4. dated \in BOOLEAN /\ asleep \subseteq Callers
      BY DEF ConnInit
    <2>5. QED BY <2>1, <2>2, <2>3, <2>4 DEF ConnTypeOK
  <1>2. LinkNeedsTerminal /\ DisconnectedIsClosed
    BY DEF ConnInit, LinkNeedsTerminal, DisconnectedIsClosed
  <1>3. ConnectedIsFresh /\ FailedIsExhausted
    BY DEF ConnInit, ConnectedIsFresh, FailedIsExhausted
  <1>4. QED BY <1>1, <1>2, <1>3 DEF ConnInv

(* Every method, every wake-up and every change of the terminal keeps it. *)
LEMMA ConnInvStep == ConnInv /\ [ConnNext]_connVars => ConnInv'
  <1> SUFFICES ASSUME ConnInv, [ConnNext]_connVars
               PROVE  ConnInv'
    OBVIOUS
  <1> USE ConnectionAssumption DEF ConnectionAssumption, ConnInv, LinkNeedsTerminal,
          DisconnectedIsClosed, ConnectedIsFresh, FailedIsExhausted, ConnectionState,
          AttemptsLeft, Link
  <1>1. CASE Connect
    <2>1. /\ state' \in {"DISCONNECTED", "INITIALIZED", "CONNECTED"}
          /\ link' \in Link
          /\ dated' \in BOOLEAN
          /\ state' = "DISCONNECTED" => link' \in {"closed", "lost"}
          /\ state' = "CONNECTED" => terminal = "up" /\ link' = "session" /\ dated'
          /\ terminal = "down" => link' \in {"closed", "lost"}
      BY <1>1, HandshakeLeaves DEF Connect, ConnTypeOK
    <2>2. QED BY <1>1, <2>1 DEF Connect, Succeed, ConnTypeOK
  <1>2. CASE Disconnect
    BY <1>2 DEF Disconnect, ConnTypeOK
  <1>3. CASE Reconnect
    <2>1. CASE AttemptsLeft /\ terminal = "up"
      <3>1. /\ state' = "CONNECTED" /\ link' = "session" /\ dated' = TRUE
            /\ attempt' = 0 /\ tries' = 0
            /\ UNCHANGED <<terminal, asleep, delay, flaps>>
        BY <1>3, <2>1 DEF Reconnect, Handshake, Succeed
      <3>2. QED BY <2>1, <3>1 DEF ConnTypeOK
    <2>2. CASE AttemptsLeft /\ terminal # "up"
      <3>1. tries + (MaxAttempts - attempt) \in Nat
        BY DEF ConnTypeOK
      <3>2. QED BY <1>3, <2>2, <3>1 DEF Reconnect, GiveUp, ConnTypeOK, Terminal
    <2>3. CASE ~AttemptsLeft
      BY <1>3, <2>3 DEF Reconnect, GiveUp, ConnTypeOK
    <2>4. QED BY <2>1, <2>2, <2>3
  <1>4. ASSUME NEW c \in Callers, ReconnectAsync(c)
        PROVE  ConnInv'
    BY <1>4 DEF ReconnectAsync, GiveUp, ConnTypeOK
  <1>5. ASSUME NEW c \in Callers, Wake(c)
        PROVE  ConnInv'
    <2>1. NextDelay(delay[c]) \in Nat
      BY DEF NextDelay, ConnTypeOK
    <2>2. CASE terminal = "up"
      BY <1>5, <2>2 DEF Wake, Handshake, Succeed, ConnTypeOK, Terminal
    <2>3. CASE terminal # "up" /\ AttemptsLeft
      <3>1. [delay EXCEPT ![c] = NextDelay(delay[c])] \in [Callers -> Nat]
        BY <1>5, <2>1 DEF ConnTypeOK
      <3>2. QED BY <1>5, <2>3, <3>1 DEF Wake, Handshake, ConnTypeOK, Terminal
    <2>4. CASE terminal # "up" /\ ~AttemptsLeft
      BY <1>5, <2>4 DEF Wake, GiveUp, ConnTypeOK, Terminal
    <2>5. QED BY <2>2, <2>3, <2>4
  <1>6. ASSUME NEW c \in Callers, CancelReconnect(c)
        PROVE  ConnInv'
    BY <1>6 DEF CancelReconnect, ConnTypeOK
  <1>7. CASE TerminalChanges
    BY <1>7 DEF TerminalChanges, ConnTypeOK, Terminal
  <1>8. CASE UNCHANGED connVars
    BY <1>8 DEF connVars, ConnTypeOK
  <1>9. QED
    BY <1>1, <1>2, <1>3, <1>4, <1>5, <1>6, <1>7, <1>8 DEF ConnNext

(* The types hold in every state of every behaviour; in particular the     *)
(* retry counter never passes the configured maximum, whatever tasks share *)
(* it.                                                                     *)
THEOREM ConnTypeCorrect == ConnSpec => []ConnTypeOK
  <1>1. ConnInv => ConnTypeOK
    BY DEF ConnInv
  <1>2. QED BY <1>1, ConnInvInit, ConnInvStep, PTL DEF ConnSpec

(* disconnect() may return early in state DISCONNECTED: nothing is open. *)
THEOREM NoLeakedLink == ConnSpec => []DisconnectedIsClosed
  <1>1. ConnInv => DisconnectedIsClosed
    BY DEF ConnInv
  <1>2. QED BY <1>1, ConnInvInit, ConnInvStep, PTL DEF ConnSpec

(* A CONNECTED object holds a login, a date and a full retry budget. *)
THEOREM ConnectedFresh == ConnSpec => []ConnectedIsFresh
  <1>1. ConnInv => ConnectedIsFresh
    BY DEF ConnInv
  <1>2. QED BY <1>1, ConnInvInit, ConnInvStep, PTL DEF ConnSpec

(* FAILED is never declared while the counter has attempts left. *)
THEOREM FailedExhausted == ConnSpec => []FailedIsExhausted
  <1>1. ConnInv => FailedIsExhausted
    BY DEF ConnInv
  <1>2. QED BY <1>1, ConnInvInit, ConnInvStep, PTL DEF ConnSpec
-----------------------------------------------------------------------------
(* A task falls asleep or wakes: what happens to the number of sleepers. *)
LEMMA SleeperCount ==
  ASSUME ConnTypeOK, NEW c \in Callers
  PROVE  /\ Cardinality(Callers) \in Nat
         /\ Cardinality(asleep) \in Nat
         /\ Cardinality(asleep) <= Cardinality(Callers)
         /\ c \notin asleep => Cardinality(asleep \cup {c}) = Cardinality(asleep) + 1
         /\ c \in asleep => Cardinality(asleep \ {c}) = Cardinality(asleep) - 1
  <1>1. IsFiniteSet(Callers) /\ asleep \subseteq Callers
    BY ConnectionAssumption DEF ConnectionAssumption, ConnTypeOK
  <1>2. IsFiniteSet(asleep) /\ Cardinality(asleep) <= Cardinality(Callers)
    BY <1>1, FS_Subset
  <1>3. Cardinality(Callers) \in Nat /\ Cardinality(asleep) \in Nat
    BY <1>1, <1>2, FS_CardinalityType
  <1>4. c \notin asleep => Cardinality(asleep \cup {c}) = Cardinality(asleep) + 1
    BY <1>2, FS_AddElement
  <1>5. c \in asleep => Cardinality(asleep \ {c}) = Cardinality(asleep) - 1
    BY <1>2, FS_RemoveElement
  <1>6. QED BY <1>2, <1>3, <1>4, <1>5

(* One counter bounds the handshakes of all tasks together: every attempt  *)
(* counted is a handshake made, a sleep in progress or a cancelled sleep,  *)
(* and a success forgives at most the tasks that were then asleep.         *)
THEOREM HandshakesBounded == ConnSpec => []ReconnectBudget
  <1>1. ConnInit => ReconnectBudget
    <2> SUFFICES ASSUME ConnInit PROVE ReconnectBudget
      OBVIOUS
    <2>1. Cardinality(asleep) = 0
      BY FS_EmptySet DEF ConnInit
    <2>2. Cardinality(Callers) \in Nat
      BY ConnectionAssumption, FS_CardinalityType DEF ConnectionAssumption
    <2>3. QED BY <2>1, <2>2 DEF ConnInit, ReconnectBudget
  <1>2. ConnTypeOK /\ ReconnectBudget /\ ConnTypeOK' /\ [ConnNext]_connVars
        => ReconnectBudget'
    <2> SUFFICES ASSUME ConnTypeOK, ReconnectBudget, ConnTypeOK', [ConnNext]_connVars
                 PROVE  ReconnectBudget'
      OBVIOUS
    <2>1. /\ Cardinality(Callers) \in Nat
          /\ Cardinality(asleep) \in Nat
          /\ Cardinality(asleep) <= Cardinality(Callers)
      <3>1. IsFiniteSet(Callers) /\ asleep \subseteq Callers
        BY ConnectionAssumption DEF ConnectionAssumption, ConnTypeOK
      <3>2. QED BY <3>1, FS_Subset, FS_CardinalityType
    <2>2. attempt \in Nat /\ tries \in Nat /\ MaxAttempts \in Nat /\ attempt <= MaxAttempts
      BY ConnectionAssumption DEF ConnectionAssumption, ConnTypeOK
    <2>3. CASE Connect
      BY <2>1, <2>2, <2>3 DEF Connect, Succeed, ReconnectBudget
    <2>4. CASE Disconnect
      BY <2>4 DEF Disconnect, ReconnectBudget
    <2>5. CASE Reconnect
      BY <2>1, <2>2, <2>5 DEF Reconnect, Succeed, ReconnectBudget
    <2>6. ASSUME NEW c \in Callers, ReconnectAsync(c)
          PROVE  ReconnectBudget'
      BY <2>1, <2>2, <2>6, SleeperCount DEF ReconnectAsync, ReconnectBudget
    <2>7. ASSUME NEW c \in Callers, Wake(c)
          PROVE  ReconnectBudget'
      BY <2>1, <2>2, <2>7, SleeperCount DEF Wake, Succeed, ReconnectBudget
    <2>8. ASSUME NEW c \in Callers, CancelReconnect(c)
          PROVE  ReconnectBudget'
      BY <2>1, <2>2, <2>8, SleeperCount DEF CancelReconnect, ReconnectBudget
    <2>9. CASE TerminalChanges
      BY <2>9 DEF TerminalChanges, ReconnectBudget
    <2>10. CASE UNCHANGED connVars
      BY <2>10 DEF connVars, ReconnectBudget
    <2>11. QED
      BY <2>3, <2>4, <2>5, <2>6, <2>7, <2>8, <2>9, <2>10 DEF ConnNext
  <1>3. QED BY <1>1, <1>2, ConnTypeCorrect, PTL DEF ConnSpec

(* No sleep is longer than reconnect_max_delay_s, given an initial delay   *)
(* that is not.                                                            *)
BackoffBounded ==
  InitialDelay <= MaxDelay => \A c \in asleep : delay[c] <= MaxDelay

(* The back-off never outgrows its ceiling when it starts below it. *)
THEOREM BackoffCapped == ConnSpec => []BackoffBounded
  <1>1. ConnInit => BackoffBounded
    BY DEF ConnInit, BackoffBounded
  <1>2. ConnTypeOK /\ BackoffBounded /\ [ConnNext]_connVars => BackoffBounded'
    <2> SUFFICES ASSUME ConnTypeOK, BackoffBounded, [ConnNext]_connVars,
                        InitialDelay <= MaxDelay
                 PROVE  \A c \in asleep' : delay'[c] <= MaxDelay
      BY DEF BackoffBounded
    <2> USE ConnectionAssumption DEF ConnectionAssumption, ConnTypeOK, BackoffBounded
    <2>1. ASSUME NEW c \in Callers, ReconnectAsync(c)
          PROVE  \A d \in asleep' : delay'[d] <= MaxDelay
      BY <2>1 DEF ReconnectAsync
    <2>2. ASSUME NEW c \in Callers, Wake(c)
          PROVE  \A d \in asleep' : delay'[d] <= MaxDelay
      <3>1. NextDelay(delay[c]) <= MaxDelay
        BY DEF NextDelay
      <3>2. QED BY <2>2, <3>1 DEF Wake
    <2>3. ASSUME NEW c \in Callers, CancelReconnect(c)
          PROVE  \A d \in asleep' : delay'[d] <= MaxDelay
      BY <2>3 DEF CancelReconnect
    <2>4. CASE UNCHANGED <<asleep, delay>>
      BY <2>4
    <2>5. QED
      BY <2>1, <2>2, <2>3, <2>4
         DEF ConnNext, connVars, Connect, Disconnect, Reconnect, TerminalChanges
  <1>3. QED BY <1>1, <1>2, ConnTypeCorrect, PTL DEF ConnSpec

-----------------------------------------------------------------------------
(* Why reconnect_async() returns: what the retry counter has left and the  *)
(* sleepers together are a budget that every wake-up without a terminal    *)
(* uses up, and that only a success renews.  (That the wake-ups come is    *)
(* the fairness of ConnFairSpec; TLC checks ReconnectReturns from it.)     *)

Remaining == (MaxAttempts - attempt) + Cardinality(asleep)

WakeSpends == terminal # "up" /\ (\E c \in Callers : Wake(c)) => Remaining' < Remaining
OnlySuccessRenews == Remaining' > Remaining => state' = "CONNECTED" /\ attempt' = 0
WakeReturnsWhenUp ==
  \A c \in Callers : terminal = "up" /\ Wake(c) => c \notin asleep' /\ state' = "CONNECTED"

THEOREM SleepsRunOut ==
  ConnSpec => /\ [](Remaining \in Nat)
              /\ [][WakeSpends /\ OnlySuccessRenews /\ WakeReturnsWhenUp]_connVars
  <1>1. ConnTypeOK => /\ Remaining \in Nat /\ Cardinality(asleep) \in Nat
                      /\ MaxAttempts \in Nat /\ attempt \in Nat
                      /\ attempt <= MaxAttempts
    <2> SUFFICES ASSUME ConnTypeOK
                 PROVE  /\ Remaining \in Nat /\ Cardinality(asleep) \in Nat
                        /\ MaxAttempts \in Nat /\ attempt \in Nat
                        /\ attempt <= MaxAttempts
      OBVIOUS
    <2>1. IsFiniteSet(Callers) /\ asleep \subseteq Callers
      BY ConnectionAssumption DEF ConnTypeOK
    <2>2. Cardinality(asleep) \in Nat
      BY <2>1, FS_Subset, FS_CardinalityType
    <2>3. MaxAttempts \in Nat /\ attempt \in Nat /\ attempt <= MaxAttempts
      BY ConnectionAssumption DEF ConnTypeOK
    <2>4. QED BY <2>2, <2>3 DEF Remaining
  <1>2. ConnTypeOK /\ ConnNext => WakeSpends /\ OnlySuccessRenews /\ WakeReturnsWhenUp
    <2> SUFFICES ASSUME ConnTypeOK, ConnNext
                 PROVE  WakeSpends /\ OnlySuccessRenews /\ WakeReturnsWhenUp
      OBVIOUS
    <2>1. /\ Cardinality(asleep) \in Nat /\ MaxAttempts \in Nat
          /\ attempt \in Nat /\ attempt <= MaxAttempts
      BY <1>1
    <2>2. ASSUME NEW c \in Callers, Wake(c)
          PROVE  /\ terminal # "up" => Remaining' < Remaining
                 /\ terminal = "up" =>
                      c \notin asleep' /\ state' = "CONNECTED" /\ attempt' = 0
      <3>1. CASE terminal = "up"
        BY <2>2, <3>1 DEF Wake, Handshake, Succeed
      <3>2. CASE terminal # "up" /\ AttemptsLeft
        BY <2>1, <2>2, <3>2 DEF Wake, Remaining
      <3>3. CASE terminal # "up" /\ ~AttemptsLeft
        BY <2>1, <2>2, <3>3, SleeperCount DEF Wake, Remaining
      <3>4. QED BY <3>1, <3>2, <3>3
    <2>3. WakeSpends /\ WakeReturnsWhenUp
      BY <2>2 DEF WakeSpends, WakeReturnsWhenUp
    <2>4. OnlySuccessRenews
      <3> SUFFICES ASSUME Remaining' > Remaining
                   PROVE  state' = "CONNECTED" /\ attempt' = 0
        BY DEF OnlySuccessRenews
      <3>1. CASE Connect
        BY <2>1, <3>1 DEF Connect, Handshake, Succeed, Remaining, ConnTypeOK, Terminal
      <3>2. CASE Disconnect
        BY <2>1, <3>2 DEF Disconnect, Remaining
      <3>3. CASE Reconnect
        <4>1. CASE AttemptsLeft /\ terminal = "up"
          BY <3>3, <4>1 DEF Reconnect, Handshake, Succeed
        <4>2. CASE ~(AttemptsLeft /\ terminal = "up")
          BY <2>1, <3>3, <4>2 DEF Reconnect, Remaining
        <4>3. QED BY <4>1, <4>2
      <3>4. ASSUME NEW c \in Callers, ReconnectAsync(c)
            PROVE  FALSE
        BY <2>1, <3>4, SleeperCount DEF ReconnectAsync, Remaining
      <3>5. ASSUME NEW c \in Callers, Wake(c)
            PROVE  state' = "CONNECTED" /\ attempt' = 0
        <4>1. terminal = "up"
          <5>1. Remaining \in Int /\ Remaining' \in Int
            <6>1. CASE terminal = "up"
              BY <2>1, <3>5, <6>1, SleeperCount DEF Wake, Succeed, Remaining
            <6>2. CASE terminal # "up"
              BY <2>1, <3>5, <6>2, SleeperCount DEF Wake, Remaining
            <6>3. QED BY <6>1, <6>2
          <5>2. QED BY <2>2, <3>5, <5>1
        <4>2. QED BY <2>2, <3>5, <4>1
      <3>6. ASSUME NEW c \in Callers, CancelReconnect(c)
            PROVE  FALSE
        BY <2>1, <3>6, SleeperCount DEF CancelReconnect, Remaining
      <3>7. CASE TerminalChanges
        BY <2>1, <3>7 DEF TerminalChanges, Remaining
      <3>8. QED BY <3>1, <3>2, <3>3, <3>4, <3>5, <3>6, <3>7 DEF ConnNext
    <2>5. QED BY <2>3, <2>4
  <1>3. QED BY <1>1, <1>2, ConnTypeCorrect, PTL DEF ConnSpec

=============================================================================
