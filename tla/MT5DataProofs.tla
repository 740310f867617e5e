---------------------------- MODULE MT5DataProofs ----------------------------
(***************************************************************************)
(* Safety of the data client's subscriptions and of its duplicate filter,  *)
(* for any set of symbols and bar types, any number of ticks and outages.  *)
(*                                                                         *)
(* The handlers may release a symbol and ask for it again while the poll   *)
(* task awaits that symbol's tick.  What keeps the filter right is that    *)
(* the remembered time and the published times are forgotten together.     *)
(***************************************************************************)
EXTENDS MT5Data, FiniteSetTheorems, TLAPS

(* The poll task waits for a symbol of its snapshot, or for none. *)
Placed ==
  /\ place \in {"reselect", "retry"} => current \in todo
  /\ place \in {"between", "next"} => current = NoSymbol

(* What was published is no newer than what is remembered, and that no     *)
(* newer than what the broker has.                                         *)
InOrder ==
  \A s \in Symbols : lastTick[s] <= quote[s] /\ \A i \in DOMAIN seen[s] : seen[s][i] <= lastTick[s]

(* A snapshot is being polled only by a live task; _connect() waits only   *)
(* when there is none.                                                     *)
PolledLive ==
  /\ todo # {} => Live
  /\ connecting => ~Live

(* _connect() has loaded the configured symbols before a poll can start. *)
LoadedFirst == connecting \/ Live => ConfigSymbols \subseteq known

TickType ==
  /\ quote \in [Symbols -> 0..MaxTick]
  /\ lastTick \in [Symbols -> 0..MaxTick]
  /\ seen \in [Symbols -> Seq(1..MaxTick)]

(* The part of the invariant about ticks ... *)
TickInv ==
  /\ TickType
  /\ InOrder
  /\ SuppressedWasPublished

(* ... and the part about subscriptions and the poll task. *)
TaskInv ==
  /\ mt5 \in {"up", "mute", "refused"}
  /\ flaps \in 0..MaxFlaps
  /\ isConnected \in BOOLEAN
  /\ connecting \in BOOLEAN
  /\ subscribed \subseteq Symbols
  /\ barTypes \subseteq BarType
  /\ waiting \subseteq Symbols
  /\ known \subseteq Symbols
  /\ task \in {"none", "live", "done"}
  /\ place \in Places
  /\ todo \subseteq Symbols
  /\ place = "between" <=> todo = {}
  /\ empties \in 0..3
  /\ Placed
  /\ PolledLive
  /\ LoadedFirst
  /\ EarlySubscriptionsServed

DataInv == TickInv /\ TaskInv

-----------------------------------------------------------------------------
LEMMA ElementsOf ==
  ASSUME NEW S, NEW q \in Seq(S)
  PROVE  \A i \in DOMAIN q : q[i] \in S
OBVIOUS

(* A sequence with one more element. *)
LEMMA OneMore ==
  ASSUME NEW S, NEW q \in Seq(S), NEW x \in S, NEW more, more = Append(q, x)
  PROVE  /\ more \in Seq(S) /\ more # <<>>
         /\ more[Len(more)] = x
         /\ \A i \in DOMAIN more : more[i] = x \/ (i \in DOMAIN q /\ more[i] = q[i])
<1>1. more \in Seq(S) /\ Len(more) = Len(q) + 1
  OBVIOUS
<1>2. more[Len(q) + 1] = x
  OBVIOUS
<1>3. \A i \in 1..Len(q) : more[i] = q[i]
  OBVIOUS
<1>4. DOMAIN q = 1..Len(q) /\ DOMAIN more = 1..(Len(q) + 1) /\ Len(q) \in Nat
  OBVIOUS
<1>5. \A i \in DOMAIN more : more[i] = x \/ (i \in DOMAIN q /\ more[i] = q[i])
  <2> SUFFICES ASSUME NEW i \in DOMAIN more
               PROVE  more[i] = x \/ (i \in DOMAIN q /\ more[i] = q[i])
    OBVIOUS
  <2>1. CASE i = Len(q) + 1
    BY <1>2, <2>1
  <2>2. CASE i \in 1..Len(q)
    BY <1>3, <1>4, <2>2
  <2>3. i = Len(q) + 1 \/ i \in 1..Len(q)
    BY <1>4
  <2> QED BY <2>1, <2>2, <2>3
<1>6. more # <<>>
  <2>1. Len(<<>>) = 0 /\ Len(more) # 0
    BY <1>1, <1>4
  <2> QED BY ONLY <2>1
<1> QED BY ONLY <1>1, <1>2, <1>5, <1>6

(* The filter: a tick that comes is suppressed or published, once. *)
LEMMA PublishKeeps ==
  ASSUME TickInv, NEW s \in Symbols, quote[s] # 0, s \in ConfigSymbols => s \in known,
         Publish(s), UNCHANGED quote
  PROVE  TickInv'
<1>1. CASE lastTick[s] = quote[s]
  <2>1. UNCHANGED <<quote, lastTick, seen>>
    BY <1>1 DEF Publish
  <2> QED BY <2>1 DEF TickInv, TickType, InOrder, SuppressedWasPublished, LastSeenIs
<1>2. CASE lastTick[s] # quote[s]
  <2>1. lastTick' = [lastTick EXCEPT ![s] = quote[s]]
    BY <1>2 DEF Publish
  <2>2. quote[s] \in 1..MaxTick /\ lastTick[s] \in 0..MaxTick /\ lastTick[s] < quote[s]
    BY <1>2, DataAssumption DEF TickInv, TickType, InOrder
  <2>3. \A i \in DOMAIN seen[s] : seen[s][i] \in Nat /\ seen[s][i] <= quote[s]
    <3>1. seen[s] \in Seq(1..MaxTick) /\ \A i \in DOMAIN seen[s] : seen[s][i] <= lastTick[s]
      BY DEF TickInv, TickType, InOrder
    <3>2. \A i \in DOMAIN seen[s] : seen[s][i] \in 1..MaxTick
      BY <3>1, ElementsOf
    <3> QED BY <2>2, <3>1, <3>2, DataAssumption
  <2>4. CASE GetInstrument(s)
    <3>1. seen' = [seen EXCEPT ![s] = Append(@, quote[s])]
      BY <1>2, <2>4 DEF Publish
    <3>2. seen[s] \in Seq(1..MaxTick)
      BY DEF TickInv, TickType
    <3>3. seen'[s] = Append(seen[s], quote[s])
      BY <3>1 DEF TickInv, TickType
    <3>4. /\ seen'[s] \in Seq(1..MaxTick) /\ seen'[s] # <<>>
          /\ seen'[s][Len(seen'[s])] = quote[s]
          /\ \A i \in DOMAIN seen'[s] :
               \/ seen'[s][i] = quote[s]
               \/ i \in DOMAIN seen[s] /\ seen'[s][i] = seen[s][i]
      BY <2>2, <3>2, <3>3, OneMore
    <3>5. TickType'
      BY <2>1, <2>2, <3>1, <3>4 DEF TickInv, TickType
    <3>6. InOrder'
      <4> SUFFICES ASSUME NEW u \in Symbols
                   PROVE  /\ lastTick'[u] <= quote'[u]
                          /\ \A i \in DOMAIN seen'[u] : seen'[u][i] <= lastTick'[u]
        BY DEF InOrder
      <4>1. CASE u = s
        <5>1. lastTick'[u] = quote[s] /\ seen'[u] = Append(seen[s], quote[s])
          BY <2>1, <3>1, <4>1 DEF TickInv, TickType
        <5>2. \A i \in DOMAIN seen'[u] : seen'[u][i] <= quote[s]
          BY <2>2, <2>3, <3>4, <4>1
        <5> QED BY <2>2, <4>1, <5>1, <5>2
      <4>2. CASE u # s
        BY <2>1, <3>1, <4>2 DEF TickInv, TickType, InOrder
      <4> QED BY <4>1, <4>2
    <3>7. SuppressedWasPublished'
      <4>1. seen'[s] = Append(seen[s], quote[s]) /\ lastTick'[s] = quote[s]
        BY <2>1, <3>1 DEF TickInv, TickType
      <4>2. seen'[s] # <<>> /\ lastTick'[s] = seen'[s][Len(seen'[s])]
        BY <3>4, <4>1
      <4>3. \A u \in Symbols \ {s} : lastTick'[u] = lastTick[u] /\ seen'[u] = seen[u]
        BY <2>1, <3>1 DEF TickInv, TickType
      <4> QED BY <4>2, <4>3, DataAssumption DEF TickInv, SuppressedWasPublished, LastSeenIs
    <3> QED BY <3>1, <3>5, <3>6, <3>7 DEF TickInv
  <2>5. CASE ~GetInstrument(s)
    <3>1. seen' = seen /\ (s \notin ConfigSymbols \/ Upper[s] # s)
      BY <1>2, <2>5 DEF Publish, GetInstrument
    <3>2. TickType'
      BY <2>1, <2>2, <3>1 DEF TickInv, TickType
    <3>3. InOrder'
      <4> SUFFICES ASSUME NEW u \in Symbols
                   PROVE  /\ lastTick'[u] <= quote'[u]
                          /\ \A i \in DOMAIN seen'[u] : seen'[u][i] <= lastTick'[u]
        BY DEF InOrder
      <4>1. CASE u = s
        <5>1. lastTick'[u] = quote[s]
          BY <2>1, <4>1 DEF TickInv, TickType
        <5> QED BY <2>2, <2>3, <3>1, <4>1, <5>1
      <4>2. CASE u # s
        BY <2>1, <3>1, <4>2 DEF TickInv, TickType, InOrder
      <4> QED BY <4>1, <4>2
    <3>4. SuppressedWasPublished'
      BY <2>1, <3>1, DataAssumption DEF TickInv, TickType, SuppressedWasPublished, LastSeenIs
    <3> QED BY <3>1, <3>2, <3>3, <3>4 DEF TickInv
  <2> QED BY <2>4, <2>5
<1> QED BY <1>1, <1>2

(* Releasing a symbol forgets its remembered and its published times. *)
LEMMA ReleaseKeeps ==
  ASSUME TickInv, NEW s \in Symbols, lastTick' = [lastTick EXCEPT ![s] = 0],
         seen' = [seen EXCEPT ![s] = <<>>], UNCHANGED <<quote>>
  PROVE  TickInv'
<1>1. TickType'
  BY DataAssumption DEF TickInv, TickType
<1>2. InOrder'
  BY DataAssumption DEF TickInv, TickType, InOrder
<1>3. SuppressedWasPublished'
  BY DataAssumption DEF TickInv, TickType, SuppressedWasPublished, LastSeenIs
<1> QED BY <1>1, <1>2, <1>3 DEF TickInv

LEMMA TicksUntouched ==
  ASSUME TickInv, UNCHANGED <<quote, lastTick, seen>>
  PROVE  TickInv'
BY DEF TickInv, TickType, InOrder, SuppressedWasPublished, LastSeenIs

(* After a step that starts or stops the poll task, no poll is under way. *)
LEMMA NothingPolled ==
  ASSUME place' = "between", todo' = {}, current' = NoSymbol, empties' = 0,
         mt5' \in {"up", "mute", "refused"}, flaps' \in 0..MaxFlaps,
         isConnected' \in BOOLEAN, connecting' \in BOOLEAN,
         task' \in {"none", "live", "done"},
         subscribed' \subseteq Symbols, barTypes' \subseteq BarType,
         waiting' \subseteq Symbols, known' \subseteq Symbols,
         connecting' => task' # "live", LoadedFirst', EarlySubscriptionsServed'
  PROVE  TaskInv'
<1>1. (place \in Places)'
  BY DEF Places
<1>2. todo' \subseteq Symbols /\ (place = "between" <=> todo = {})'
  OBVIOUS
<1>3. empties' \in 0..3
  OBVIOUS
<1>4. Placed' /\ PolledLive'
  BY DEF Placed, PolledLive, Live
<1> QED BY <1>1, <1>2, <1>3, <1>4 DEF TaskInv

(* One answer of symbol_info_tick() for a symbol of the snapshot. *)
LEMMA TickForKeeps ==
  ASSUME DataInv, Live, NEW s \in todo, NEW n \in 0..2, TickFor(s, n), PollUnchanged
  PROVE  DataInv'
<1>1. s \in Symbols /\ s # NoSymbol
  BY DataAssumption DEF DataInv, TaskInv
<1>2. /\ UNCHANGED <<quote, mt5, flaps, isConnected, subscribed, barTypes, waiting,
                     known, connecting, task>>
  BY DEF PollUnchanged, brokerVars
<1>3. CASE Answers /\ quote[s] # 0
  <2>1. Publish(s) /\ NextSymbol(s)
    BY <1>3 DEF TickFor
  <2>2. TickInv'
    BY <1>1, <1>2, <1>3, <2>1, PublishKeeps DEF DataInv, TaskInv, LoadedFirst
  <2>3. TaskInv'
    BY <1>2, <2>1
    DEF NextSymbol, DataInv, TaskInv, Placed, PolledLive, LoadedFirst, Live,
        EarlySubscriptionsServed, Places
  <2> QED BY <2>2, <2>3 DEF DataInv
<1>4. CASE ~(Answers /\ quote[s] # 0)
  <2>1. Await("retry", s, n + 1) /\ UNCHANGED <<lastTick, seen>>
    BY <1>4 DEF TickFor
  <2>2. TickInv'
    BY <1>2, <2>1, TicksUntouched DEF DataInv
  <2>3. TaskInv'
    BY <1>2, <2>1
    DEF Await, DataInv, TaskInv, Placed, PolledLive, LoadedFirst, Live,
        EarlySubscriptionsServed, Places
  <2> QED BY <2>2, <2>3 DEF DataInv
<1> QED BY <1>3, <1>4

LEMMA PollStepKeeps ==
  ASSUME DataInv, PollStep
  PROVE  DataInv'
<1>1. CASE BeginPoll
  <2>1. TickInv'
    BY <1>1, TicksUntouched DEF BeginPoll, PollUnchanged, brokerVars, DataInv
  <2>2. TaskInv'
    BY <1>1
    DEF BeginPoll, PollUnchanged, brokerVars, DataInv, TaskInv, Placed, PolledLive, LoadedFirst,
        Live, EarlySubscriptionsServed, Places
  <2> QED BY <2>1, <2>2 DEF DataInv
<1>2. CASE PollRaises
  <2>1. TickInv'
    BY <1>2, TicksUntouched DEF PollRaises, brokerVars, clientVars, DataInv
  <2>2. TaskInv'
    BY <1>2
    DEF PollRaises, StopTask, brokerVars, clientVars, DataInv, TaskInv, Placed,
        PolledLive, LoadedFirst, Live, EarlySubscriptionsServed, Places
  <2> QED BY <2>1, <2>2 DEF DataInv
<1>3. ASSUME NEW s \in Symbols, PollSymbol(s)
      PROVE  DataInv'
  <2>1. CASE Answers
    <3>1. Live /\ s \in todo /\ TickFor(s, 0) /\ PollUnchanged
      BY <1>3, <2>1 DEF PollSymbol
    <3> QED BY <3>1, TickForKeeps
  <2>2. CASE ~Answers
    <3>1. Live /\ s \in todo /\ Await("reselect", s, 0) /\ PollUnchanged
          /\ UNCHANGED <<lastTick, seen>>
      BY <1>3, <2>2 DEF PollSymbol
    <3>2. TickInv'
      BY <3>1, TicksUntouched DEF PollUnchanged, brokerVars, DataInv
    <3>3. TaskInv'
      BY <3>1
      DEF Await, PollUnchanged, brokerVars, DataInv, TaskInv, Placed, PolledLive, LoadedFirst,
          Live, EarlySubscriptionsServed, Places
    <3> QED BY <3>2, <3>3 DEF DataInv
  <2> QED BY <2>1, <2>2
<1>4. ASSUME NextSymbol(current), current \in todo, PollUnchanged,
             UNCHANGED <<lastTick, seen>>
      PROVE  DataInv'
  <2>1. TickInv'
    BY <1>4, TicksUntouched DEF PollUnchanged, brokerVars, DataInv
  <2>2. TaskInv'
    BY <1>4
    DEF NextSymbol, PollUnchanged, brokerVars, DataInv, TaskInv, Placed, PolledLive, LoadedFirst,
        Live, EarlySubscriptionsServed, Places
  <2> QED BY <2>1, <2>2 DEF DataInv
<1>5. CASE Reselect
  <2>1. Live /\ current \in todo /\ PollUnchanged
    BY <1>5 DEF Reselect, DataInv, TaskInv, Placed
  <2>2. CASE Answers
    BY <1>5, <2>1, <2>2, TickForKeeps DEF Reselect
  <2>3. CASE ~Answers
    BY <1>4, <1>5, <2>1, <2>3 DEF Reselect
  <2> QED BY <2>2, <2>3
<1>6. CASE Retry
  <2>1. Live /\ current \in todo /\ PollUnchanged
    BY <1>6 DEF Retry, DataInv, TaskInv, Placed
  <2>2. CASE RetriesLeft
    <3>1. empties \in 0..2
      BY <2>2 DEF RetriesLeft, DataInv, TaskInv
    <3> QED BY <1>6, <2>1, <2>2, <3>1, TickForKeeps DEF Retry
  <2>3. CASE ~RetriesLeft
    BY <1>4, <1>6, <2>1, <2>3 DEF Retry
  <2> QED BY <2>2, <2>3
<1> QED BY <1>1, <1>2, <1>3, <1>5, <1>6 DEF PollStep

(* A step of the engine's side: what happens to the ticks is one of three   *)
(* things, and the poll task is where it was, starts or stops.             *)
LEMMA EngineStepKeeps ==
  ASSUME DataInv, EngineStep
  PROVE  DataInv'
<1> USE DEF DataInv, TaskInv, Placed, PolledLive, LoadedFirst, Live, EarlySubscriptionsServed, Places
<1>1. CASE Connect
  <2>1. TickInv'
    BY <1>1, TicksUntouched DEF Connect, Loads, brokerVars
  <2>2. /\ isConnected' = TRUE /\ ~Live /\ ~connecting
        /\ UNCHANGED <<mt5, flaps, barTypes, waiting, task, place, todo, current, empties>>
    BY <1>1 DEF Connect, brokerVars, pollVars
  <2>3. /\ subscribed' \subseteq Symbols /\ known' \subseteq Symbols
        /\ connecting' \in BOOLEAN
        /\ connecting' => ConfigSymbols \subseteq known'
    <3>1. CASE Loads(ConfigSymbols) /\ connecting' = TRUE
      <4>1. known' = known \cup {s \in ConfigSymbols : ~GetInstrument(s)}
        BY <3>1 DEF Loads
      <4>2. \A s \in ConfigSymbols : GetInstrument(s) => s \in known
        BY DataAssumption DEF GetInstrument
      <4> QED BY <3>1, <4>1, <4>2, DataAssumption DEF Loads
    <3>2. CASE connecting' = connecting /\ \E loaded \in SUBSET ConfigSymbols : Loads(loaded)
      BY <2>2, <3>2, DataAssumption DEF Loads
    <3> QED BY <1>1, <3>1, <3>2 DEF Connect
  <2> QED BY <2>1, <2>2, <2>3
<1>2. CASE FinishConnect
  <2>1. TickInv'
    BY <1>2, TicksUntouched DEF FinishConnect, brokerVars
  <2>2. /\ task' = "live" /\ place' = "between" /\ todo' = {} /\ current' = NoSymbol
        /\ empties' = 0 /\ connecting' = FALSE /\ waiting' = {}
        /\ subscribed' = subscribed \cup waiting
        /\ UNCHANGED <<mt5, flaps, isConnected, barTypes, known>>
    BY <1>2 DEF FinishConnect, StartTask, brokerVars
  <2>3. connecting
    BY <1>2 DEF FinishConnect
  <2>4. subscribed' \subseteq Symbols /\ waiting' \subseteq Symbols /\ todo' \subseteq Symbols
    BY <2>2
  <2>5. ConfigSymbols \subseteq known'
    BY <2>2, <2>3
  <2>6. EarlySubscriptionsServed'
    BY <2>2
  <2>7. LoadedFirst'
    BY <2>5
  <2>8. TaskInv'
    BY ONLY <2>2, <2>4, <2>6, <2>7, DataInv, NothingPolled DEF DataInv, TaskInv
  <2> QED BY <2>1, <2>8
<1>3. CASE Disconnect
  <2>1. CASE Live
    <3>1. TickInv'
      BY <1>3, <2>1, TicksUntouched DEF Disconnect, brokerVars
    <3>2. /\ isConnected' = FALSE /\ task' = "done" /\ place' = "between" /\ todo' = {}
          /\ current' = NoSymbol /\ empties' = 0
          /\ UNCHANGED <<mt5, flaps, connecting, subscribed, barTypes, waiting, known>>
      BY <1>3, <2>1 DEF Disconnect, StopTask, brokerVars
    <3>3. EarlySubscriptionsServed' /\ LoadedFirst'
      BY <2>1, <3>2
    <3>4. TaskInv'
      BY <3>2, <3>3, NothingPolled
    <3> QED BY <3>1, <3>4
  <2>2. CASE ~Live
    <3>1. /\ quote' = quote
          /\ lastTick' = [s \in Symbols |-> 0] /\ seen' = [s \in Symbols |-> <<>>]
      BY <1>3, <2>2 DEF Disconnect, brokerVars
    <3>2. TickInv'
      BY <3>1, DataAssumption
      DEF TickInv, TickType, InOrder, SuppressedWasPublished, LastSeenIs
    <3>3. /\ isConnected' = FALSE /\ subscribed' = {} /\ barTypes' = {} /\ waiting' = {}
          /\ UNCHANGED <<mt5, flaps, connecting, known, task, place, todo, current, empties>>
      BY <1>3, <2>2 DEF Disconnect, brokerVars, pollVars
    <3>4. subscribed' \subseteq Symbols /\ barTypes' \subseteq BarType
          /\ waiting' \subseteq Symbols
      BY <3>3
    <3> QED BY <3>2, <3>3, <3>4
  <2> QED BY <2>1, <2>2
<1>4. ASSUME NEW s \in Symbols, SubscribeQuoteTicks(s)
      PROVE  DataInv'
  <2>1. TickInv'
    BY <1>4, TicksUntouched DEF SubscribeQuoteTicks, brokerVars
  <2>2. TaskInv'
    BY <1>4 DEF SubscribeQuoteTicks, Request, brokerVars, pollVars
  <2> QED BY <2>1, <2>2
<1>5. ASSUME NEW s \in Symbols, UnsubscribeQuoteTicks(s)
      PROVE  DataInv'
  <2>1. TickInv'
    BY <1>5, ReleaseKeeps DEF UnsubscribeQuoteTicks, Release, brokerVars
  <2>2. TaskInv'
    BY <1>5 DEF UnsubscribeQuoteTicks, Release, brokerVars, pollVars
  <2> QED BY <2>1, <2>2
<1>6. ASSUME NEW s \in Symbols, RequestInstrument(s)
      PROVE  DataInv'
  <2>1. TickInv'
    BY <1>6, TicksUntouched DEF RequestInstrument, brokerVars
  <2>2. TaskInv'
    BY <1>6 DEF RequestInstrument, brokerVars, pollVars
  <2> QED BY <2>1, <2>2
<1>7. ASSUME NEW b \in BarType, SubscribeBars(b)
      PROVE  DataInv'
  <2>1. b[1] \in Symbols
    BY DataAssumption
  <2>2. TickInv'
    BY <1>7, TicksUntouched DEF SubscribeBars, brokerVars
  <2>3. TaskInv'
    BY <1>7, <2>1 DEF SubscribeBars, Request, brokerVars, pollVars
  <2> QED BY <2>2, <2>3
<1>8. ASSUME NEW b \in BarType, UnsubscribeBars(b)
      PROVE  DataInv'
  <2>1. b[1] \in Symbols
    BY DataAssumption
  <2>2. CASE StillNeeded(b[1], barTypes')
    <3>1. TickInv'
      BY <1>8, <2>2, TicksUntouched DEF UnsubscribeBars, brokerVars
    <3>2. TaskInv'
      BY <1>8, <2>2 DEF UnsubscribeBars, brokerVars, pollVars
    <3> QED BY <3>1, <3>2
  <2>3. CASE ~StillNeeded(b[1], barTypes')
    <3>1. TickInv'
      BY <1>8, <2>1, <2>3, ReleaseKeeps DEF UnsubscribeBars, Release, brokerVars
    <3>2. TaskInv'
      BY <1>8, <2>3 DEF UnsubscribeBars, Release, brokerVars, pollVars
    <3> QED BY <3>1, <3>2
  <2> QED BY <2>2, <2>3
<1> QED BY <1>1, <1>2, <1>3, <1>4, <1>5, <1>6, <1>7, <1>8 DEF EngineStep

(* The broker and the library. *)
LEMMA BrokerStepKeeps ==
  ASSUME DataInv, (\E s \in Symbols : NewTick(s)) \/ MT5Fails \/ MT5Recovers
  PROVE  DataInv'
<1> USE DEF DataInv, TaskInv, Placed, PolledLive, LoadedFirst, Live, EarlySubscriptionsServed, Places
<1>1. ASSUME NEW s \in Symbols, NewTick(s)
      PROVE  DataInv'
  <2>1. /\ quote' = [quote EXCEPT ![s] = @ + 1] /\ quote[s] < MaxTick
        /\ UNCHANGED <<lastTick, seen>>
    BY <1>1 DEF NewTick, clientVars
  <2>2. TickType'
    BY <2>1, DataAssumption DEF TickInv, TickType
  <2>3. InOrder'
    BY <2>1, DataAssumption DEF TickInv, TickType, InOrder
  <2>4. TickInv'
    BY <2>1, <2>2, <2>3 DEF TickInv, SuppressedWasPublished, LastSeenIs
  <2>5. TaskInv'
    BY <1>1 DEF NewTick, clientVars, pollVars
  <2> QED BY <2>4, <2>5
<1>2. CASE MT5Fails
  <2>1. TickInv'
    BY <1>2, TicksUntouched DEF MT5Fails, clientVars
  <2>2. TaskInv'
    BY <1>2, DataAssumption DEF MT5Fails, clientVars, pollVars
  <2> QED BY <2>1, <2>2
<1>3. CASE MT5Recovers
  <2>1. TickInv'
    BY <1>3, TicksUntouched DEF MT5Recovers, clientVars
  <2>2. TaskInv'
    BY <1>3 DEF MT5Recovers, clientVars, pollVars
  <2> QED BY <2>1, <2>2
<1> QED BY <1>1, <1>2, <1>3

-----------------------------------------------------------------------------
(* The specification. *)

LEMMA DataInvInit == DataInit => DataInv
<1> SUFFICES ASSUME DataInit PROVE DataInv
  OBVIOUS
<1>1. TickInv
  BY DataAssumption
  DEF DataInit, TickInv, TickType, InOrder, SuppressedWasPublished, LastSeenIs
<1>2. flaps \in 0..MaxFlaps
  BY DataAssumption DEF DataInit
<1>3. /\ subscribed \subseteq Symbols /\ barTypes \subseteq BarType
      /\ waiting \subseteq Symbols /\ known \subseteq Symbols /\ todo \subseteq Symbols
  BY DEF DataInit
<1>4. TaskInv
  <2>1. place \in Places /\ (place = "between" <=> todo = {}) /\ empties \in 0..3
    BY DEF DataInit, Places
  <2>2. Placed /\ PolledLive /\ LoadedFirst /\ EarlySubscriptionsServed
    BY DEF DataInit, Placed, PolledLive, LoadedFirst, Live, EarlySubscriptionsServed
  <2> QED BY <1>2, <1>3, <2>1, <2>2 DEF DataInit, TaskInv
<1> QED BY <1>1, <1>4 DEF DataInv

LEMMA DataInvStep == DataInv /\ [DataNext]_dataVars => DataInv'
<1> SUFFICES ASSUME DataInv, [DataNext]_dataVars
             PROVE  DataInv'
  OBVIOUS
<1>1. CASE DataNext
  BY <1>1, PollStepKeeps, EngineStepKeeps, BrokerStepKeeps DEF DataNext
<1>2. CASE UNCHANGED dataVars
  <2>1. TickInv'
    BY <1>2, TicksUntouched DEF dataVars, brokerVars, clientVars, DataInv
  <2>2. TaskInv'
    BY <1>2
    DEF dataVars, brokerVars, clientVars, pollVars, DataInv, TaskInv, Placed,
        PolledLive, LoadedFirst, Live, EarlySubscriptionsServed
  <2> QED BY <2>1, <2>2 DEF DataInv
<1> QED BY <1>1, <1>2

LEMMA DataInvariant == DataSpec => []DataInv
<1> QED BY DataInvInit, DataInvStep, PTL DEF DataSpec

(* Types; the poll task waits for a symbol of its snapshot and leaves the  *)
(* poll exactly when the snapshot is done.                                 *)
THEOREM DataTypeCorrect == DataSpec => []DataTypeOK
<1>1. DataInv => DataTypeOK
  BY DEF DataInv, TickInv, TickType, TaskInv, Placed, Places, DataTypeOK
<1> QED BY <1>1, DataInvariant, PTL

(* A client that polls has picked up every early subscription. *)
THEOREM EarlyServed == DataSpec => []EarlySubscriptionsServed
<1>1. DataInv => EarlySubscriptionsServed
  BY DEF DataInv, TaskInv
<1> QED BY <1>1, DataInvariant, PTL

(* The filter suppresses only what a configured symbol's subscriber had. *)
THEOREM SuppressedHadBeen == DataSpec => []SuppressedWasPublished
<1>1. DataInv => SuppressedWasPublished
  BY DEF DataInv, TickInv
<1> QED BY <1>1, DataInvariant, PTL

-----------------------------------------------------------------------------
(* The client implements the feed: every step is a step of QuoteFeed or    *)
(* leaves what the engine can see as it was.                               *)

Standing == subscribed \cup waiting
Late == todo \ Standing

FeedStep == [Feed!FeedNext]_(Feed!feedVars)

(* A step that only leaves symbols of the snapshot behind. *)
LEMMA SettleMaps ==
  ASSUME UNCHANGED <<quote, seen>>, Standing' = Standing, todo' \subseteq todo
  PROVE  FeedStep
<1>1. Late' \in SUBSET Late
  BY DEF Late
<1>2. Feed!Settle
  BY <1>1 DEF Feed!Settle, Late, Standing
<1> QED BY <1>2 DEF FeedStep, Feed!FeedNext

(* A step that stops what is polled or noted for some symbols, and forgets *)
(* their ticks, whatever the poll under way still holds.                   *)
LEMMA ReleaseMaps ==
  ASSUME NEW released \in SUBSET Symbols, UNCHANGED <<quote, todo>>,
         Standing' = Standing \ released,
         seen' = [s \in Symbols |-> IF s \in released THEN <<>> ELSE seen[s]]
  PROVE  FeedStep
<1>1. Late' \in SUBSET (Late \cup released)
  BY DEF Late
<1>2. Feed!Release(released)
  BY <1>1 DEF Feed!Release, Late, Standing
<1> QED BY <1>2 DEF FeedStep, Feed!FeedNext

(* A step that polls or notes some more symbols. *)
LEMMA AskMaps ==
  ASSUME NEW asked \in SUBSET Symbols, UNCHANGED <<quote, seen, todo>>,
         Standing' = Standing \cup asked
  PROVE  FeedStep
<1>1. Late' = Late \ asked
  BY DEF Late
<1>2. Feed!Ask(asked)
  BY <1>1 DEF Feed!Ask, Late, Standing
<1> QED BY <1>2 DEF FeedStep, Feed!FeedNext

(* A tick that comes is suppressed, or published newer than all before. *)
LEMMA TickForMaps ==
  ASSUME DataInv, NEW s \in todo, NEW n \in 0..2, TickFor(s, n), PollUnchanged
  PROVE  FeedStep
<1>1. s \in Symbols /\ quote' = quote /\ Standing' = Standing
  BY DEF DataInv, TaskInv, PollUnchanged, brokerVars, Standing
<1>2. CASE seen' = seen
  <2>1. todo' \subseteq todo
    BY DEF TickFor, NextSymbol, Await
  <2> QED BY <1>1, <1>2, <2>1, SettleMaps
<1>3. CASE seen' # seen
  <2>1. /\ lastTick[s] # quote[s]
        /\ seen' = [seen EXCEPT ![s] = Append(@, quote[s])]
        /\ todo' = todo \ {s}
    BY <1>3 DEF TickFor, Publish, NextSymbol
  <2>2. \A i \in DOMAIN seen[s] : seen[s][i] < quote[s]
    <3>1. quote[s] \in Nat /\ lastTick[s] \in Nat /\ lastTick[s] < quote[s]
      BY <1>1, <2>1, DataAssumption DEF DataInv, TickInv, TickType, InOrder
    <3>2. /\ seen[s] \in Seq(1..MaxTick)
          /\ \A i \in DOMAIN seen[s] : seen[s][i] <= lastTick[s]
      BY <1>1 DEF DataInv, TickInv, TickType, InOrder
    <3>3. \A i \in DOMAIN seen[s] : seen[s][i] \in 1..MaxTick
      BY <3>2, ElementsOf
    <3> QED BY <3>1, <3>2, <3>3, DataAssumption
  <2>3. s \in Standing \cup Late /\ Late' = Late \ {s}
    BY <1>1, <2>1 DEF Late
  <2>4. Feed!Publish(s)
    BY <1>1, <2>1, <2>2, <2>3 DEF Feed!Publish, Late, Standing
  <2> QED BY <1>1, <2>4 DEF FeedStep, Feed!FeedNext
<1> QED BY <1>2, <1>3

LEMMA PollMaps ==
  ASSUME DataInv, PollStep
  PROVE  FeedStep
<1>1. CASE BeginPoll
  <2>1. UNCHANGED <<quote, seen, subscribed, waiting>>
    BY <1>1 DEF BeginPoll, PollUnchanged, brokerVars
  <2>2. todo = {} /\ todo' = subscribed
    BY <1>1 DEF BeginPoll, DataInv, TaskInv
  <2>3. Late' = Late
    BY <2>1, <2>2 DEF Late, Standing
  <2> QED BY <2>1, <2>3 DEF FeedStep, Feed!feedVars, Late, Standing
<1>2. CASE PollRaises
  <2>1. UNCHANGED <<quote, seen, subscribed, waiting>> /\ todo' = {}
    BY <1>2 DEF PollRaises, StopTask, brokerVars, clientVars
  <2> QED BY <2>1, SettleMaps DEF Standing
<1>3. ASSUME NEW s \in Symbols, PollSymbol(s)
      PROVE  FeedStep
  <2>1. s \in todo /\ PollUnchanged
    BY <1>3 DEF PollSymbol
  <2>2. CASE Answers
    BY <1>3, <2>1, <2>2, TickForMaps DEF PollSymbol
  <2>3. CASE ~Answers
    BY <1>3, <2>1, <2>3, SettleMaps
    DEF PollSymbol, Await, PollUnchanged, brokerVars, Standing
  <2> QED BY <2>2, <2>3
<1>4. CASE Reselect
  <2>1. current \in todo /\ PollUnchanged
    BY <1>4 DEF Reselect, DataInv, TaskInv, Placed
  <2>2. CASE Answers
    BY <1>4, <2>1, <2>2, TickForMaps DEF Reselect
  <2>3. CASE ~Answers
    BY <1>4, <2>1, <2>3, SettleMaps
    DEF Reselect, NextSymbol, PollUnchanged, brokerVars, Standing
  <2> QED BY <2>2, <2>3
<1>5. CASE Retry
  <2>1. current \in todo /\ PollUnchanged
    BY <1>5 DEF Retry, DataInv, TaskInv, Placed
  <2>2. CASE RetriesLeft
    <3>1. empties \in 0..2
      BY <2>2 DEF RetriesLeft, DataInv, TaskInv
    <3> QED BY <1>5, <2>1, <2>2, <3>1, TickForMaps DEF Retry
  <2>3. CASE ~RetriesLeft
    BY <1>5, <2>1, <2>3, SettleMaps
    DEF Retry, NextSymbol, PollUnchanged, brokerVars, Standing
  <2> QED BY <2>2, <2>3
<1> QED BY <1>1, <1>2, <1>3, <1>4, <1>5 DEF PollStep

(* A request polls the symbol or notes it. *)
LEMMA RequestMaps ==
  ASSUME NEW s \in Symbols, Request(s), UNCHANGED <<quote, seen, todo>>
  PROVE  FeedStep
<1>1. Standing' = Standing \cup {s}
  BY DEF Request, Standing
<1> QED BY <1>1, AskMaps

LEMMA OneReleaseMaps ==
  ASSUME DataInv, NEW s \in Symbols, Release(s), UNCHANGED <<quote, todo>>
  PROVE  FeedStep
<1>1. Standing' = Standing \ {s}
  BY DEF Release, Standing
<1>2. seen' = [u \in Symbols |-> IF u \in {s} THEN <<>> ELSE seen[u]]
  BY DEF Release, DataInv, TickInv, TickType
<1> QED BY <1>1, <1>2, ReleaseMaps

LEMMA EngineMaps ==
  ASSUME DataInv, EngineStep
  PROVE  FeedStep
<1>1. CASE Connect
  <2>1. UNCHANGED <<quote, seen, todo, waiting>>
    BY <1>1 DEF Connect, brokerVars, pollVars
  <2>2. PICK loaded \in SUBSET Symbols : subscribed' = subscribed \cup loaded
    BY <1>1, DataAssumption DEF Connect, Loads
  <2>3. Standing' = Standing \cup loaded
    BY <2>1, <2>2 DEF Standing
  <2> QED BY <2>1, <2>3, AskMaps
<1>2. CASE FinishConnect
  <2>1. UNCHANGED <<quote, seen>> /\ Standing' = Standing /\ todo' = {}
    BY <1>2 DEF FinishConnect, StartTask, brokerVars, Standing
  <2> QED BY <2>1, SettleMaps
<1>3. CASE Disconnect
  <2>1. CASE Live
    BY <1>3, <2>1, SettleMaps DEF Disconnect, StopTask, brokerVars, Standing
  <2>2. CASE ~Live
    <3>1. /\ UNCHANGED <<quote, todo>> /\ subscribed' = {} /\ waiting' = {}
          /\ seen' = [s \in Symbols |-> <<>>]
      BY <1>3, <2>2 DEF Disconnect, brokerVars, pollVars
    <3>2. Standing' = Standing \ Symbols
      BY <3>1 DEF Standing, DataInv, TaskInv
    <3>3. seen' = [s \in Symbols |-> IF s \in Symbols THEN <<>> ELSE seen[s]]
      BY <3>1
    <3> QED BY <3>1, <3>2, <3>3, ReleaseMaps
  <2> QED BY <2>1, <2>2
<1>4. ASSUME NEW s \in Symbols, SubscribeQuoteTicks(s)
      PROVE  FeedStep
  BY <1>4, RequestMaps DEF SubscribeQuoteTicks, brokerVars, pollVars
<1>5. ASSUME NEW s \in Symbols, UnsubscribeQuoteTicks(s)
      PROVE  FeedStep
  BY <1>5, OneReleaseMaps DEF UnsubscribeQuoteTicks, brokerVars, pollVars
<1>6. ASSUME NEW s \in Symbols, RequestInstrument(s)
      PROVE  FeedStep
  BY <1>6, SettleMaps DEF RequestInstrument, brokerVars, pollVars, Standing
<1>7. ASSUME NEW b \in BarType, SubscribeBars(b)
      PROVE  FeedStep
  <2>1. b[1] \in Symbols
    BY DataAssumption
  <2> QED BY <1>7, <2>1, RequestMaps DEF SubscribeBars, brokerVars, pollVars
<1>8. ASSUME NEW b \in BarType, UnsubscribeBars(b)
      PROVE  FeedStep
  <2>1. b[1] \in Symbols /\ UNCHANGED <<quote, todo>>
    BY <1>8, DataAssumption DEF UnsubscribeBars, brokerVars, pollVars
  <2>2. CASE StillNeeded(b[1], barTypes')
    BY <1>8, <2>1, <2>2, SettleMaps DEF UnsubscribeBars, Standing
  <2>3. CASE ~StillNeeded(b[1], barTypes')
    BY <1>8, <2>1, <2>3, OneReleaseMaps DEF UnsubscribeBars
  <2> QED BY <2>2, <2>3
<1> QED BY <1>1, <1>2, <1>3, <1>4, <1>5, <1>6, <1>7, <1>8 DEF EngineStep

LEMMA BrokerMaps ==
  ASSUME (\E s \in Symbols : NewTick(s)) \/ MT5Fails \/ MT5Recovers
  PROVE  FeedStep
<1>1. ASSUME NEW s \in Symbols, NewTick(s)
      PROVE  FeedStep
  <2>1. Feed!Tick(s)
    BY <1>1 DEF NewTick, Feed!Tick, clientVars, pollVars
  <2> QED BY <2>1 DEF FeedStep, Feed!FeedNext
<1>2. CASE MT5Fails \/ MT5Recovers
  BY <1>2, SettleMaps DEF MT5Fails, MT5Recovers, clientVars, pollVars, Standing
<1> QED BY <1>1, <1>2

(* For any symbols and any number of ticks and outages, what the engine     *)
(* hears is what QuoteFeed allows: each publication newer than every other *)
(* since the release, and at most one more after it.                       *)
THEOREM ClientImplementsFeed == DataSpec => ImplementsFeed
<1>1. DataInit => Feed!FeedInit
  BY DEF DataInit, Feed!FeedInit
<1>2. DataInv /\ [DataNext]_dataVars => [Feed!FeedNext]_(Feed!feedVars)
  <2> SUFFICES ASSUME DataInv, [DataNext]_dataVars
               PROVE  FeedStep
    BY DEF FeedStep
  <2>1. CASE DataNext
    BY <2>1, PollMaps, EngineMaps, BrokerMaps DEF DataNext
  <2>2. CASE UNCHANGED dataVars
    BY <2>2, SettleMaps DEF dataVars, brokerVars, clientVars, pollVars, Standing
  <2> QED BY <2>1, <2>2
<1> QED BY <1>1, <1>2, DataInvariant, PTL DEF DataSpec, ImplementsFeed, Feed!FeedSpec


-----------------------------------------------------------------------------
(* The safety core of TicksTakenUp: a poll under way cannot be held up.    *)

(* The waits the poll has made for the symbol it is at. *)
Waited ==
  CASE place = "reselect" -> 1
    [] place = "retry" -> 1 + empties
    [] place \in {"between", "next"} -> 0

(* No poll makes more steps than this: five for each symbol left. *)
PollLeft == 5 * Cardinality(todo) - Waited

(* Every step of the poll task brings the poll under way nearer to its end, *)
(* and nothing but a new poll puts the end off; and what the poll leaves is *)
(* up to date, unless its selection failed twice or its tick was empty      *)
(* three times.                                                             *)
PollsMoveOn ==
  [][/\ todo # {} /\ PollStep => PollLeft' < PollLeft
     /\ PollLeft' > PollLeft => BeginPoll
     /\ PollStep => \A s \in todo \ todo' :
                      \/ lastTick'[s] = quote'[s]
                      \/ s = current /\ (IF place = "reselect" THEN ~Answers ELSE ~RetriesLeft)
    ]_dataVars


(* The steps of a poll, by what they do to its place. *)
PollMoves(s) ==
  \/ NextSymbol(s)
  \/ \E n \in 0..2 : Await("retry", s, n + 1) /\ (place = "retry" => n = empties)
  \/ place = "next" /\ Await("reselect", s, 0)

LEMMA LeftIsCounted ==
  ASSUME IsFiniteSet(Symbols), DataInv
  PROVE  /\ Cardinality(todo) \in Nat
         /\ Waited \in 0..4
         /\ todo = {} => PollLeft = 0
         /\ todo # {} => PollLeft > 0
         /\ \A s \in todo : Cardinality(todo \ {s}) = Cardinality(todo) - 1
<1>1. IsFiniteSet(todo)
  BY FS_Subset DEF DataInv, TaskInv
<1>2. Cardinality(todo) \in Nat /\ (Cardinality(todo) = 0 <=> todo = {})
  BY <1>1, FS_CardinalityType, FS_EmptySet
<1>3. Waited \in 0..4 /\ (todo = {} => Waited = 0)
  BY DEF Waited, DataInv, TaskInv, Places
<1>4. \A s \in todo : Cardinality(todo \ {s}) = Cardinality(todo) - 1
  BY <1>1, FS_RemoveElement
<1> QED BY <1>2, <1>3, <1>4 DEF PollLeft

(* Each of them lowers what is left of the poll. *)
LEMMA MovesSpend ==
  ASSUME IsFiniteSet(Symbols), DataInv, NEW s \in todo, PollMoves(s)
  PROVE  PollLeft' < PollLeft
<1>1. /\ Cardinality(todo) \in Nat /\ Cardinality(todo) >= 1
      /\ Waited \in 0..4 /\ PollLeft > 0
      /\ Cardinality(todo \ {s}) = Cardinality(todo) - 1
      /\ todo = {s} => Cardinality(todo) = 1
  <2>1. todo = {s} => Cardinality(todo \ {s}) = 0
    BY FS_EmptySet
  <2>2. /\ Cardinality(todo) \in Nat /\ Waited \in 0..4 /\ PollLeft > 0
        /\ Cardinality(todo \ {s}) = Cardinality(todo) - 1
    BY LeftIsCounted
  <2>3. Cardinality(todo) >= 1
    BY <2>2 DEF PollLeft
  <2> QED BY <2>1, <2>2, <2>3
<1>2. CASE NextSymbol(s)
  <2>1. todo' = todo \ {s} /\ place' \in {"between", "next"}
    BY <1>2 DEF NextSymbol
  <2>2. Waited' = 0
    BY <2>1 DEF Waited
  <2>3. PollLeft' = 5 * (Cardinality(todo) - 1)
    BY <1>1, <2>1, <2>2 DEF PollLeft
  <2> QED BY <1>1, <2>3 DEF PollLeft
<1>3. ASSUME NEW n \in 0..2, Await("retry", s, n + 1), place = "retry" => n = empties
      PROVE  PollLeft' < PollLeft
  <2>1. todo' = todo /\ place' = "retry" /\ empties' = n + 1
    BY <1>3 DEF Await
  <2>2. Waited' = n + 2
    BY <2>1 DEF Waited
  <2>3. Waited < n + 2
    BY <1>3 DEF Waited, DataInv, TaskInv, Places
  <2> QED BY <1>1, <2>1, <2>2, <2>3 DEF PollLeft
<1>4. CASE place = "next" /\ Await("reselect", s, 0)
  <2>1. todo' = todo /\ Waited = 0 /\ Waited' = 1
    BY <1>4 DEF Await, Waited
  <2> QED BY <1>1, <2>1 DEF PollLeft
<1> QED BY <1>2, <1>3, <1>4 DEF PollMoves

(* What the poll does once a symbol is selected. *)
LEMMA TickForMoves ==
  ASSUME DataInv, NEW s \in todo, NEW n \in 0..2, TickFor(s, n), PollUnchanged,
         place = "retry" => n = empties
  PROVE  /\ PollMoves(s)
         /\ \A u \in todo \ todo' : lastTick'[u] = quote'[u]
<1>1. s \in Symbols /\ lastTick \in [Symbols -> 0..MaxTick] /\ quote' = quote
  BY DEF DataInv, TaskInv, TickInv, TickType, PollUnchanged, brokerVars
<1>2. CASE Answers /\ quote[s] # 0
  <2>1. Publish(s) /\ NextSymbol(s)
    BY <1>2 DEF TickFor
  <2>2. todo \ todo' = {s}
    BY <2>1 DEF NextSymbol
  <2>3. lastTick'[s] = quote[s]
    BY <1>1, <2>1 DEF Publish
  <2> QED BY <1>1, <2>1, <2>2, <2>3 DEF PollMoves
<1>3. CASE ~(Answers /\ quote[s] # 0)
  <2>1. Await("retry", s, n + 1)
    BY <1>3 DEF TickFor
  <2> QED BY <2>1 DEF PollMoves, Await
<1> QED BY <1>2, <1>3

LEMMA PollStepMoves ==
  ASSUME DataInv, PollStep
  PROVE  /\ todo # {} => \E s \in todo : PollMoves(s)
         /\ todo = {} => BeginPoll \/ todo' = {}
         /\ \A s \in todo \ todo' :
              \/ lastTick'[s] = quote'[s]
              \/ s = current /\ (IF place = "reselect" THEN ~Answers ELSE ~RetriesLeft)
<1> USE DEF DataInv, TaskInv, Placed
<1>1. CASE BeginPoll
  BY <1>1 DEF BeginPoll
<1>2. CASE PollRaises
  BY <1>2 DEF PollRaises, StopTask
<1>3. ASSUME NEW s \in Symbols, PollSymbol(s)
      PROVE  /\ \E u \in todo : PollMoves(u)
             /\ \A u \in todo \ todo' : lastTick'[u] = quote'[u]
  <2>1. s \in todo /\ place = "next" /\ PollUnchanged
    BY <1>3 DEF PollSymbol
  <2>2. CASE Answers
    BY <1>3, <2>1, <2>2, TickForMoves DEF PollSymbol
  <2>3. CASE ~Answers
    <3>1. Await("reselect", s, 0)
      BY <1>3, <2>3 DEF PollSymbol
    <3> QED BY <2>1, <3>1 DEF PollMoves, Await
  <2> QED BY <2>2, <2>3
<1>4. CASE Reselect
  <2>1. current \in todo /\ place = "reselect" /\ PollUnchanged
    BY <1>4 DEF Reselect
  <2>2. CASE Answers
    BY <1>4, <2>1, <2>2, TickForMoves DEF Reselect
  <2>3. CASE ~Answers
    <3>1. NextSymbol(current)
      BY <1>4, <2>3 DEF Reselect
    <3> QED BY <2>1, <2>3, <3>1 DEF PollMoves, NextSymbol
  <2> QED BY <2>1, <2>2, <2>3
<1>5. CASE Retry
  <2>1. current \in todo /\ place = "retry" /\ PollUnchanged
    BY <1>5 DEF Retry
  <2>2. CASE RetriesLeft
    <3>1. empties \in 0..2
      BY <2>2 DEF RetriesLeft
    <3> QED BY <1>5, <2>1, <2>2, <3>1, TickForMoves DEF Retry
  <2>3. CASE ~RetriesLeft
    <3>1. NextSymbol(current)
      BY <1>5, <2>3 DEF Retry
    <3> QED BY <2>1, <2>3, <3>1 DEF PollMoves, NextSymbol
  <2> QED BY <2>1, <2>2, <2>3
<1> QED BY <1>1, <1>2, <1>3, <1>4, <1>5 DEF PollStep

(* What is not a step of the poll task leaves its place, or ends the poll. *)
LEMMA OthersLeavePoll ==
  ASSUME DataInv, [DataNext]_dataVars, ~PollStep
  PROVE  \/ UNCHANGED <<todo, place, empties>>
         \/ todo' = {}
<1> USE DEF pollVars
<1>1. CASE EngineStep
  <2>1. CASE Connect \/ FinishConnect
    BY <2>1 DEF Connect, FinishConnect, StartTask
  <2>2. CASE Disconnect
    BY <2>2 DEF Disconnect, StopTask
  <2>3. CASE \E s \in Symbols : \/ SubscribeQuoteTicks(s) \/ UnsubscribeQuoteTicks(s)
                               \/ RequestInstrument(s)
    BY <2>3 DEF SubscribeQuoteTicks, UnsubscribeQuoteTicks, RequestInstrument
  <2>4. CASE \E b \in BarType : SubscribeBars(b) \/ UnsubscribeBars(b)
    BY <2>4 DEF SubscribeBars, UnsubscribeBars
  <2> QED BY <1>1, <2>1, <2>2, <2>3, <2>4 DEF EngineStep
<1>2. CASE (\E s \in Symbols : NewTick(s)) \/ MT5Fails \/ MT5Recovers
  BY <1>2 DEF NewTick, MT5Fails, MT5Recovers
<1>3. CASE UNCHANGED dataVars
  BY <1>3 DEF dataVars
<1> QED BY <1>1, <1>2, <1>3 DEF DataNext

(* For any finite set of symbols and any number of outages: a symbol that  *)
(* answers nothing holds the others up for four waits at most, whatever    *)
(* the engine asks for meanwhile, and the poll skips a symbol that has a   *)
(* new tick only when the library did not give it.                         *)
THEOREM PollsAdvance ==
  ASSUME IsFiniteSet(Symbols)
  PROVE  DataSpec => PollsMoveOn
<1> DEFINE Moves ==
      /\ todo # {} /\ PollStep => PollLeft' < PollLeft
      /\ PollLeft' > PollLeft => BeginPoll
      /\ PollStep => \A s \in todo \ todo' :
                       \/ lastTick'[s] = quote'[s]
                       \/ s = current /\ (IF place = "reselect" THEN ~Answers ELSE ~RetriesLeft)
<1>1. ASSUME DataInv, DataInv', [DataNext]_dataVars
      PROVE  Moves
  <2>1. /\ Cardinality(todo) \in Nat /\ Waited \in 0..4
        /\ (todo = {} => PollLeft = 0) /\ (todo # {} => PollLeft > 0)
    BY <1>1, LeftIsCounted
  <2>2. todo' = {} => PollLeft' = 0
    <3> SUFFICES ASSUME todo' = {}
                 PROVE  PollLeft' = 0
      OBVIOUS
    <3>1. place' = "between"
      BY <1>1 DEF DataInv, TaskInv
    <3>2. Waited' = 0
      BY <3>1 DEF Waited
    <3>3. Cardinality(todo') = 0
      BY FS_EmptySet
    <3> QED BY <3>2, <3>3 DEF PollLeft
  <2>3. PollLeft \in Int
    BY <2>1 DEF PollLeft
  <2>4. CASE PollStep
    <3>1. CASE todo # {}
      <4>1. PollLeft' < PollLeft
        BY <1>1, <2>4, <3>1, PollStepMoves, MovesSpend
      <4>2. ~(PollLeft' > PollLeft)
        <5>1. PollLeft' \in Int
          <6>1. Cardinality(todo') \in Nat /\ Waited' \in 0..4
            <7>1. IsFiniteSet(todo')
              BY <1>1, FS_Subset DEF DataInv, TaskInv
            <7>2. Waited' \in 0..4
              BY <1>1 DEF Waited, DataInv, TaskInv, Places
            <7> QED BY <7>1, <7>2, FS_CardinalityType
          <6> QED BY <6>1 DEF PollLeft
        <5> QED BY <2>3, <4>1, <5>1
      <4> QED BY <1>1, <2>4, <4>1, <4>2, PollStepMoves
    <3>2. CASE todo = {}
      <4>1. BeginPoll \/ PollLeft' = 0
        BY <1>1, <2>2, <2>4, <3>2, PollStepMoves
      <4> QED BY <2>1, <3>2, <4>1
    <3> QED BY <3>1, <3>2
  <2>5. CASE ~PollStep
    <3>1. PollLeft' = PollLeft \/ PollLeft' = 0
      <4>1. CASE UNCHANGED <<todo, place, empties>>
        BY <4>1 DEF PollLeft, Waited
      <4>2. CASE todo' = {}
        BY <2>2, <4>2
      <4> QED BY <1>1, <2>5, <4>1, <4>2, OthersLeavePoll
    <3>2. ~(PollLeft' > PollLeft)
      BY <2>1, <2>3, <3>1
    <3> QED BY <2>5, <3>2
  <2> QED BY <2>4, <2>5
<1>2. DataInv /\ DataInv' /\ [DataNext]_dataVars => [Moves]_dataVars
  BY <1>1
<1> QED BY <1>2, DataInvariant, PTL DEF DataSpec, PollsMoveOn

=============================================================================
