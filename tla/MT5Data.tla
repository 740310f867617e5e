------------------------------- MODULE MT5Data -------------------------------
(***************************************************************************)
(* MT5DataClient (mt5connect/data.py): subscriptions of the trading engine *)
(* on one side, a task that polls one tick per subscribed symbol on the    *)
(* other.                                                                  *)
(*                                                                         *)
(* All of it runs in one asyncio thread.  The poll task gives up control   *)
(* only between two polls, after a failed symbol_select() and after an     *)
(* empty symbol_info_tick(); _connect() gives it up once, in a sleep of    *)
(* half a second.  Handlers of subscriptions never do.  So the handlers    *)
(* run only while the poll task is at one of those places (Yielded), and   *)
(* quotes change at any time.                                              *)
(*                                                                         *)
(* A definition whose comment starts with "Mutant" is a deliberately wrong *)
(* variant of the definition after it; no specification uses it.           *)
(***************************************************************************)
EXTENDS Integers, FiniteSets, Sequences

CONSTANTS
  Symbols,        \* broker symbols
  ConfigSymbols,  \* config.symbols
  BarType,        \* bar types that may be asked for: <<symbol, step>>
  Upper,          \* per symbol: its name in upper case
  NoSymbol,       \* no symbol is being polled
  MaxTick,        \* bound: tick times 1..MaxTick; 0 is no tick yet
  MaxFlaps        \* bound: times the library stops answering

ASSUME DataAssumption ==
  /\ ConfigSymbols \subseteq Symbols
  /\ BarType \subseteq Symbols \X Nat
  /\ \A s \in Symbols : Upper[s] \in Symbols => Upper[s] = s  \* no two equal by case
  /\ NoSymbol \notin Symbols
  /\ MaxTick \in Nat
  /\ MaxFlaps \in Nat

VARIABLES
  \* broker
  quote,        \* per symbol: time of its newest tick
  mt5,          \* up, mute (calls answer nothing) or refused (not CONNECTED)
  flaps,
  \* client
  isConnected,  \* self._is_connected
  connecting,   \* _connect() is in its half second of sleep
  subscribed,   \* self._subscribed_symbols
  barTypes,     \* self._subscribed_bar_types
  waiting,      \* self._pending_subscriptions
  lastTick,     \* self._last_tick_time, 0 when absent
  known,        \* symbols whose instrument the provider has loaded
  task,         \* poll task: none, live, or done (cancelled or raised)
  place,        \* where the live poll task is
  todo,         \* symbols left in the poll's snapshot
  current,      \* symbol being polled
  empties,      \* empty ticks of that symbol in this poll
  \* engine
  seen          \* history: per symbol, the times published since its release

clientVars == <<isConnected, subscribed, barTypes, waiting, lastTick, known>>
pollVars == <<task, place, todo, current, empties>>
brokerVars == <<quote, mt5, flaps>>
dataVars ==
  <<brokerVars, clientVars, connecting, pollVars, seen>>

Places == {"between", "next", "reselect", "retry"}

DataInit ==
  /\ quote = [s \in Symbols |-> 0]
  /\ mt5 = "up"
  /\ flaps = 0
  /\ isConnected = FALSE
  /\ connecting = FALSE
  /\ subscribed = {}
  /\ barTypes = {}
  /\ waiting = {}
  /\ lastTick = [s \in Symbols |-> 0]
  /\ known = {}
  /\ task = "none"
  /\ place = "between"
  /\ todo = {}
  /\ current = NoSymbol
  /\ empties = 0
  /\ seen = [s \in Symbols |-> <<>>]

Live == task = "live"
Yielded == place # "next"
Answers == mt5 = "up"

-----------------------------------------------------------------------------
(* The broker and the library. *)

NewTick(s) ==
  /\ quote[s] < MaxTick
  /\ quote' = [quote EXCEPT ![s] = @ + 1]
  /\ UNCHANGED <<mt5, flaps, clientVars, connecting, pollVars, seen>>

(* The connection leaves CONNECTED only in another task, so only while this *)
(* one waits.                                                              *)
MT5Fails ==
  /\ mt5 = "up"
  /\ flaps < MaxFlaps
  /\ flaps' = flaps + 1
  /\ \/ mt5' = "mute"
     \/ mt5' = "refused" /\ Yielded
  /\ UNCHANGED <<quote, clientVars, connecting, pollVars, seen>>

MT5Recovers ==
  /\ mt5 # "up"
  /\ mt5' = "up"
  /\ UNCHANGED <<quote, flaps, clientVars, connecting, pollVars, seen>>

-----------------------------------------------------------------------------
(* Connect and disconnect. *)

(* The poll loop's task as create_task() makes it. *)
StartTask ==
  /\ task' = "live"
  /\ place' = "between"
  /\ todo' = {}
  /\ current' = NoSymbol
  /\ empties' = 0

StopTask ==
  /\ task' = "done"
  /\ place' = "between"
  /\ todo' = {}
  /\ current' = NoSymbol
  /\ empties' = 0

(* Mutant: _connect() does not load the instruments it subscribes. *)
LoadsNothing(loaded) ==
  /\ subscribed' = subscribed \cup loaded
  /\ UNCHANGED known

(* get_instrument() looks for the name in upper case, while load_symbol()  *)
(* registers an instrument under the broker's casing.                      *)
GetInstrument(s) == Upper[s] \in known

(* The instruments of these symbols are loaded and their symbols subscribed. *)
Loads(loaded) ==
  /\ subscribed' = subscribed \cup loaded
  /\ known' = known \cup {s \in loaded : ~GetInstrument(s)}

(* The broker can give these symbols, or their instruments are found. *)
CanLoad(loaded) == Answers \/ \A s \in loaded : GetInstrument(s)

(* _connect() up to its sleep: load and subscribe every configured symbol. *)
(* One that cannot be loaded raises, after those before it.  The engine    *)
(* does not connect a client that polls.                                   *)
Connect ==
  /\ Yielded
  /\ ~connecting /\ ~Live
  /\ mt5 # "refused"
  /\ isConnected' = TRUE
  /\ \/ /\ CanLoad(ConfigSymbols)
        /\ Loads(ConfigSymbols)
        /\ connecting' = TRUE
     \/ /\ \E loaded \in SUBSET ConfigSymbols :
             /\ \E s \in ConfigSymbols \ loaded : ~GetInstrument(s)
             /\ CanLoad(loaded)
             /\ Loads(loaded)
        /\ UNCHANGED connecting
  /\ UNCHANGED <<brokerVars, barTypes, waiting, lastTick, pollVars, seen>>

(* _request_instrument(): load one symbol, or raise and change nothing. *)
RequestInstrument(s) ==
  /\ Yielded
  /\ Answers
  /\ known' = known \cup {s}
  /\ UNCHANGED <<brokerVars, isConnected, subscribed, barTypes, waiting, lastTick,
                 connecting, pollVars, seen>>

(* Mutant: the subscriptions that came too early are not picked up. *)
FinishConnectNoDrain ==
  /\ connecting
  /\ connecting' = FALSE
  /\ StartTask
  /\ UNCHANGED <<brokerVars, clientVars, seen>>

(* _connect() after its sleep: subscribe what was asked for too early, and *)
(* start the poll task.                                                    *)
FinishConnect ==
  /\ Yielded
  /\ connecting
  /\ connecting' = FALSE
  /\ subscribed' = subscribed \cup waiting
  /\ waiting' = {}
  /\ StartTask
  /\ UNCHANGED <<brokerVars, isConnected, barTypes, lastTick, known, seen>>

(* _disconnect(): awaiting the task it has cancelled raises CancelledError *)
(* out of the method, so the sets are cleared only when no task is live.   *)
Disconnect ==
  /\ Yielded
  /\ isConnected' = FALSE
  /\ IF Live
       THEN /\ StopTask
            /\ UNCHANGED <<subscribed, barTypes, waiting, lastTick, seen>>
       ELSE /\ subscribed' = {}
            /\ barTypes' = {}
            /\ waiting' = {}
            /\ lastTick' = [s \in Symbols |-> 0]
            /\ seen' = [s \in Symbols |-> <<>>]
            /\ UNCHANGED pollVars
  /\ UNCHANGED <<brokerVars, known, connecting>>

-----------------------------------------------------------------------------
(* Subscriptions. *)

(* The part both kinds share: poll the symbol, or later when connected. *)
Request(s) ==
  IF isConnected
    THEN subscribed' = subscribed \cup {s} /\ UNCHANGED waiting
    ELSE waiting' = waiting \cup {s} /\ UNCHANGED subscribed

(* The part both kinds share: stop polling the symbol and forget its tick. *)
Release(s) ==
  /\ subscribed' = subscribed \ {s}
  /\ waiting' = waiting \ {s}
  /\ lastTick' = [lastTick EXCEPT ![s] = 0]
  /\ seen' = [seen EXCEPT ![s] = <<>>]

SubscribeQuoteTicks(s) ==
  /\ Yielded
  /\ Request(s)
  /\ UNCHANGED <<brokerVars, isConnected, barTypes, lastTick, known, connecting,
                 pollVars, seen>>

UnsubscribeQuoteTicks(s) ==
  /\ Yielded
  /\ Release(s)
  /\ UNCHANGED <<brokerVars, isConnected, barTypes, known, connecting, pollVars>>

SubscribeBars(b) ==
  /\ Yielded
  /\ barTypes' = barTypes \cup {b}
  /\ Request(b[1])
  /\ UNCHANGED <<brokerVars, isConnected, lastTick, known, connecting, pollVars,
                 seen>>

(* Mutant: any bar unsubscription stops the symbol. *)
StillNeededNever(s, rest) == FALSE

(* Some other bar type of the symbol is still subscribed. *)
StillNeeded(s, rest) == \E b \in rest : b[1] = s

UnsubscribeBars(b) ==
  /\ Yielded
  /\ barTypes' = barTypes \ {b}
  /\ IF StillNeeded(b[1], barTypes')
       THEN UNCHANGED <<subscribed, waiting, lastTick, seen>>
       ELSE Release(b[1])
  /\ UNCHANGED <<brokerVars, isConnected, known, connecting, pollVars>>

-----------------------------------------------------------------------------
(* _poll_loop() and _poll_once() *)

(* Mutant: a symbol that answers nothing ends the poll of all the others. *)
NextSymbolStopsPolling(s) ==
  /\ todo' = IF empties > 0 THEN {} ELSE todo \ {s}
  /\ place' = IF todo' = {} THEN "between" ELSE "next"
  /\ current' = NoSymbol
  /\ empties' = 0

(* Leave the current symbol: the next of the snapshot, or the next poll. *)
NextSymbol(s) ==
  /\ todo' = todo \ {s}
  /\ place' = IF todo = {s} THEN "between" ELSE "next"
  /\ current' = NoSymbol
  /\ empties' = 0

(* Give up control inside the poll of symbol s. *)
Await(where, s, n) ==
  /\ place' = where
  /\ current' = s
  /\ empties' = n
  /\ UNCHANGED todo

(* Mutant: the time of the last tick is not remembered. *)
PublishForgetful(s) ==
  /\ seen' = [seen EXCEPT ![s] = Append(@, quote[s])]
  /\ UNCHANGED lastTick

(* A tick has come: drop it when its time is the last one's, record the    *)
(* time, and publish when an instrument is found.                          *)
Publish(s) ==
  IF lastTick[s] = quote[s]
    THEN UNCHANGED <<lastTick, seen>>
    ELSE /\ lastTick' = [lastTick EXCEPT ![s] = quote[s]]
         /\ IF GetInstrument(s)
              THEN seen' = [seen EXCEPT ![s] = Append(@, quote[s])]
              ELSE UNCHANGED seen

(* symbol_info_tick() for symbol s after n empty answers in this poll. *)
TickFor(s, n) ==
  IF Answers /\ quote[s] # 0
    THEN Publish(s) /\ NextSymbol(s)
    ELSE Await("retry", s, n + 1) /\ UNCHANGED <<lastTick, seen>>

PollUnchanged ==
  UNCHANGED <<brokerVars, isConnected, subscribed, barTypes, waiting, known,
              connecting, task>>

(* A poll begins: nothing to do, or a snapshot of the subscriptions. *)
BeginPoll ==
  /\ Live /\ place = "between"
  /\ mt5 # "refused"
  /\ subscribed # {}
  /\ todo' = subscribed
  /\ place' = "next"
  /\ UNCHANGED <<current, empties, lastTick, seen>>
  /\ PollUnchanged

(* ensure_connected() raises out of the loop and ends the task. *)
PollRaises ==
  /\ Live /\ place = "between"
  /\ mt5 = "refused"
  /\ subscribed # {}
  /\ StopTask
  /\ UNCHANGED <<brokerVars, clientVars, connecting, seen>>

(* symbol_select() for the next symbol of the snapshot. *)
PollSymbol(s) ==
  /\ Live /\ place = "next"
  /\ s \in todo
  /\ IF Answers
       THEN TickFor(s, 0)
       ELSE Await("reselect", s, 0) /\ UNCHANGED <<lastTick, seen>>
  /\ PollUnchanged

(* After 0.1 s: symbol_select() once more, else skip the symbol. *)
Reselect ==
  /\ Live /\ place = "reselect"
  /\ IF Answers
       THEN TickFor(current, 0)
       ELSE NextSymbol(current) /\ UNCHANGED <<lastTick, seen>>
  /\ PollUnchanged

(* Mutant: an empty tick is asked for again without end. *)
RetriesUnbounded == TRUE

(* The loop over range(3) has another round. *)
RetriesLeft == empties < 3

(* After 0.05 s: ask for the tick again, three times in all. *)
Retry ==
  /\ Live /\ place = "retry"
  /\ IF RetriesLeft
       THEN TickFor(current, empties)
       ELSE NextSymbol(current) /\ UNCHANGED <<lastTick, seen>>
  /\ PollUnchanged

-----------------------------------------------------------------------------
PollStep ==
  \/ BeginPoll \/ PollRaises \/ Reselect \/ Retry
  \/ \E s \in Symbols : PollSymbol(s)

EngineStep ==
  \/ Connect \/ FinishConnect \/ Disconnect
  \/ \E s \in Symbols : \/ SubscribeQuoteTicks(s) \/ UnsubscribeQuoteTicks(s)
                       \/ RequestInstrument(s)
  \/ \E b \in BarType : SubscribeBars(b) \/ UnsubscribeBars(b)

DataNext ==
  \/ PollStep
  \/ EngineStep
  \/ \E s \in Symbols : NewTick(s)
  \/ MT5Fails \/ MT5Recovers

DataSpec == DataInit /\ [][DataNext]_dataVars

(* Timers of the poll task are served in order and cannot be overtaken for *)
(* ever by requests of the engine; an outage ends.                         *)
DataFairSpec ==
  /\ DataSpec
  /\ WF_dataVars(PollStep)
  /\ WF_dataVars(MT5Recovers)

-----------------------------------------------------------------------------
(* Correctness. *)

(* Types; and where the poll task is agrees with what it still has to do. *)
DataTypeOK ==
  /\ quote \in [Symbols -> 0..MaxTick]
  /\ mt5 \in {"up", "mute", "refused"}
  /\ flaps \in 0..MaxFlaps
  /\ isConnected \in BOOLEAN
  /\ connecting \in BOOLEAN
  /\ subscribed \subseteq Symbols
  /\ barTypes \subseteq BarType
  /\ waiting \subseteq Symbols
  /\ lastTick \in [Symbols -> 0..MaxTick]
  /\ known \subseteq Symbols
  /\ task \in {"none", "live", "done"}
  /\ place \in Places
  /\ todo \subseteq Symbols
  /\ place = "between" <=> todo = {}
  /\ current \in todo \cup {NoSymbol}
  /\ empties \in 0..3
  /\ seen \in [Symbols -> Seq(1..MaxTick)]

(* No subscription is left among the early ones once the client polls,     *)
(* whether it came before _connect(), in its sleep or between two sessions.*)
EarlySubscriptionsServed == isConnected /\ Live => waiting = {}

(* The client is such a feed: what stands is what it polls or has noted    *)
(* for later, and only a symbol released from a poll under way may still   *)
(* bring a tick.  No tick is published twice, also when the symbol is      *)
(* released and asked for again in mid-poll.                               *)
Feed == INSTANCE QuoteFeed WITH
  market <- quote,
  standing <- subscribed \cup waiting,
  late <- todo \ (subscribed \cup waiting),
  heard <- seen

ImplementsFeed == Feed!FeedSpec

(* Whatever the duplicate filter suppresses, its subscriber has had: the   *)
(* remembered time of a configured symbol is the last one published since  *)
(* the symbol was released.  The filter remembers a time before it looks   *)
(* for the instrument, so this rests on _connect() loading what it         *)
(* subscribes before it polls.  There is no such promise for a symbol that *)
(* is not configured, nor for one whose name is not in upper case, which   *)
(* the look-up never finds (ConfiguredSymbolsHeard).                       *)
LastSeenIs(s) == seen[s] # <<>> /\ lastTick[s] = seen[s][Len(seen[s])]

SuppressedWasPublished ==
  \A s \in ConfigSymbols : Upper[s] = s /\ lastTick[s] # 0 => LastSeenIs(s)

(* A new tick of a symbol that stays subscribed is taken up by the poll    *)
(* task, however many other symbols answer nothing, unless the task ends.  *)
Stale(s) == Live /\ s \in subscribed /\ quote[s] # lastTick[s]
TicksTakenUp == \A s \in Symbols : Stale(s) ~> ~Stale(s)

-----------------------------------------------------------------------------
(* What the source says of itself and the code does not do. *)

(* config.py:44-50 names EURUSDm among the symbols to configure: "you just *)
(* provide the exact broker symbol name and it works".  The tick that the  *)
(* filter remembers of a configured symbol, in whatever case, was          *)
(* published.                                                              *)
ConfiguredSymbolsHeard == \A s \in ConfigSymbols : lastTick[s] # 0 => LastSeenIs(s)

=============================================================================
