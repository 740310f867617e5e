# nautilus-mt5-connector: verification project

`mt5connect` is an adapter that lets the NautilusTrader engine trade through a
MetaTrader 5 terminal. The MetaTrader5 Python library is synchronous, has one
global session per process and pushes nothing, so the adapter *polls*: one
asyncio task reads quotes, another reads the deal history. This directory holds
TLA+ modules translated from its source, the TLC runs that check them and proofs
that TLAPS checks.

    tlasany M.tla                              parse
    tlc -workers 2 -config X.cfg M             run a check
    tlapm MT5ConnectionProofs.tla              check the proofs of a module

`PROJECT.json` lists the runs, the source lines each definition stands for, the
hazards, and for every property a *mutant*: a plausible bug that makes TLC find
the property violated. Mutants are the definitions whose comment starts with
"Mutant"; no specification uses them.

## 1. Inventory

| component | state | operations | hard because |
|---|---|---|---|
| connection (`connection.py`) | `_state`, `_attempt`, `_connected_at`; the library's link | connect, disconnect, ensure_connected, reconnect, reconnect_async, get_account_info | one counter shared by all reconnecting tasks, sleeps in between, half-done handshakes, a state nobody updates when the terminal dies |
| factories (`factories.py`) | registry of connections, registry of configurations | get or create, clear, build config | one library session behind several connection objects |
| execution client (`execution.py`) | poll task, processed deal keys, client order id ↔ ticket maps, known tickets | connect, disconnect, submit, cancel, cancel-all, modify, poll, emit fill, three kinds of report | the broker acts between any two calls; replies are lost; each deal comes back in every poll; the day changes; a restart knows nothing and reads everything back |
| data client (`data.py`) | subscriptions, early subscriptions, last tick times, poll task | connect, disconnect, (un)subscribe quotes and bars, poll, historical requests | handlers run while the poll awaits; `_connect()` sleeps; `_disconnect()` can raise; two timeframe tables in two files |
| provider (`providers.py`) | loaded instruments, failed symbols | load all, load ids, load one, get | some symbols fail; names are registered in one case and looked up in another |
| downloader (`downloader.py`) | result counters | download ticks, bars, all; split into chunks | failed calls, conversions and writes; boundaries of chunks |
| parsing, constants | none | pure conversions and tables | suffixes, missing currencies, numeric edges |
| example strategies (`examples/`) | position flag, pending gap, window of bars, statistics | start, stop, bar, entry, exit, statistics | the flag is set at submission, the position exists later, elsewhere, or never |
| config, errors, scripts | none | settings, exception classes, input and output | |

Interaction: the factories give both clients the *same* `MT5Connection` and
provider. Both clients call `ensure_connected()` before they use the library and
get `MT5ConnectionError` when the state is not CONNECTED; only the execution
client's loop answers with `reconnect_async()`. The engine calls handlers of the
clients as coroutines on the loop that runs their poll tasks, and the clients
call back with `_handle_data()` and `generate_order_*()`. Everything in Python is
one thread. What is concurrent is (a) tasks at their awaits, and (b) the terminal
and broker, at any time.

What makes each component correct:

* connection: the state tells the truth about the link; a retry budget that is
  kept however many tasks share it; every reconnect returns;
* node: the execution loop recovers or stops for a reason, and no retry shuts down a
  session its own connection object has logged in;
* execution client: each deal of an order is reported exactly once, under the
  order that caused it; the engine's picture of an order agrees with the broker's;
  other programs' orders are left alone; what works at the broker is what the
  strategy asked for; a command changes the stop loss of a position only to the one it
  names, or over one set after it read; what a restart reads back is what the broker has;
* data client: subscriptions are served whenever they come; no tick twice, none ignored;
  of a configured symbol in upper case the filter suppresses none that was not published;
* provider and downloader: every name and every row asked for is accounted for, and
  nothing is filed under another instrument;
* strategies: what a strategy believes about its position is what the engine and the
  broker hold, once nothing is under way and nothing went wrong.

## 2. Modules

| module | models | lines of code |
|---|---|---|
| `MT5Connection` | `MT5Connection` and the terminal | `connection.py` 114-350 |
| `MT5ConnectionProofs` | its inductive invariant and theorems | |
| `MT5Node` | both poll loops and the factories on the shared connection; EXTENDS `MT5Connection` | `factories.py` 91-132, `execution.py` 276-320, 685-732, `data.py` 79-121, 341-354 |
| `Outage` | abstract: how a poll loop meets an outage, without the connection | `execution.py` 276-320, 716-724, `connection.py` 227-249 |
| `MT5NodeProofs` | the invariant of `MT5Node`, its theorems, and the refinement of `Outage` | |
| `MT5Execution`, `MCExecution` | orders, tickets, deals and fills against an autonomous broker | `execution.py` 252-564, 734-935, 1151-1173 |
| `FillLedger` | abstract: every deal reported at most once | |
| `MT5ExecutionProofs` | its inductive invariant, theorems, and the refinement of `FillLedger` | |
| `MT5Data`, `MCData` | subscriptions and the quote poll task | `data.py` 72-175, 246-249, 341-385 |
| `QuoteFeed` | abstract: a feed of quotes, without polls, filters and connections | `data.py` 123-138, 356-385 |
| `MT5DataProofs` | the invariant of `MT5Data`, its theorems, and the refinement of `QuoteFeed` | |
| `MT5Parsing` | names, classes, precision; timeframes and bar specifications | `parsing.py` 63-107, 195-406, 472-524, `constants.py` 71-205, `data.py` 401-426 |
| `MT5Provider` | the cache of instruments; EXTENDS `MT5Parsing` | `providers.py` 66-273 |
| `MT5Downloader`, `MCDownloader` | downloads and historical requests on one provider; EXTENDS `MT5Provider` | `downloader.py` 86-447, `data.py` 256-330 |
| `MT5DownloaderProofs` | inductive invariant and theorems of provider, downloader and requests | |
| `MT5Orders` | the contents of requests, modifications and reports | `execution.py` 113-140, 324-435, 566-629, 967-1145, 1203-1311 |
| `MT5OrdersProofs` | its inductive invariant and theorems | |
| `ExampleStrategies` | the three example strategies against an engine and a broker that answer later | `fvg_strategy.py`, `live.py` 60-289, `backtest_eurusd.py` 160-209 |
| `ExampleStrategiesProofs` | its inductive invariants and theorems | |
| `MCTrading` | a node that runs one of the strategies, or any strategy that works with one order of `MT5Orders` | |
| `MCTradingProofs` | the theorems of its parts, for the composition | |

### Atomicity

A method that does not give up control is one action of the event loop.

* `MT5Connection`: `reconnect_async()` yields only in its back-off sleep, so it is
  `ReconnectAsync` (call to first sleep) and `Wake` (end of a sleep to the next or
  to the return). The transient states INITIALIZING, LOGGING_IN and SHUTTING_DOWN
  cannot be seen by another task. `reconnect()` blocks the thread through all its
  attempts and is one step.
* `MT5Execution`: handlers await nothing that yields, so two handlers do not
  interleave; but the *broker* acts between any two `mt5.*` calls. `pc` and
  `target` are the place in a cancel between its look-ups and its `order_send()`.
  A submit is decided by its single `order_send()`, a poll by its single
  `history_deals_get()`, so each is one action.
* `MT5Provider`, `MT5Downloader`: loading and downloading await nothing, so no client
  runs until a download ends (`DownloadNext`). Inside a download the outcome of every
  library call is open, so each chunk is a step.
* `MT5Orders`: `_modify_order()` reads (`ModifyReads`) and then sends (`ModifyDone`,
  `ModifyFails`); broker and user act in between.
* `ExampleStrategies`: a handler of a strategy is one step. An order it sends waits in
  the engine (`sent`), is executed, and its fill waits for a poll (`unseen`).
* `MT5Data`: `place` is where the poll task awaits; handlers run only there
  (`Yielded`), the broker and the library change at any time.

### Abstractions

* Prices, volumes, names and messages are left out. A tick is its time; a deal is
  its order, position, kind, magic number (ours or not) and day.
* One symbol in `MT5Execution`; tickets are numbers in order of issue; as in
  MetaTrader 5, a position has the ticket of the order that opened it, and a
  closing deal an order ticket of its own. Nothing in the client reads a deal's
  position; only the property `ClosingDealsReported` does.
* `MT5Parsing` takes a name apart (stem, suffix, and the case of each) where the code
  compares characters; each set of symbols has one or two members, among them every
  stem whose own last letter reads like a suffix (USTEC). The increments, sizes and
  margins of an instrument and the numbers in ticks and bars are left out.
  A bar specification is its step, its unit and its price type.
* `MT5Downloader` tells the rows of a symbol apart by their instant; instants are
  `0..End`. `lost` in a result is history: the instants of chunks counted as empty or
  failed.
* `MT5Orders` follows one order and the one position it opens, volumes in halves: a
  pending order fills half by half, a market order is done in whole or (10010) in half.
  `found` says whether the provider has the instrument of the order, which is looked up
  in upper case; a new start of the process may change it at any time. Take profit
  (every modification keeps what it read), volume and deviation are left out, and so
  are changes of a pending order by hand. `asked` is what the strategy asked for as last
  revised by a modification that was carried out; `unheard` (the answer to
  `order_send()` was lost), `named`, `read` and `revised` are history.
* `MT5Node` follows one connection object. Any further object on the library's one
  session, of another account or built after `clear_connection_registry()`, is the
  action `OtherConnection`: it logs in, shuts down or half-opens the library at any
  moment, and this object's state does not notice. `holder` remembers who used the
  library last.
* `MT5Data` keeps the instruments by name as they are registered; `Upper` gives the name
  under which `get_instrument()` looks.
* `ExampleStrategies` computes no moving average: the trend filter may or may not
  block, a cross may or may not come. Prices are in half points, so that half a gap is
  an integer.
* A poll's two sets of known tickets steer debug messages only and are left out.
* A failed library is `mute` (calls return None) or `refused`
  (`ensure_connected()` raises). The library may become mute between any two calls;
  the connection leaves CONNECTED only while the modelled task waits.
* History variables (`creator`, `reported`, `reportedAs`, `unheard`, `dropped`,
  `tries`, `seen`, `holder`) record what happened and guard nothing.
* External, from how the code uses it: the broker refuses a pending order without a
  price and a "specified" time without an expiration (`Placeable`); deals of a stop
  loss, take profit or stop out carry the magic number of the position, deals by hand
  carry none (`Sources`); a filled order hands its stop loss to the position
  (`OrderFills`); NautilusTrader's `close_all_positions()` closes those of the calling
  strategy only (`CloseOrders`).
* The engine calls `_connect()` on a client only when it is not polling, and hands
  each client order to `_submit_order()` once. `_disconnect()` of the execution
  client in the middle of another handler cannot happen, since those do not yield.
* In `MT5Node` a poll meets either success or `MT5ConnectionError`; the pause of a
  second after any other exception leaves the state alone.

## 3. Runs

| run | shows |
|---|---|
| `connection` | `DisconnectedIsClosed`, `ConnectedIsFresh`, `FailedIsExhausted`, `ReconnectBudget`, `ReconnectReturns` for two tasks and synchronous callers |
| `node` | `FailureIsEarned`, `StoppedIsFailed`, `LiveSessionKept`, the refinement `ImplementsOutage`, `LoopRecovers` |
| `fills` | `EmittedOnce`, `FillsRightOrder`, `MapsInverse`, `RejectedHasNoExposure`, and the refinement `ImplementsLedger` |
| `fills_live` | `ForeignUntouched`, `PollDelivers`, `FillsDelivered` |
| `quotes` | `EarlySubscriptionsServed`, `SuppressedWasPublished`, the refinement `ImplementsFeed`, `TicksTakenUp` |
| `history` | provider: `AskedIsAccounted`; downloads: `RowsAccounted`, `WrittenAsCounted`, `MisspeltIsNoticed`; both readers: `FiledUnderOwnName`, `DeliversAskedBars` |
| `trading` | strategies: `FlagTellsTruth`, `StatsAgree`; orders: `WorksAsAsked`, `StopKept`, `ReportsTrue` |

Three abstract specifications say what a component promises, and the detailed one is
shown to implement each, by TLC and by a proof:

* `FillLedger` (`ImplementsLedger`): deals are executed, and each is reported at most
  once, in the poll that shows it first.
* `QuoteFeed` (`ImplementsFeed`): whatever stands is what the client polls or has noted
  for later, and a publication is newer than every other since the symbol was released.
  A symbol released from a poll under way is `late`: it may bring one more tick. That a
  release and a new subscription in the middle of a poll repeat no tick is part of it.
* `Outage` (`ImplementsOutage`): the execution loop is ready, serving, retrying or over
  (`OutageMode` reads this off its task and the shared connection); `made` is the number
  of handshakes of this outage, `pause` the delay before the next. Each outage is met
  with at most `MaxAttempts` handshakes and never shorter pauses up to the ceiling, a
  recovery starts the next one anew, and a loop that is over never polls again. The
  factories, the data client and the terminal are nowhere in `Outage`, and a
  cancellation only ends the loop (`Leave`): none of them disturbs its count.

Several of these properties hold with an exemption that names what the code does not
promise:

* `AskedIsAccounted`: `load_all_async()` upper-cases its filter and not the broker's
  names, so a filtered load never selects a name like `XAUUSDm`, and reports nothing.
* `MisspeltIsNoticed`: a lower-case name whose upper-case form is loaded downloads
  nothing and reports success. The lookup succeeds, the library call does not.
* `DeliversAskedBars`: the bars of a BID, ASK or MID request come back under the same
  step and unit, but always as LAST prices (parsing.py:521); a step MetaTrader 5 does not
  have is answered with bars of one hour, day, week or month. The property says, of every
  specification, which of the three it gets.
* `RowsAccounted`: a failed call (None) is counted as an *empty* chunk, not as an error.
* `WrittenAsCounted`: a row on the boundary of two chunks is written twice, and counted
  twice.
* `LiveSessionKept`: the session of another connection object has no protection. A loop
  whose connection was closed with the registry sleeps on, and its next retry shuts down
  the session that a newly built object made (connection.py:236).
* `SuppressedWasPublished`: of configured symbols in upper case only. `EURUSDm` is
  registered under its own casing and looked up as `EURUSDM`; its tick time is remembered
  and nothing is published. The run `cased_symbols` shows that.
* `WorksAsAsked`: where the answer to `order_send()` was lost the engine was told
  "rejected" (execution.py:404-409), and the property says just that. A modification sends
  the new limit price of a STOP_LIMIT order as its trigger, so the prices of a revised one
  are not claimed. README.md:29 and execution.py:331-334 list stop orders as supported;
  but a STOP_MARKET request carries price 0 (execution.py:357) and a GTD one no
  expiration, and the model's broker refuses both. How a real broker treats them is
  outside the source, so no run calls it a violation, and of these orders the property
  claims nothing.
* `StopKept`: a modification of a position overwrites a stop loss that the user set after
  it read another or none. It is about positions: a modification of a pending order
  without a trigger clears that order's own stop loss (execution.py:600).
* `ReportsTrue`: a deal or a position whose instrument is not found is in no report
  (execution.py:1078-1080, 1129-1131), so the equation asks for `found`. A stop-limit
  order is reported as STOP_MARKET and a DAY order as GTC, so the type is compared for
  LIMIT only and the time in force not at all. Deals by hand are in no fill report; deals
  before midnight of the local date are in none either, which is why the equation has the
  carried position.
* `FlagTellsTruth`: nothing listens to rejections, and the flag is set at submission and
  cleared at the signal. So a refused order, a lost fill, a close that overtakes a fill
  and a close of another strategy's position are exempt (`mishap`): after any of them
  flag, engine and broker may disagree for ever. Broker positions count net: on a
  hedging account a close leaves two opposite positions open.
* `StatsAgree`: a trade entered beyond its stop makes a "loss" with a profit, which
  `abs()` subtracts.

Five runs expect a violation. Each contradicts a sentence or test of the repository:

| run | property | what happens |
|---|---|---|
| `lost_link` | `LostLinkNoticed` | "Automatic reconnection" (README.md:32, execution.py:694) never starts when the terminal goes away: calls return None, which is read as "no orders", and nothing leaves CONNECTED |
| `data_loop` | `DataLoopStopsOnFailure` | tests/test_data.py:14 wants the data loop to reconnect; its code has no handler and the task dies |
| `midnight` | `NoDealLeftBehind` | execution.py:763-765: a deal between the last poll of a UTC day and midnight is never read |
| `closing_deals` | `ClosingDealsReported` | execution.py:821-823: the closing deal of a position of this session is skipped as "pre-session" |
| `cased_symbols` | `ConfiguredSymbolsHeard` | config.py:43-50 ("the exact broker symbol name and it works"), providers.py:265 ("Case-insensitive"): ticks of a configured `EURUSDm` are remembered as seen and never published |

One more disagreement is modelled and has no run: tests/test_data.py:373-378 wants
`_disconnect()` to forget the subscriptions, but awaiting the task it has just cancelled
raises before anything is cleared (`Disconnect` in `MT5Data`).

### Bounds, and why they are enough

* `connection`: two tasks (what one does to the other's counter needs no third),
  three attempts (the delay 1, 2, 3 reaches its cap), three terminal changes
  (down, up, down again within one outage of the other task).
* `node`: one reconnecting task, since the data loop never reconnects; four
  terminal changes give two separate outages. Another connection object acts in `node`
  (`SecondObject`); `lost_link` and `data_loop` need none.
* `fills`: two orders (symmetric), three tickets, two deals, two days, one
  disconnect: two partial fills of one order, fills of two orders, an old order of
  ours or of another program, a closing deal, and each of them before and after
  midnight and the disconnect. `fills_live` gives up one order for an outage, since
  liveness excludes symmetry.
* `quotes`: a configured and an unconfigured symbol, the second with two bar types;
  two ticks each; one failure of the library. Their names are in upper case; in
  `cased_symbols` that of the configured one is not.
* `history`: the broker lists a name and the same name with a lower-case suffix, and
  callers may also misspell each. A range of four days in chunks of three has an inner
  boundary with a row on it in both histories, a last chunk shorter than the first, and
  rows at both ends. Two downloads in a queue share a symbol's cache entry; one call of
  `download_all()` is enough, since only the cache and the catalog outlive it.
* `trading`: bars of three kinds make gaps down, touches, stops and targets; two
  entries let a trade be closed and another opened before the first fill is seen;
  `max_bars` and the warm-up of two reach the ageing of a gap in both variants. One
  order with two prices and two halves of volume: every order of its fills, expiry,
  stop, hand close, modification and start of the reports, with answers lost, partial
  executions, and the instrument found or not.
* `CHECK_DEADLOCK FALSE` where the behaviour really may end: when the day, ticket,
  deal or terminal bounds are used up, or when both loops have stopped.

The constants `MaxFlaps`, `MaxTickets`, `MaxDeals`, `MaxDay`, `MaxRestarts`, `MaxTick`,
`MaxQueue`, `MaxCalls` and `MaxEntries` only bound the exploration; `OneFault` in
`ExampleStrategies` ends the faults with the first, after which the properties promise
nothing. `CachedExternal` are tickets whose
synthesised id `MT5-<ticket>` the engine's cache knows, which
`_emit_fill()` lets pass; their deals are emitted again after a disconnect, so
`EmittedOnce` exempts them.

### Fairness

asyncio runs timers in order of their due time, so a sleeper whose delay is over is
woken (`WF` on `Wake`, `ExecWake`), a poll that is due happens (`WF` on the data
client's `PollStep`, on `ExecPollRaises` and `DataPollRaises`), and a running
handler goes on (`WF` on `Continue`). The execution poll has `SF`: handlers and
outages disable it again and again, but each handler ends before the next timer is
looked at. `MT5Recovers` is weakly fair in `fills_live` and `quotes`: those properties
are about outages that end. No fairness is assumed of the engine, of the broker or
of the terminal.

## 4. Proofs

`MT5ConnectionProofs` proves, for any finite set of tasks, any number of attempts and
any delays, that the specification `ConnSpec` keeps the safety invariants the run
`connection` checks. Assumption: `ConnectionAssumption` (`Callers` finite, the rest
natural numbers). The inductive invariant `ConnInv` is the type invariant, the three
state properties `DisconnectedIsClosed`, `ConnectedIsFresh`, `FailedIsExhausted`, and
one strengthening, `LinkNeedsTerminal`: nothing stays open across the death of the
terminal process. Without it a failed `initialize()` against a dead terminal could
not be reported as DISCONNECTED (lemma `HandshakeLeaves`). `ReconnectBudget` has an
invariant of its own: it counts handshakes against sleepers, so its step uses how a
set's cardinality changes when one task enters or leaves the sleep (lemma
`SleeperCount`). `BackoffCapped` bounds every delay for any number of sleepers.

`SleepsRunOut` is the safety core of `ReconnectReturns`, which itself is out of the
prover's reach. `Remaining`, the attempts left plus the sleepers, is a natural number;
every wake-up without a terminal lowers it, only a success raises it, and a wake-up
with the terminal up returns connected. So however many tasks share the counter, a
sleeper that is woken often enough returns; that it is woken is the fairness.

`MT5ExecutionProofs` proves, for any set of client orders and any number of tickets,
deals, days, outages and restarts (`ExecutionAssumption`), the safety invariants of
the runs `fills` and `fills_live` and that `ExecSpec` implements `FillLedger`. But for types, none of
the properties is inductive by itself. `ExecInv` adds to them:

* `TicketsKnown`: whatever the maps, the history of causes and the deals mention was
  issued before; so a ticket the broker issues now is new to everybody.
* `MapsTruthful`: `orderOf` names the real cause of a ticket; from it follows that
  the order a poll reports is the right one.
* `UnsubmittedUnknown`: an order not yet submitted has no ticket; so a refused
  request leaves nothing behind, and `Accept` keeps the two maps inverse.
* `ReportedExist`: only deals in the history are reported; so a new deal is unreported.
* `ReportedForgotten`: a reported deal is marked as processed, or its order is
  forgotten. This is why clearing `_processed_deal_keys` at a disconnect repeats no
  fill: the ticket maps go with them, and `_emit_fill()` skips deals of unknown orders.

Most steps are *quiet*: the broker may act, the client learns and forgets nothing
(lemma `QuietKeeps`). Submissions, disconnects and polls have lemmas of their own.
`OthersAreSafe` (the property `ForeignUntouched`) rests on the smaller invariant
`OursOnly`: every ticket a command may be sent for carries our magic number.
For `ClientImplementsLedger`, `OnlyPollsReport` shows that every step but a poll
executes at most one deal and reports none, and `PollMaps` gives the ledger's batch:
the deals a poll shows for the first time.

`EveryPollDelivers` is the safety core of `FillsDelivered`: every deal of a tracked order
that is due is one that an answered poll selects and may emit (`PollDelivers`); such a
poll tells it to the engine, or its emission fails (lemma `PollTells`). Two more invariants carry it. `MagicPassedOn`: from request to deal
the magic number goes with the ticket, so `_poll_exec_once()`, which selects deals by
magic number, misses none of ours. `MarkedWasTold`: a deal marked as processed was
reported or dropped as long as the session knows its order; `ToldStaysTold` and
`TrackedBefore` keep this over the steps of the broker and of the handlers.

`MT5OrdersProofs` proves `WorksAsAsked`, `StopKept`, `ReportsTrue` and the types, for
any set of prices (`OrdersAssumption`: they are positive). `OrdersInv` adds to the
properties:

* `Issued`: a working order or a position exists only for an order that was sent, and
  only a LIMIT or STOP_LIMIT order ever works.
* `SendingTrue`: the modification under way carries the stop loss it named, else the one
  it read; this is what `StopKept` needs, since the broker and the user may act before it
  is sent.
* `VolumeFits`: what is open and what still works make up at most the whole order.
* `DealsMakePosition`: without deals by hand the deals since the start of the reports
  and the carried position make the present one, so the fill reports add up.

`MT5DownloaderProofs` proves, for any set of names and histories, any length of range
and chunks, and queues of any length, the properties of the run `history`.
Assumptions: `ProviderAssumption` and `DownloaderAssumption`, which say that the range
and the chunks have a length, and that no broker lists two names that differ by case
only. `DownloadInv` adds:

* `CacheTrue`: every cached instrument is the one its own name and digits give. From
  it follows, with the facts on upper-casing (`UpperFacts`), that a lookup finds the
  instrument of the upper-cased name (`NamesOnlyUpper`).
* `Rested`, `OwnName`: between downloads nothing is counted; a download under way files
  under its own name, or, for a name the broker does not list, has written nothing.
* `Progress`: the rows before the next chunk are written or counted as lost. The row
  *at* its start is too, since a chunk includes its end; the next chunk may then write
  it again, which is why the catalog only needs to be monotone.

`DeliveredFacts` compares the two timeframe tables, for every timeframe and price type.

`WrittenIsCounted` needs a second invariant, `CountInv`, about numbers of rows. A sum
over a series would be a recursive definition, about which nothing can be proved here;
`Copies` gives the rows of a series as a *set* of pairs (instant, copy), whose
cardinality grows with the rows of a chunk. `CountInv` says:

* `Counted`: no download, finished or under way, counts more than its series holds.
* `Stepped`: chunks start at multiples of their length, or at the end of the range, so
  a row is on a boundary exactly where `MostWrites` allows two copies.
* `LinkUp`: once a call has got past its first `ensure_connected()` nothing else runs
  until its end, so no later download of it raises and loses the results before it.
* `FirstCall`: in the first call each row is in the catalog as often as finished
  downloads of its series, and the chunks of the present one (`Share`), may have
  written it.

`MT5NodeProofs` proves, for any retry configuration and any number of outages
(`ConnectionAssumption`, `NodeAssumption`), what the run `node` checks but liveness.
The connection's own invariant does not carry over: a factory whose `connect()` fails
leaves the channel it opened behind (factories.py:112), so that DISCONNECTED does not
mean closed. `NodeInv` says instead:

* `Unbuilt`: before a factory succeeds nothing has used the connection.
* `SessionIsConnected`: a session that this object logged in and nobody has touched since
  (`OwnSession`) belongs to a CONNECTED object, and none is left in a terminal that is
  down; hence `LiveSessionKept`, since a retry never starts from CONNECTED.
* `LoopBudget`: a running loop has its whole budget, and in a reconnect all attempts
  but the one it sleeps before have been made; hence `FailureIsEarned`.

`LoopImplementsOutage` maps each action. What the factories, another connection
object, the data client and the terminal do are stutters (`OutageStutters`), because nothing but the execution loop
reconnects and the loop never sleeps while the connection is CONNECTED. A disconnect
is `Leave` (`LeaveMaps`), a poll that raises is `Interrupt` or, without attempts,
`GiveUpOn` (`PollRaisesMaps`), the end of a sleep is `Retry`, `Recover` or `GiveUpOn`
(`WakeMaps`). A loop that was cancelled is ready only if the connection is usable; the
other cases are `over`, which is why `Leave` chooses.

`MT5DataProofs` proves, for any symbols and bar types, any number of ticks and outages
(`DataAssumption`), what the run `quotes` checks but liveness. `DataInv` adds:

* `InOrder`: what was published is no newer than what is remembered, and that no newer
  than the broker's. It holds because releasing a symbol forgets both together, also
  while the poll task awaits that symbol.
* `LoadedFirst`: a client connects or polls only with the configured symbols loaded;
  what the filter suppresses of one in upper case has therefore been published.
* `Placed`: the task waits for a symbol of its snapshot, or for none.
* `PolledLive`: a snapshot is being polled only by a live task, and `_connect()` waits
  only when there is none; so the symbols that are `late` come from one poll.

For `ClientImplementsFeed` the standing subscriptions are `subscribed` and `waiting`
together: `FinishConnect`, which moves the second to the first, is then a stutter. What
is left of a snapshot and no longer stands is `late`. That each publication is newer
than every other follows from `InOrder` and the filter (`TickForMaps`).

`PollsAdvance` is the safety core of `TicksTakenUp`, for any finite set of symbols.
`PollLeft`, five times the symbols left less the waits made for the present one, falls
with every step of the poll, and nothing but a new poll raises it: subscriptions,
releases and outages in its middle do not. A symbol is left out of date only when its
selection failed twice or its tick was empty three times.

`ExampleStrategiesProofs` proves, for any bars, any parameters of the strategies and
any number of entries (`StrategiesAssumption`), what the run `trading` checks of them.
Its specification `TradingSpec` is the run's for one strategy. Three invariants are
inductive one after the other:

* `TypeInv`: types, and that a zone and a trade exclude each other.
* `BooksInv`: a trade that was not entered beyond its stop loses at its stop, hence the
  sum of losses is not positive and `abs()` in `get_stats()` does no harm.
* `FlightInv`: while nothing went wrong at most two orders are under way, in `unseen`
  and then `sent`. The engine's position with them is what the strategy wants, with the
  first alone one trade size at most, and the broker's is the engine's with `unseen`.
  `Execute` and `PollFill` leave the line as it is; `CloseIs` shows that a close that is
  no mishap finds nothing under way and sends exactly one order.

`MCTradingProofs` proves what the run `trading` checks of the composition itself. Each
of `MCTradingNext`'s two parts leaves the other's variables alone, so `NodeInv` puts
`OrdersInv` beside the invariants of the strategy that runs, or `NoExample` where none
does, and reuses the step lemmas of both parts: `NodeTypeCorrect` (`MCTypeOK`),
`NodeStrategyWell` (`FlagTellsTruth`, `StatsAgree`) and `NodeOrderWell`
(`WorksAsAsked`, `ReportsTrue`, `StopKept`).

So every safety property of a passing run is a theorem. Only model-checked are the four
liveness properties, since neither fairness nor ENABLED is in the prover's reach:

| property | what is proved of it |
|---|---|
| `ReconnectReturns` | `SleepsRunOut`: the ranking |
| `LoopRecovers` | `LoopImplementsOutage`: an outage has at most `MaxAttempts` retries, each ending in service, in the next or in the end of the loop |
| `FillsDelivered` | `EveryPollDelivers`: an answered poll reports every due deal |
| `TicksTakenUp` | `PollsAdvance`: the ranking, and what a poll may leave out |

What is left for fairness to give is that the sleeper is woken, that a poll happens and
that an outage ends. The five properties that the code violates are TLC's as well.

## 5. Plan

Done: all modules above and their runs; every safety property of a passing run is
proved. What could be added:

1. An abstract specification of one order's life (asked for, working, revised, filled
   or gone) that `MT5Orders` implements, with `WorksAsAsked` as its state part.
2. A node with both `MT5Execution` and `ExampleStrategies`, so that `LoseFill` comes
   from the poll that dropped the deal and not from an action of its own.
3. That a filtered and a full load of the provider give the same instruments for the
   same names, as a theorem about `LoadAll` and `LoadIds`.

### Not modelled

* `config.py`, `errors.py`: settings validated once, and exception classes. The ranges
  of the settings are the assumptions on the constants.
* `check_connectivity.py`, `download_csvs.py`, `examples/test_place_order.py`,
  `examples/backtest_xauusd_fvg.py` and the download scripts: linear programs that
  print or write files; no other actor sees a state between their steps.
* Whose account an order goes to when several accounts share the library's one session.
  That they disturb each other's session is `OtherConnection`; the source says of them
  only that they may coexist (factories.py:99-100). `build_mt5_node_config()` fills a dictionary
  that only the factories read.
* `_reconcile_open_orders()`, `_reconcile_open_positions()` and the known-ticket sets:
  they only steer debug messages. The account state: read and handed on, never kept.
* Conversions of numbers: increments, lot sizes, margins, the fields of ticks and bars,
  the drawdown and ratio figures of the strategies; the one prefix of
  `normalize_symbol()`.
