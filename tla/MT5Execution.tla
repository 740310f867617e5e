----------------------------- MODULE MT5Execution -----------------------------
(***************************************************************************)
(* MT5LiveExecutionClient (mt5connect/execution.py) against a broker that  *)
(* acts on its own between any two calls of the mt5 library.               *)
(*                                                                         *)
(* The client is one asyncio thread.  Its methods await nothing that gives *)
(* up control, so a method is not interleaved with another method; but     *)
(* each mt5.* call is a moment of its own in the life of the broker.  `pc` *)
(* is the place in the method now running, between two of its mt5 calls;   *)
(* it is "free" while the event loop waits.  Broker steps happen at any    *)
(* time.                                                                   *)
(*                                                                         *)
(* One symbol is modelled; prices and volumes are left out.  A pending     *)
(* order may be filled by several deals.  In MetaTrader 5 a position has   *)
(* the ticket of the order that opened it, and the code relies on that.    *)
(* The two sets of known tickets, which a poll refreshes for its log       *)
(* messages only, are left out, so a poll is its read of the deal history. *)
(*                                                                         *)
(* A definition whose comment starts with "Mutant" is a deliberately wrong *)
(* variant of the definition after it; no specification uses it.           *)
(***************************************************************************)
EXTENDS Integers, Sequences, FiniteSets

CONSTANTS
  Orders,          \* client order ids the strategies may submit
  NoOrder,         \* no client order id
  MaxTickets,      \* bound: broker tickets 1..MaxTickets
  MaxDeals,        \* bound: length of the deal history
  MaxDay,          \* bound: UTC days 1..MaxDay
  MaxFlaps,        \* bound: times the mt5 library stops answering
  MaxRestarts,     \* bound: times the client is disconnected
  CachedExternal   \* tickets whose id "MT5-<ticket>" is in the engine's cache

Tickets == 1..MaxTickets
Deals == 1..MaxDeals
NoTicket == 0

ASSUME ExecutionAssumption ==
  /\ NoOrder \notin Orders
  /\ MaxTickets \in Nat \ {0}
  /\ MaxDeals \in Nat
  /\ MaxDay \in Nat \ {0}
  /\ MaxFlaps \in Nat
  /\ MaxRestarts \in Nat
  /\ CachedExternal \subseteq Tickets

VARIABLES
  \* broker
  issued,       \* tickets issued so far are 1..issued
  mine,         \* tickets whose order or position carries our magic number
  pending,      \* tickets of pending orders
  positions,    \* tickets of open positions
  deals,        \* deal history, a sequence of DealType
  day,          \* current UTC day
  mt5,          \* up, mute (calls return None) or refused (not CONNECTED)
  creator,      \* history: per ticket, the client order whose request made it
  \* client
  pc,           \* place in the running method, see Places
  target,       \* tickets that method still has to deal with
  polling,      \* the poll task exists
  processed,    \* self._processed_deal_keys
  ticketOf,     \* self._client_order_id_to_ticket
  orderOf,      \* self._ticket_to_client_order_id
  \* trading engine
  status,       \* per client order: what the engine has been told
  venueId,      \* per client order: venue order id from OrderAccepted
  reported,     \* history: per deal, how often OrderFilled was emitted
  reportedAs,   \* history: per deal, the client order of that OrderFilled
  \* faults and bounds
  unheard,      \* history: client orders whose order_send() reply was lost
  dropped,      \* history: deals whose emission raised
  flaps,
  restarts

brokerVars == <<issued, mine, pending, positions, deals, creator>>
clientVars == <<polling, processed, ticketOf, orderOf>>
engineVars == <<status, venueId, reported, reportedAs>>
faultVars == <<unheard, dropped>>
boundVars == <<day, mt5, flaps, restarts>>
execVars ==
  <<brokerVars, clientVars, engineVars, faultVars, boundVars, pc, target>>

Places == {"free", "remove", "lookup", "close"}

(* submitted and never answered is "silent": the handler raised. *)
Statuses == {"none", "accepted", "rejected", "silent"}

DealType ==
  [order : Tickets \cup {NoTicket}, position : Tickets \cup {NoTicket},
   kind : {"open", "close", "balance"}, mine : BOOLEAN, day : 1..MaxDay]

(* One order or position may be left from before the session: ours from an *)
(* earlier run of the node, or of another program on the account.          *)
ExecInit ==
  /\ issued = 1
  /\ mine \in {{}, {1}}
  /\ \/ pending = {1} /\ positions = {}
     \/ pending = {} /\ positions = {1}
  /\ deals = <<>>
  /\ day = 1
  /\ mt5 = "up"
  /\ creator = [t \in Tickets |-> NoOrder]
  /\ pc = "free"
  /\ target = {}
  /\ polling = FALSE
  /\ processed = {}
  /\ ticketOf = [o \in Orders |-> NoTicket]
  /\ orderOf = [t \in Tickets |-> NoOrder]
  /\ status = [o \in Orders |-> "none"]
  /\ venueId = [o \in Orders |-> NoTicket]
  /\ reported = [d \in Deals |-> 0]
  /\ reportedAs = [d \in Deals |-> NoOrder]
  /\ unheard = {}
  /\ dropped = {}
  /\ flaps = 0
  /\ restarts = 0

-----------------------------------------------------------------------------
(* What the broker does with a request, and on its own. *)

CanIssue == issued < MaxTickets
CanDeal == Len(deals) < MaxDeals

(* The record of a deal that order t makes now in position p. *)
Deal(t, p, kind, own) ==
  [order |-> t, position |-> p, kind |-> kind, mine |-> own, day |-> day]

(* The broker executes a market order of client order o at once. *)
OpenPosition(o) ==
  LET t == issued + 1 IN
  /\ CanIssue /\ CanDeal
  /\ issued' = t
  /\ mine' = mine \cup {t}
  /\ creator' = [creator EXCEPT ![t] = o]
  /\ positions' = positions \cup {t}
  /\ deals' = Append(deals, Deal(t, t, "open", TRUE))
  /\ UNCHANGED pending

(* The broker places a pending order of client order o. *)
PlacePending(o) ==
  LET t == issued + 1 IN
  /\ CanIssue
  /\ issued' = t
  /\ mine' = mine \cup {t}
  /\ creator' = [creator EXCEPT ![t] = o]
  /\ pending' = pending \cup {t}
  /\ UNCHANGED <<positions, deals>>

(* Position t is closed by an order of its own, which has a new ticket. *)
ClosePosition(t) ==
  /\ t \in positions
  /\ CanIssue /\ CanDeal
  /\ issued' = issued + 1
  /\ mine' = IF t \in mine THEN mine \cup {issued + 1} ELSE mine
  /\ positions' = positions \ {t}
  /\ deals' = Append(deals, Deal(issued + 1, t, "close", t \in mine))
  /\ UNCHANGED <<pending, creator>>

(* A deal fills a pending order, in part or to its end. *)
BrokerFills(t) ==
  /\ t \in pending
  /\ CanDeal
  /\ deals' = Append(deals, Deal(t, t, "open", t \in mine))
  /\ positions' = positions \cup {t}
  /\ pending' \in {pending, pending \ {t}}
  /\ UNCHANGED <<issued, mine, creator>>

(* A pending order expires or is deleted by hand in the terminal. *)
BrokerExpires(t) ==
  /\ t \in pending
  /\ pending' = pending \ {t}
  /\ UNCHANGED <<issued, mine, creator, positions, deals>>

(* A balance operation is booked under our magic number. *)
BrokerBooks ==
  /\ CanDeal
  /\ deals' = Append(deals, Deal(NoTicket, NoTicket, "balance", TRUE))
  /\ UNCHANGED <<issued, mine, creator, positions, pending>>

BrokerStep ==
  /\ \/ \E t \in pending : BrokerFills(t) \/ BrokerExpires(t)
     \/ \E t \in positions : ClosePosition(t)     \* stop loss, take profit
     \/ BrokerBooks
  /\ UNCHANGED <<clientVars, engineVars, faultVars, boundVars, pc, target>>

Midnight ==
  /\ day < MaxDay
  /\ day' = day + 1
  /\ UNCHANGED <<brokerVars, clientVars, engineVars, faultVars, mt5, flaps,
                 restarts, pc, target>>

(* The library stops answering, or the shared connection leaves CONNECTED  *)
(* (only between two methods: the connection changes in another task).     *)
MT5Fails ==
  /\ mt5 = "up"
  /\ flaps < MaxFlaps
  /\ flaps' = flaps + 1
  /\ \/ mt5' = "mute"
     \/ mt5' = "refused" /\ pc = "free"
  /\ UNCHANGED <<brokerVars, clientVars, engineVars, faultVars, day, restarts,
                 pc, target>>

MT5Recovers ==
  /\ mt5 # "up"
  /\ mt5' = "up"
  /\ UNCHANGED <<brokerVars, clientVars, engineVars, faultVars, day, flaps,
                 restarts, pc, target>>

-----------------------------------------------------------------------------
(* Connect and disconnect. *)

Answers == mt5 = "up"
EnsureConnected == mt5 # "refused"

(* _connect(): start the poll task. *)
Connect ==
  /\ pc = "free"
  /\ ~polling
  /\ EnsureConnected
  /\ polling' = TRUE
  /\ UNCHANGED <<brokerVars, processed, ticketOf, orderOf, engineVars, faultVars,
                 boundVars, pc, target>>

(* Mutant: the ticket map survives while the processed keys are cleared. *)
DisconnectKeepsTickets ==
  /\ pc = "free"
  /\ polling
  /\ restarts < MaxRestarts
  /\ restarts' = restarts + 1
  /\ polling' = FALSE
  /\ processed' = {}
  /\ ticketOf' = [o \in Orders |-> NoTicket]
  /\ UNCHANGED <<brokerVars, orderOf, engineVars, faultVars, day, mt5, flaps,
                 pc, target>>

(* _disconnect(): cancel the poll task in its sleep and forget everything. *)
Disconnect ==
  /\ pc = "free"
  /\ polling
  /\ restarts < MaxRestarts
  /\ restarts' = restarts + 1
  /\ polling' = FALSE
  /\ processed' = {}
  /\ ticketOf' = [o \in Orders |-> NoTicket]
  /\ orderOf' = [t \in Tickets |-> NoOrder]
  /\ UNCHANGED <<brokerVars, engineVars, faultVars, day, mt5, flaps, pc, target>>

-----------------------------------------------------------------------------
(* _submit_order() *)

Tell(o, what) == status' = [status EXCEPT ![o] = what]

(* order_send() reports success: record both maps, emit OrderAccepted. *)
Accept(o) ==
  /\ ticketOf' = [ticketOf EXCEPT ![o] = issued + 1]
  /\ orderOf' = [orderOf EXCEPT ![issued + 1] = o]
  /\ venueId' = [venueId EXCEPT ![o] = issued + 1]
  /\ Tell(o, "accepted")
  /\ UNCHANGED unheard

(* Mutant: a partial execution is taken for a refusal. *)
RespondRejectsPartial(o) ==
  \/ Accept(o)
  \/ /\ Tell(o, "rejected")
     /\ UNCHANGED <<ticketOf, orderOf, venueId, unheard>>

(* What the client makes of the reply to a request the broker carried out: *)
(* DONE, PLACED and DONE_PARTIAL are success; no reply at all counts as a  *)
(* refusal.                                                                *)
Respond(o) ==
  \/ Accept(o)
  \/ /\ unheard' = unheard \cup {o}
     /\ Tell(o, "rejected")
     /\ UNCHANGED <<ticketOf, orderOf, venueId>>

(* The request is carried out. *)
SubmitExecuted(o) ==
  /\ Answers
  /\ OpenPosition(o) \/ PlacePending(o)
  /\ Respond(o)

(* No instrument, no tick, no reply, or a retcode that is not a success. *)
SubmitRefused(o) ==
  /\ EnsureConnected
  /\ Tell(o, "rejected")
  /\ UNCHANGED <<brokerVars, ticketOf, orderOf, venueId, unheard>>

(* ensure_connected() or the order type mapping raises: no event at all. *)
SubmitRaises(o) ==
  /\ Tell(o, "silent")
  /\ UNCHANGED <<brokerVars, ticketOf, orderOf, venueId, unheard>>

Submit(o) ==
  /\ pc = "free"
  /\ polling
  /\ status[o] = "none"
  /\ SubmitExecuted(o) \/ SubmitRefused(o) \/ SubmitRaises(o)
  /\ UNCHANGED <<polling, processed, reported, reportedAs, dropped, boundVars, pc,
                 target>>

-----------------------------------------------------------------------------
(* _cancel_order() and _cancel_all_orders() *)

ToPlace(place, tickets) == pc' = place /\ target' = tickets

(* The ticket of a command: from the session's map, else the venue id. *)
TicketFor(o) == IF ticketOf[o] # NoTicket THEN ticketOf[o] ELSE venueId[o]

(* Mutant: an order without a ticket is not turned away. *)
CancelUnguarded(o) ==
  /\ pc = "free"
  /\ polling
  /\ EnsureConnected
  /\ IF Answers /\ TicketFor(o) \in pending
       THEN ToPlace("remove", {TicketFor(o)})
       ELSE ToPlace("lookup", {TicketFor(o)})
  /\ UNCHANGED <<brokerVars, clientVars, engineVars, faultVars, boundVars>>

(* Up to and including orders_get(ticket=...). *)
Cancel(o) ==
  /\ pc = "free"
  /\ polling
  /\ EnsureConnected
  /\ TicketFor(o) # NoTicket
  /\ IF Answers /\ TicketFor(o) \in pending
       THEN ToPlace("remove", {TicketFor(o)})
       ELSE ToPlace("lookup", {TicketFor(o)})
  /\ UNCHANGED <<brokerVars, clientVars, engineVars, faultVars, boundVars>>

(* Mutant: cancel-all does not look at the magic number. *)
CancelAllTargetsEverything == IF Answers THEN pending ELSE {}

(* The orders cancel-all goes on to remove. *)
CancelAllTargets == IF Answers THEN pending \cap mine ELSE {}

(* Up to and including orders_get(symbol=...). *)
CancelAll ==
  /\ pc = "free"
  /\ polling
  /\ EnsureConnected
  /\ CancelAllTargets # {}
  /\ ToPlace("remove", CancelAllTargets)
  /\ UNCHANGED <<brokerVars, clientVars, engineVars, faultVars, boundVars>>

(* order_send(ACTION_REMOVE) for one ticket: refused when the order is no  *)
(* longer pending; the outcome is only logged.                             *)
RemoveOrder ==
  \E t \in target :
    /\ pc = "remove"
    /\ IF target = {t} THEN ToPlace("free", {}) ELSE ToPlace("remove", target \ {t})
    /\ pending' = IF Answers THEN pending \ {t} ELSE pending
    /\ UNCHANGED <<issued, mine, creator, positions, deals>>
    /\ UNCHANGED <<clientVars, engineVars, faultVars, boundVars>>

(* positions_get(ticket=...), for a ticket that is no pending order. *)
LookUpPosition ==
  /\ pc = "lookup"
  /\ IF Answers /\ target \subseteq positions
       THEN ToPlace("close", target)
       ELSE ToPlace("free", {})
  /\ UNCHANGED <<brokerVars, clientVars, engineVars, faultVars, boundVars>>

(* order_send(ACTION_DEAL) with the opposite side; only logged. *)
CloseTarget ==
  /\ pc = "close"
  /\ ToPlace("free", {})
  /\ \/ Answers /\ \E t \in target : ClosePosition(t)
     \/ UNCHANGED brokerVars
  /\ UNCHANGED <<clientVars, engineVars, faultVars, boundVars>>

-----------------------------------------------------------------------------
(* _poll_exec_once() *)

(* history_deals_get(UTC midnight, now). *)
History == IF Answers THEN {d \in DOMAIN deals : deals[d].day = day} ELSE {}

(* Mutant: the deal key is the order, so a second partial fill looks old. *)
NewDealsByOrder ==
  {d \in History :
     deals[d].mine /\ \A e \in processed : deals[e].order # deals[d].order}

(* Mutant: the processed keys are not consulted. *)
NewDealsUnfiltered == {d \in History : deals[d].mine}

(* Deals of today, under our magic number, with an unprocessed key. *)
NewDeals == {d \in History : deals[d].mine /\ d \notin processed}

(* Mutant: a deal of an unknown order is emitted under a synthesised id. *)
EmittableUnchecked(d) == deals[d].kind # "balance"

(* _emit_fill(): a trade deal, whose order this session placed or the      *)
(* engine's cache holds under its synthesised id.                          *)
Emittable(d) ==
  /\ deals[d].kind # "balance"
  /\ deals[d].order \in {t \in Tickets : orderOf[t] # NoOrder} \cup CachedExternal

(* The client order id _emit_fill() reports; NoOrder is the synthesised.   *)
FillOrder(d) == orderOf[deals[d].order]

(* Every new deal is marked processed and then emitted; an emission that   *)
(* finds no instrument or raises is logged and gone.                       *)
PollExecOnce ==
  /\ pc = "free"
  /\ polling
  /\ EnsureConnected
  /\ processed' = processed \cup NewDeals
  /\ \E failing \in SUBSET {d \in NewDeals : Emittable(d)} :
       LET batch == {d \in NewDeals : Emittable(d)} \ failing IN
       /\ reported' = [d \in Deals |-> IF d \in batch THEN reported[d] + 1
                                                      ELSE reported[d]]
       /\ reportedAs' = [d \in Deals |-> IF d \in batch THEN FillOrder(d)
                                                        ELSE reportedAs[d]]
       /\ dropped' = dropped \cup failing
  /\ UNCHANGED <<brokerVars, polling, ticketOf, orderOf, status, venueId, unheard,
                 boundVars, pc, target>>

-----------------------------------------------------------------------------
(* The rest of a method that is between two of its mt5 calls. *)
Continue == RemoveOrder \/ LookUpPosition \/ CloseTarget

ClientStep ==
  \/ Connect \/ Disconnect
  \/ \E o \in Orders : Submit(o) \/ Cancel(o)
  \/ CancelAll
  \/ PollExecOnce
  \/ Continue

ExecNext == ClientStep \/ BrokerStep \/ Midnight \/ MT5Fails \/ MT5Recovers

ExecSpec == ExecInit /\ [][ExecNext]_execVars

(* A method that runs goes on; the event loop serves timers in order, so a *)
(* due poll is not overtaken for ever; an outage ends.                     *)
ExecFairSpec ==
  /\ ExecSpec
  /\ WF_execVars(Continue)
  /\ SF_execVars(PollExecOnce)
  /\ WF_execVars(MT5Recovers)

-----------------------------------------------------------------------------
(* Correctness. *)

(* Every variable keeps its type; tickets of every kind were issued. *)
ExecTypeOK ==
  /\ issued \in Tickets
  /\ mine \subseteq Tickets
  /\ pending \subseteq 1..issued /\ positions \subseteq 1..issued
  /\ deals \in Seq(DealType) /\ Len(deals) <= MaxDeals
  /\ day \in 1..MaxDay
  /\ mt5 \in {"up", "mute", "refused"}
  /\ creator \in [Tickets -> Orders \cup {NoOrder}]
  /\ pc \in Places
  /\ target \subseteq Tickets
  /\ polling \in BOOLEAN
  /\ processed \subseteq DOMAIN deals
  /\ ticketOf \in [Orders -> Tickets \cup {NoTicket}]
  /\ orderOf \in [Tickets -> Orders \cup {NoOrder}]
  /\ status \in [Orders -> Statuses]
  /\ venueId \in [Orders -> Tickets \cup {NoTicket}]
  /\ reported \in [Deals -> Nat]
  /\ reportedAs \in [Deals -> Orders \cup {NoOrder}]
  /\ unheard \subseteq Orders
  /\ dropped \subseteq DOMAIN deals
  /\ flaps \in 0..MaxFlaps
  /\ restarts \in 0..MaxRestarts

IsExternal(d) == d \in DOMAIN deals /\ deals[d].order \in CachedExternal

(* No OrderFilled is emitted twice for a deal, over any number of polls    *)
(* and over a disconnect that forgets which deals were processed: the      *)
(* ticket map is forgotten with them.  (An order the engine itself knows   *)
(* as "MT5-<ticket>" is exempt: its deals are emitted anew per session.)   *)
EmittedOnce == \A d \in Deals : IsExternal(d) \/ reported[d] <= 1

(* A fill is reported under the client order whose request caused it. *)
FillsRightOrder ==
  \A d \in DOMAIN deals :
    reported[d] > 0 /\ ~IsExternal(d) => reportedAs[d] = creator[deals[d].order]

(* The two ticket maps are inverse to each other, across submissions,      *)
(* lost replies and disconnects: a cancel and a fill of one order agree.   *)
MapsInverse ==
  \A o \in Orders, t \in Tickets : ticketOf[o] = t <=> orderOf[t] = o

(* An order the engine was told is rejected has no ticket at the broker,   *)
(* unless the reply to its request was lost.                               *)
RejectedHasNoExposure ==
  \A o \in Orders :
    status[o] = "rejected" /\ o \notin unheard => \A t \in Tickets : creator[t] # o

(* No command of ours removes an order or closes a position of another     *)
(* program on the account.                                                 *)
ForeignUntouched ==
  [][ClientStep => /\ pending \ mine \subseteq pending'
                   /\ positions \ mine \subseteq positions']_execVars

Tracked(d) ==
  /\ d \in DOMAIN deals
  /\ deals[d].order # NoTicket
  /\ orderOf[deals[d].order] # NoOrder

(* Deal d of a tracked order has to be reported today. *)
Due(d) ==
  /\ d \in DOMAIN deals
  /\ polling
  /\ Tracked(d)
  /\ deals[d].day = day
  /\ reported[d] = 0
  /\ d \notin dropped

(* Whatever was submitted, cancelled, filled, lost or restarted before, and *)
(* however long the library did not answer: a deal of a tracked order that  *)
(* has to be reported today is one that the next answered poll selects and  *)
(* may emit.  So no such deal survives an answered poll unreported.         *)
PollDelivers ==
  Answers => \A d \in Deals : Due(d) => d \in NewDeals /\ Emittable(d)

(* A deal of a tracked order is reported before its UTC day or the session *)
(* ends, whatever commands are served in between and however long the      *)
(* library did not answer.                                                 *)
FillsDelivered == \A d \in Deals : Due(d) ~> ~Due(d)

Ledger ==
  INSTANCE FillLedger WITH
    executed <- Len(deals),
    reported <- [d \in Deals |->
                   IF IsExternal(d) /\ reported[d] > 0 THEN 1 ELSE reported[d]]

(* The client implements the abstract ledger of fills. *)
ImplementsLedger == Ledger!LedgerSpec

-----------------------------------------------------------------------------
(* What the source says of itself and the code does not do. *)

(* execution.py:763-765: looking back from UTC midnight catches all deals  *)
(* of the session and emits each exactly once.                             *)
NoDealLeftBehind ==
  \A d \in DOMAIN deals :
    Tracked(d) /\ deals[d].day < day /\ polling
      => reported[d] > 0 \/ d \in dropped

(* execution.py:821-823: a deal that closes a long or a short is converted *)
(* to an OrderFilled too; here, one of a position this session opened.     *)
ClosingDealsReported ==
  \A d \in processed :
    /\ deals[d].kind = "close"
    /\ orderOf[deals[d].position] # NoOrder
    => reported[d] > 0 \/ d \in dropped

=============================================================================
