------------------------------ MODULE MT5Orders ------------------------------
(***************************************************************************)
(* What the order commands of MT5LiveExecutionClient say to the broker     *)
(* (mt5connect/execution.py): the requests of _submit_order() and          *)
(* _modify_order(), and the three kinds of report read back.  MT5Execution *)
(* follows tickets and deals; this module follows the contents of one      *)
(* order and of the position it opens.                                     *)
(*                                                                         *)
(* _modify_order() reads the order or the position and then sends; the     *)
(* broker and the user of the terminal act in between.  The instrument of  *)
(* the order may or may not be found by the provider, which looks it up in *)
(* upper case.  Volumes are halves of the order, prices a few integers, 0  *)
(* where there is none.                                                    *)
(***************************************************************************)
EXTENDS Integers

CONSTANTS
  Prices     \* prices an order or a command may carry

ASSUME OrdersAssumption == Prices \subseteq Nat \ {0}

PricesOrNone == Prices \cup {0}

VARIABLES
  asked,     \* what the strategy asked for, else NoOrder
  told,      \* the engine's status of the order
  found,     \* get_instrument() has the symbol of the order
  working,   \* the order at the broker, else NoOrder
  holding,   \* the position it opened, else NoPosition
  sending,   \* the request a modification is about to send, else NoRequest
  unheard,   \* history: the broker's answer to the submission was lost
  revised,   \* history: a modification gave the order a new price
  deals,     \* volumes dealt since the start of the reports, by source, side
  carried    \* history: the position at that start, signed

brokerVars == <<working, holding, deals>>
engineVars == <<asked, told, unheard, revised>>
orderVars == <<engineVars, found, sending, carried, brokerVars>>

Sides == {"BUY", "SELL"}
Opposite(side) == IF side = "BUY" THEN "SELL" ELSE "BUY"

(* A deal is made by an order of ours, by the stop loss, take profit or    *)
(* stop out of our position, or by the user, who has no magic number.      *)
Sources == {"order", "stop", "hand"}
NoDeals == [s \in Sources |-> [d \in Sides |-> 0]]
Dealt(source, side, volume) == [deals EXCEPT ![source][side] = @ + volume]

TimesInForce == {"GTC", "DAY", "IOC", "FOK", "GTD"}

(* The orders of the engine: a price and a trigger where the type has one. *)
OrderType ==
  [type : {"MARKET", "LIMIT", "STOP_MARKET", "STOP_LIMIT", "TRAILING"},
   side : Sides, price : PricesOrNone, trigger : PricesOrNone, tif : TimesInForce]

EngineOrders ==
  {o \in OrderType :
     /\ o.price # 0 <=> o.type \in {"LIMIT", "STOP_LIMIT"}
     /\ o.trigger # 0 <=> o.type \in {"STOP_MARKET", "STOP_LIMIT"}}

WorkingType ==
  [type : {"LIMIT", "STOP", "STOP_LIMIT"}, side : Sides, price : Prices,
   stoplimit : PricesOrNone, sl : PricesOrNone, time : {"GTC", "DAY"},
   left : {1, 2}]

(* ACTION_MODIFY of an order, ACTION_SLTP of a position.  What the command *)
(* named (price, stop loss) and the stop loss that was read are history.   *)
SendingType ==
  [action : {"MODIFY"}, price : Prices, sl : PricesOrNone, named : PricesOrNone]
    \cup [action : {"SLTP"}, sl : PricesOrNone, named : PricesOrNone,
          read : PricesOrNone]

NoOrder == [type |-> "none"]
NoPosition == [side |-> "none"]
NoRequest == [action |-> "none"]

OrdersInit ==
  /\ asked = NoOrder
  /\ told = "none"
  /\ unheard = FALSE
  /\ found \in BOOLEAN
  /\ working = NoOrder
  /\ holding = NoPosition
  /\ sending = NoRequest
  /\ revised = FALSE
  /\ deals = NoDeals
  /\ carried = 0

-----------------------------------------------------------------------------
(* _submit_order() *)

(* IOC and FOK are left to the filling mode; GTD has no expiration to go   *)
(* with it.                                                                *)
TimeInForceToMT5(tif) ==
  CASE tif = "DAY" -> "DAY" [] tif = "GTD" -> "SPECIFIED" [] OTHER -> "GTC"

Mapped == {"LIMIT", "STOP_MARKET", "STOP_LIMIT"}
PendingType(type) == IF type = "STOP_MARKET" THEN "STOP" ELSE type

(* Mutant: the two prices of a stop-limit order change places. *)
RequestSwapped(o) ==
  [type |-> PendingType(o.type), side |-> o.side, price |-> o.price,
   stoplimit |-> o.trigger, sl |-> 0, time |-> TimeInForceToMT5(o.tif),
   left |-> 2]

(* The request of a pending order.  The price is order.price, which a      *)
(* STOP_MARKET order does not have; in a STOP_LIMIT order it is the        *)
(* trigger, and the limit goes into stoplimit.                             *)
Request(o) ==
  [type |-> PendingType(o.type), side |-> o.side,
   price |-> IF o.type = "STOP_LIMIT" THEN o.trigger ELSE o.price,
   stoplimit |-> IF o.type = "STOP_LIMIT" THEN o.price ELSE 0,
   sl |-> 0, time |-> TimeInForceToMT5(o.tif), left |-> 2]

(* The broker: a pending order needs its price, a time of its own kind an  *)
(* expiration, and no request says one.                                    *)
Placeable(request) == request.price # 0 /\ request.time # "SPECIFIED"

(* A market order is done at once, all of it or, with the reply 10010,     *)
(* half of it and no more.                                                 *)
MarketDone(o) ==
  /\ o.type = "MARKET"
  /\ TimeInForceToMT5(o.tif) # "SPECIFIED"
  /\ \E volume \in {1, 2} :
       /\ holding' = [side |-> o.side, sl |-> 0, volume |-> volume]
       /\ deals' = Dealt("order", o.side, volume)
  /\ UNCHANGED working

PendingPlaced(o) ==
  /\ o.type \in Mapped
  /\ Placeable(Request(o))
  /\ working' = Request(o)
  /\ UNCHANGED <<holding, deals>>

(* The broker carries the request out ... *)
SubmitAccepted(o) ==
  /\ found
  /\ MarketDone(o) \/ PendingPlaced(o)
  /\ told' = "accepted"
  /\ UNCHANGED unheard

(* ... but order_send() answers None.                                      *)
SubmitUnheard(o) ==
  /\ found
  /\ MarketDone(o) \/ PendingPlaced(o)
  /\ told' = "rejected"
  /\ unheard' = TRUE

(* The instrument is not found or has no price, which is looked at before  *)
(* the type; or the broker turns the request down.  Either may always be.  *)
SubmitRejected(o) ==
  /\ told' = "rejected"
  /\ UNCHANGED <<unheard, brokerVars>>

(* The order type has no counterpart: the mapping raises out of the        *)
(* handler, and the engine hears nothing.                                  *)
SubmitUnsupported(o) ==
  /\ found
  /\ o.type \notin Mapped \cup {"MARKET"}
  /\ told' = "silent"
  /\ UNCHANGED <<unheard, brokerVars>>

SubmitOrder(o) ==
  /\ asked' = o
  /\ \/ SubmitAccepted(o) \/ SubmitUnheard(o)
     \/ SubmitRejected(o) \/ SubmitUnsupported(o)
  /\ UNCHANGED <<found, sending, revised, carried>>

-----------------------------------------------------------------------------
(* _modify_order() *)

Or(new, old) == IF new # 0 THEN new ELSE old

(* ACTION_MODIFY keeps the old price for want of a new one, not the old    *)
(* stop loss: without a trigger it is cleared.                             *)
ModifyWorking(price, trigger) ==
  /\ working # NoOrder
  /\ sending' = [action |-> "MODIFY", price |-> Or(price, working.price),
                 sl |-> trigger, named |-> price]

(* Mutant: without a trigger the stop loss of the position is cleared. *)
ModifyPositionClears(price, trigger) ==
  /\ holding # NoPosition
  /\ sending' = [action |-> "SLTP", sl |-> trigger, named |-> trigger,
                 read |-> holding.sl]

(* ACTION_SLTP keeps the stop loss of the position it read. *)
ModifyPosition(price, trigger) ==
  /\ holding # NoPosition
  /\ sending' = [action |-> "SLTP", sl |-> Or(trigger, holding.sl),
                 named |-> trigger, read |-> holding.sl]

(* Up to the last read.  orders_get() may answer None for an order that is *)
(* there; then the position of the same ticket is looked for.              *)
ModifyReads(price, trigger) ==
  /\ told = "accepted"
  /\ sending = NoRequest
  /\ ModifyWorking(price, trigger) \/ ModifyPosition(price, trigger)
  /\ UNCHANGED <<engineVars, found, carried, brokerVars>>

(* The request is refused, lost, or its target is gone: only logged. *)
ModifyFails ==
  /\ sending # NoRequest
  /\ sending' = NoRequest
  /\ UNCHANGED <<engineVars, found, carried, brokerVars>>

ModifyDone ==
  /\ sending' = NoRequest
  /\ \/ /\ sending.action = "MODIFY" /\ working # NoOrder
        /\ working' = [working EXCEPT !.price = sending.price, !.sl = sending.sl]
        /\ asked' = [asked EXCEPT !.price = Or(sending.named, @)]
        /\ revised' = (revised \/ sending.named # 0)
        /\ UNCHANGED holding
     \/ /\ sending.action = "SLTP" /\ holding # NoPosition
        /\ holding' = [holding EXCEPT !.sl = sending.sl]
        /\ UNCHANGED <<asked, working, revised>>
  /\ UNCHANGED <<told, unheard, found, deals, carried>>

OrderClient ==
  \/ asked = NoOrder /\ \E o \in EngineOrders : SubmitOrder(o)
  \/ \E price, trigger \in PricesOrNone : ModifyReads(price, trigger)
  \/ ModifyFails \/ ModifyDone

(* The provider: instruments are loaded, or the process starts again with  *)
(* others.                                                                 *)
InstrumentsChange ==
  /\ found' = ~found
  /\ UNCHANGED <<engineVars, sending, carried, brokerVars>>

-----------------------------------------------------------------------------
(* The broker, and the user of the terminal. *)

Held == IF holding = NoPosition THEN 0 ELSE holding.volume
Signed(side, volume) == IF side = "BUY" THEN volume ELSE -volume

(* A fill of half the volume; the position takes the order's stop loss. *)
OrderFills ==
  /\ working # NoOrder
  /\ working' = IF working.left = 2 THEN [working EXCEPT !.left = 1] ELSE NoOrder
  /\ holding' = [side |-> working.side, sl |-> working.sl, volume |-> Held + 1]
  /\ deals' = Dealt("order", working.side, 1)
  /\ UNCHANGED <<engineVars, found, sending, carried>>

OrderExpires ==
  /\ working # NoOrder
  /\ working' = NoOrder
  /\ UNCHANGED <<engineVars, found, holding, sending, deals, carried>>

UserSetsStop ==
  /\ holding # NoPosition
  /\ \E p \in Prices : holding' = [holding EXCEPT !.sl = p]
  /\ UNCHANGED <<engineVars, found, working, sending, deals, carried>>

PositionCloses(source) ==
  /\ holding # NoPosition
  /\ holding' = NoPosition
  /\ deals' = Dealt(source, Opposite(holding.side), holding.volume)
  /\ UNCHANGED <<engineVars, found, working, sending, carried>>

(* The instant the fill reports start at, midnight of the local date, is   *)
(* passed: the deals so far are older.                                     *)
WindowStarts ==
  /\ deals' = NoDeals
  /\ carried' = IF holding = NoPosition THEN 0 ELSE Signed(holding.side, holding.volume)
  /\ UNCHANGED <<engineVars, found, working, holding, sending>>

OrderBroker ==
  \/ OrderFills \/ OrderExpires \/ UserSetsStop
  \/ PositionCloses("stop") \/ PositionCloses("hand")
  \/ WindowStarts

OrdersNext == OrderClient \/ InstrumentsChange \/ OrderBroker

OrdersSpec == OrdersInit /\ [][OrdersNext]_orderVars

-----------------------------------------------------------------------------
(* The reports.  generate_order_status_report(s)() *)

(* Mutant: a stop-limit order is not among the buys. *)
ReportedSideForgetful(w) ==
  IF w.side = "BUY" /\ w.type # "STOP_LIMIT" THEN "BUY" ELSE "SELL"

(* The eight pending types are told apart by side ... *)
ReportedSide(w) == w.side

(* ... and a stop-limit order is reported as a stop order. *)
ReportedType(w) ==
  IF w.type = "LIMIT" THEN "LIMIT" ELSE "STOP_MARKET"

Report(w) ==
  [side |-> ReportedSide(w), type |-> ReportedType(w), price |-> w.price,
   tif |-> "GTC", filled |-> 2 - w.left]

(* generate_fill_reports(): one per deal with the magic number of ours,    *)
(* whatever order made it; here the volume of all of one side.  A deal     *)
(* whose instrument is not found is left out ...                           *)
FillReports(side) ==
  IF found THEN deals["order"][side] + deals["stop"][side] ELSE 0

(* ... and so is such a position (generate_position_status_reports()); the *)
(* order reports look no instrument up.                                    *)
PositionReport ==
  IF found /\ holding # NoPosition
    THEN [side |-> holding.side, quantity |-> holding.volume]
    ELSE [side |-> "BUY", quantity |-> 0]

-----------------------------------------------------------------------------
(* Correctness. *)

(* Every variable keeps its type. *)
OrdersTypeOK ==
  /\ asked = NoOrder \/ asked \in OrderType
  /\ told \in {"none", "accepted", "rejected", "silent"}
  /\ unheard \in BOOLEAN
  /\ found \in BOOLEAN
  /\ working = NoOrder \/ working \in WorkingType
  /\ holding = NoPosition \/ holding \in [side : Sides, sl : PricesOrNone,
                                         volume : {1, 2}]
  /\ sending = NoRequest \/ sending \in SendingType
  /\ revised \in BOOLEAN
  /\ deals \in [Sources -> [Sides -> Nat]]
  /\ carried \in -2..2

(* What is at the broker is what the strategy asked for: the working order *)
(* in its side, type and time and in its prices as last revised, and the   *)
(* position in its side; and the engine was told "accepted", unless the    *)
(* broker's answer was lost, when it was told "rejected".  The prices of a *)
(* STOP_LIMIT order are not claimed once it was given a new price, which   *)
(* is sent as its trigger.  (A STOP_MARKET order goes out without a price  *)
(* and a GTD order without an expiration: neither gets as far as this.)    *)
WorksAsAsked ==
  /\ working # NoOrder \/ holding # NoPosition =>
       told = IF unheard THEN "rejected" ELSE "accepted"
  /\ working # NoOrder =>
       /\ working.side = asked.side /\ working.type = PendingType(asked.type)
       /\ working.time = "DAY" <=> asked.tif = "DAY"
       /\ asked.type = "LIMIT" => working.price = asked.price
       /\ asked.type = "STOP_MARKET" => working.price = asked.trigger
       /\ asked.type = "STOP_LIMIT" /\ ~revised =>
            working.price = asked.trigger /\ working.stoplimit = asked.price
  /\ holding # NoPosition => holding.side = asked.side

(* A command changes the stop loss of an open position to one it names, or *)
(* not at all: a stop loss is lost or moved otherwise only when the user   *)
(* set it after the command had read another.                              *)
StopKept ==
  [][holding # NoPosition /\ holding' # NoPosition /\ holding'.sl # holding.sl
       /\ OrderClient =>
         \/ sending.named # 0 /\ holding'.sl = sending.named
         \/ holding.sl # sending.read]_orderVars

(* What a session that has forgotten everything reads back agrees.  The    *)
(* order report says the side, the limit price and the filled volume, and  *)
(* LIMIT for a LIMIT order and no other.  (Of the rest it is not true: a   *)
(* stop-limit order is reported as STOP_MARKET, a DAY order as GTC.)  With *)
(* the instrument found the fill reports add up to the change of the       *)
(* position report, closing deals of the broker included, unless the user  *)
(* dealt by hand.                                                          *)
ReportsTrue ==
  /\ working # NoOrder =>
       LET r == Report(working) IN
       /\ r.side = asked.side
       /\ r.type = "LIMIT" <=> asked.type = "LIMIT"
       /\ asked.type = "LIMIT" => r.price = asked.price
       /\ holding # NoPosition => holding.side = r.side /\ holding.volume <= r.filled
  /\ found /\ deals["hand"] = NoDeals["hand"] =>
       FillReports("BUY") - FillReports("SELL")
         = Signed(PositionReport.side, PositionReport.quantity) - carried

=============================================================================
