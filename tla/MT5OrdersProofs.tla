--------------------------- MODULE MT5OrdersProofs ---------------------------
(***************************************************************************)
(* One order and its position, for every set of prices: what is at the     *)
(* broker is what was asked for, a command changes a stop loss only to the *)
(* one it names, and what is read back agrees.                             *)
(***************************************************************************)
EXTENDS MT5Orders, TLAPS

(* Nothing is at the broker, told or under way before an order was asked   *)
(* for; and of the pending orders only two types ever work.                *)
Issued ==
  /\ asked = NoOrder =>
       /\ working = NoOrder /\ holding = NoPosition
       /\ told = "none" /\ sending = NoRequest /\ unheard = FALSE
  /\ working # NoOrder => asked.type \in {"LIMIT", "STOP_LIMIT"}

(* A modification under way still carries what it read: the order's price, *)
(* which only a modification changes; the stop loss that was read, or the  *)
(* one that was named.                                                     *)
SendingTrue ==
  /\ sending # NoRequest /\ sending.action = "MODIFY" =>
       /\ sending.named # 0 => sending.price = sending.named
       /\ sending.named = 0 /\ working # NoOrder => sending.price = working.price
  /\ sending # NoRequest /\ sending.action = "SLTP" =>
       sending.sl = Or(sending.named, sending.read)

(* The position is what the order has filled, or less. *)
VolumeFits ==
  working # NoOrder /\ holding # NoPosition =>
    holding.side = working.side /\ holding.volume <= 2 - working.left

Net(source) == deals[source]["BUY"] - deals[source]["SELL"]
Position == IF holding = NoPosition THEN 0 ELSE Signed(holding.side, holding.volume)

(* All deals together make the position. *)
DealsMakePosition ==
  Net("order") + Net("stop") + Net("hand") = Position - carried

(* The inductive invariant. *)
OrdersInv ==
  /\ OrdersTypeOK
  /\ Issued
  /\ SendingTrue
  /\ WorksAsAsked
  /\ VolumeFits
  /\ DealsMakePosition

-----------------------------------------------------------------------------
(* What the broker takes of an order of the engine is that order: a        *)
(* LIMIT or a STOP_LIMIT, with its prices in their places.                 *)
LEMMA RequestIsOrder ==
  ASSUME NEW o \in EngineOrders, o.type \in Mapped, Placeable(Request(o))
  PROVE  /\ Request(o) \in WorkingType
         /\ Request(o) # NoOrder
         /\ Request(o).left = 2
         /\ Request(o).side = o.side
         /\ Request(o).type = PendingType(o.type)
         /\ o.type \in {"LIMIT", "STOP_LIMIT"}
         /\ o.type = "LIMIT" => Request(o).price = o.price
         /\ o.type = "STOP_LIMIT" =>
              Request(o).price = o.trigger /\ Request(o).stoplimit = o.price
         /\ Request(o).time = "DAY" <=> o.tif = "DAY"
  <1> USE OrdersAssumption DEF PricesOrNone
  <1>1. /\ o.type \in {"LIMIT", "STOP_LIMIT"}
        /\ o.type = "LIMIT" => o.price \in Prices
        /\ o.type = "STOP_LIMIT" => o.price \in Prices /\ o.trigger \in Prices
    BY DEF EngineOrders, OrderType, Mapped, Placeable, Request
  <1>2. o.side \in Sides /\ o.tif \in TimesInForce
    BY DEF EngineOrders, OrderType
  <1>3. o.tif # "GTD" /\ TimeInForceToMT5(o.tif) = (IF o.tif = "DAY" THEN "DAY" ELSE "GTC")
    BY <1>2 DEF Placeable, Request, TimeInForceToMT5, TimesInForce
  <1>4. Request(o) = [type |-> o.type, side |-> o.side,
                      price |-> IF o.type = "STOP_LIMIT" THEN o.trigger ELSE o.price,
                      stoplimit |-> IF o.type = "STOP_LIMIT" THEN o.price ELSE 0,
                      sl |-> 0, time |-> IF o.tif = "DAY" THEN "DAY" ELSE "GTC",
                      left |-> 2]
    BY <1>1, <1>3 DEF Request, PendingType
  <1>5. QED BY <1>1, <1>2, <1>3, <1>4 DEF WorkingType, NoOrder, PendingType

(* Before the first order all is well. *)
LEMMA OrdersInvInit == OrdersInit => OrdersInv
  <1> SUFFICES ASSUME OrdersInit PROVE OrdersInv
    OBVIOUS
  <1> USE DEF OrdersInit
  <1>1. deals \in [Sources -> [Sides -> Nat]]
    BY DEF NoDeals
  <1>2. OrdersTypeOK
    <2>1. carried \in -2..2 /\ told \in {"none", "accepted", "rejected", "silent"}
      OBVIOUS
    <2>2. revised \in BOOLEAN /\ unheard \in BOOLEAN /\ found \in BOOLEAN
      OBVIOUS
    <2>3. QED BY <1>1, <2>1, <2>2 DEF OrdersTypeOK
  <1>3. DealsMakePosition
    BY DEF DealsMakePosition, Net, Position, NoDeals, Sources, Sides
  <1>4. Issued /\ SendingTrue /\ WorksAsAsked /\ VolumeFits
    BY DEF Issued, SendingTrue, WorksAsAsked, VolumeFits
  <1>5. QED BY <1>2, <1>3, <1>4 DEF OrdersInv

(* What one deal adds to the deals of its source. *)
LEMMA DealtAdds ==
  ASSUME OrdersTypeOK, NEW source \in Sources, NEW side \in Sides,
         NEW volume \in Nat, deals' = Dealt(source, side, volume)
  PROVE  /\ deals' \in [Sources -> [Sides -> Nat]]
         /\ Net(source)' = Net(source) + Signed(side, volume)
         /\ \A s \in Sources \ {source} : Net(s)' = Net(s)
  <1>1. deals'[source] = [deals[source] EXCEPT ![side] = @ + volume]
    BY DEF OrdersTypeOK, Dealt
  <1>2. deals[source] \in [Sides -> Nat]
    BY DEF OrdersTypeOK
  <1>3. deals' \in [Sources -> [Sides -> Nat]]
    BY <1>2 DEF OrdersTypeOK, Dealt
  <1>4. Net(source)' = Net(source) + Signed(side, volume)
    BY <1>1, <1>2 DEF Net, Signed, Sides
  <1>5. \A s \in Sources \ {source} : deals'[s] = deals[s]
    BY DEF OrdersTypeOK, Dealt
  <1>6. QED BY <1>3, <1>4, <1>5 DEF Net

(* The net of a source is a number. *)
LEMMA NetIsInt ==
  ASSUME OrdersTypeOK, NEW s \in Sources
  PROVE  Net(s) \in Int
  BY DEF OrdersTypeOK, Net, Sides

-----------------------------------------------------------------------------
(* Submission. *)
LEMMA SubmitKeeps ==
  ASSUME OrdersInv, asked = NoOrder, NEW o \in EngineOrders, SubmitOrder(o)
  PROVE  OrdersInv'
  <1> USE DEF OrdersInv
  <1>1. /\ working = NoOrder /\ holding = NoPosition /\ sending = NoRequest
        /\ unheard = FALSE /\ sending' = NoRequest /\ asked' = o
        /\ UNCHANGED <<carried, revised, found>>
    BY DEF Issued, SubmitOrder
  <1>2. o \in OrderType /\ o # NoOrder
    BY DEF EngineOrders, OrderType, NoOrder
  <1>3. SendingTrue'
    BY <1>1 DEF SendingTrue
  <1>4. /\ told' \in {"accepted", "rejected", "silent"}
        /\ unheard' \in BOOLEAN /\ found' \in BOOLEAN
    <2>1. told' \in {"accepted", "rejected", "silent"}
      BY DEF SubmitOrder, SubmitAccepted, SubmitUnheard, SubmitRejected,
             SubmitUnsupported
    <2>2. unheard' \in {unheard, TRUE}
      BY DEF SubmitOrder, SubmitAccepted, SubmitUnheard, SubmitRejected,
             SubmitUnsupported
    <2>3. QED BY <1>1, <2>1, <2>2 DEF OrdersTypeOK
  <1>5. SubmitAccepted(o) \/ SubmitUnheard(o) =>
          told' = IF unheard' THEN "rejected" ELSE "accepted"
    <2>1. CASE SubmitAccepted(o)
      <3>1. told' = "accepted" /\ unheard' = FALSE
        BY <1>1, <2>1 DEF SubmitAccepted
      <3>2. QED BY <3>1
    <2>2. CASE SubmitUnheard(o)
      BY <2>2 DEF SubmitUnheard
    <2>3. QED BY <2>1, <2>2
  <1>6. CASE (SubmitAccepted(o) \/ SubmitUnheard(o)) /\ MarketDone(o)
    <2>1. o.side \in Sides
      BY <1>2 DEF OrderType
    <2>2. PICK volume \in {1, 2} :
            /\ holding' = [side |-> o.side, sl |-> 0, volume |-> volume]
            /\ working' = NoOrder
            /\ deals' = Dealt("order", o.side, volume)
      BY <1>1, <1>6 DEF MarketDone
    <2>3. /\ deals' \in [Sources -> [Sides -> Nat]]
          /\ Net("order")' = Net("order") + Signed(o.side, volume)
          /\ Net("stop")' = Net("stop") /\ Net("hand")' = Net("hand")
      BY <2>1, <2>2, DealtAdds DEF Sources
    <2>4. Position = 0 /\ Position' = Signed(o.side, volume)
      BY <1>1, <2>1, <2>2 DEF Position, NoPosition, Sides
    <2>5. /\ Net("order") \in Int /\ Net("stop") \in Int /\ Net("hand") \in Int
          /\ Signed(o.side, volume) \in Int /\ carried \in Int
      BY NetIsInt DEF Sources, Signed, OrdersTypeOK
    <2>6. DealsMakePosition'
      BY <1>1, <2>3, <2>4, <2>5 DEF DealsMakePosition
    <2>7. OrdersTypeOK'
      BY <1>1, <1>2, <1>4, <2>1, <2>2, <2>3 DEF OrdersTypeOK, PricesOrNone
    <2>8. WorksAsAsked'
      BY <1>1, <1>5, <1>6, <2>2 DEF WorksAsAsked
    <2>9. Issued' /\ VolumeFits'
      BY <1>1, <1>2, <2>2 DEF Issued, VolumeFits
    <2>10. QED BY <1>3, <2>6, <2>7, <2>8, <2>9
  <1>7. CASE (SubmitAccepted(o) \/ SubmitUnheard(o)) /\ PendingPlaced(o)
    <2>1. /\ working' = Request(o) /\ holding' = holding /\ deals' = deals
          /\ o.type \in Mapped /\ Placeable(Request(o))
      BY <1>7 DEF PendingPlaced
    <2>2. OrdersTypeOK'
      BY <1>1, <1>2, <1>4, <2>1, RequestIsOrder DEF OrdersTypeOK
    <2>3. WorksAsAsked'
      BY <1>1, <1>5, <1>7, <2>1, RequestIsOrder DEF WorksAsAsked
    <2>4. DealsMakePosition'
      BY <1>1, <2>1 DEF DealsMakePosition, Net, Position
    <2>5. QED BY <1>1, <1>2, <1>3, <2>1, <2>2, <2>3, <2>4, RequestIsOrder
              DEF Issued, VolumeFits
  <1>8. CASE SubmitRejected(o) \/ SubmitUnsupported(o)
    <2>1. UNCHANGED brokerVars
      BY <1>8 DEF SubmitRejected, SubmitUnsupported
    <2>2. OrdersTypeOK'
      BY <1>1, <1>2, <1>4, <2>1 DEF OrdersTypeOK, brokerVars
    <2>3. DealsMakePosition'
      BY <1>1, <2>1 DEF DealsMakePosition, Net, Position, brokerVars
    <2>4. QED BY <1>1, <1>2, <1>3, <2>1, <2>2, <2>3
              DEF Issued, WorksAsAsked, VolumeFits, brokerVars
  <1>9. QED BY <1>6, <1>7, <1>8 DEF SubmitOrder, SubmitAccepted, SubmitUnheard

-----------------------------------------------------------------------------
(* Modification.  What is about to be sent is true when it is read. *)
LEMMA ReadsKeep ==
  ASSUME OrdersInv, NEW price \in PricesOrNone, NEW trigger \in PricesOrNone,
         ModifyReads(price, trigger)
  PROVE  OrdersInv'
  <1> USE OrdersAssumption DEF OrdersInv, PricesOrNone
  <1>1. /\ asked' = asked /\ told' = told /\ working' = working /\ holding' = holding
        /\ deals' = deals /\ carried' = carried /\ revised' = revised
        /\ unheard' = unheard /\ found' = found
        /\ told = "accepted"
    BY DEF ModifyReads, engineVars, brokerVars
  <1>2. asked # NoOrder
    BY <1>1 DEF Issued
  <1>3. (sending' \in SendingType /\ SendingTrue')
    <2>1. CASE ModifyWorking(price, trigger)
      <3>1. /\ working \in WorkingType
            /\ sending' = [action |-> "MODIFY", price |-> Or(price, working.price),
                           sl |-> trigger, named |-> price]
        BY <2>1 DEF ModifyWorking, OrdersTypeOK
      <3>2. working.price \in Prices /\ Or(price, working.price) \in Prices
        BY <3>1 DEF WorkingType, Or
      <3>3. sending' \in SendingType
        BY <3>1, <3>2 DEF SendingType
      <3>4. SendingTrue'
        BY <1>1, <3>1, <3>2 DEF SendingTrue, Or
      <3>5. QED BY <3>3, <3>4
    <2>2. CASE ModifyPosition(price, trigger)
      <3>1. /\ holding \in [side : Sides, sl : PricesOrNone, volume : {1, 2}]
            /\ sending' = [action |-> "SLTP", sl |-> Or(trigger, holding.sl),
                           named |-> trigger, read |-> holding.sl]
        BY <2>2 DEF ModifyPosition, OrdersTypeOK
      <3>2. holding.sl \in PricesOrNone /\ Or(trigger, holding.sl) \in PricesOrNone
        BY <3>1 DEF Or
      <3>3. sending' \in SendingType
        BY <3>1, <3>2 DEF SendingType
      <3>4. SendingTrue'
        BY <3>1 DEF SendingTrue, Or
      <3>5. QED BY <3>3, <3>4
    <2>3. QED BY <2>1, <2>2 DEF ModifyReads
  <1>4. OrdersTypeOK'
    BY <1>1, <1>3 DEF OrdersTypeOK
  <1>5. Issued' /\ WorksAsAsked' /\ VolumeFits'
    BY <1>1, <1>2 DEF Issued, WorksAsAsked, VolumeFits
  <1>6. DealsMakePosition'
    BY <1>1 DEF DealsMakePosition, Net, Position
  <1>7. QED BY <1>3, <1>4, <1>5, <1>6

(* A modification that fails changes nothing else. *)
LEMMA FailKeeps ==
  ASSUME OrdersInv, ModifyFails
  PROVE  OrdersInv'
  <1> USE DEF OrdersInv, ModifyFails, engineVars, brokerVars
  <1>1. OrdersTypeOK'
    BY DEF OrdersTypeOK
  <1>2. Issued' /\ SendingTrue' /\ WorksAsAsked' /\ VolumeFits'
    BY DEF Issued, SendingTrue, WorksAsAsked, VolumeFits
  <1>3. DealsMakePosition'
    BY DEF DealsMakePosition, Net, Position
  <1>4. QED BY <1>1, <1>2, <1>3

(* A modification that arrives. *)
LEMMA DoneKeeps ==
  ASSUME OrdersInv, ModifyDone
  PROVE  OrdersInv'
  <1> USE OrdersAssumption DEF OrdersInv, PricesOrNone
  <1>1. /\ sending' = NoRequest /\ deals' = deals /\ carried' = carried
        /\ told' = told /\ unheard' = unheard /\ found' = found
        /\ SendingTrue'
    BY DEF ModifyDone, SendingTrue
  <1>2. sending # NoRequest /\ sending \in SendingType
    BY DEF ModifyDone, NoRequest, OrdersTypeOK
  <1>3. CASE sending.action = "MODIFY" /\ working # NoOrder /\ holding' = holding
    <2>1. /\ working \in WorkingType /\ asked \in OrderType
          /\ working' = [working EXCEPT !.price = sending.price, !.sl = sending.sl]
          /\ asked' = [asked EXCEPT !.price = Or(sending.named, @)]
          /\ revised' = (revised \/ sending.named # 0)
      BY <1>2, <1>3 DEF ModifyDone, OrdersTypeOK, Issued, NoOrder
    <2>2. sending.price \in Prices /\ sending.sl \in PricesOrNone
          /\ sending.named \in PricesOrNone
      BY <1>2, <1>3 DEF SendingType
    <2>3. /\ working' \in WorkingType /\ working' # NoOrder
          /\ working'.side = working.side /\ working'.type = working.type
          /\ working'.time = working.time /\ working'.left = working.left
          /\ working'.price = sending.price /\ working'.stoplimit = working.stoplimit
      BY <2>1, <2>2 DEF WorkingType, NoOrder
    <2>4. /\ asked' \in OrderType /\ asked' # NoOrder
          /\ asked'.side = asked.side /\ asked'.type = asked.type
          /\ asked'.tif = asked.tif /\ asked'.trigger = asked.trigger
          /\ asked'.price = Or(sending.named, asked.price)
      BY <2>1, <2>2 DEF OrderType, NoOrder, Or
    <2>5. /\ asked.type = "LIMIT" => working'.price = asked'.price
          /\ sending.named = 0 =>
               working'.price = working.price /\ asked'.price = asked.price
      BY <1>2, <1>3, <2>2, <2>3, <2>4 DEF SendingTrue, WorksAsAsked, Or
    <2>6. OrdersTypeOK'
      BY <1>1, <1>3, <2>1, <2>3, <2>4 DEF OrdersTypeOK
    <2>7. WorksAsAsked'
      <3>1. ~revised' => ~revised /\ sending.named = 0
        BY <2>1
      <3>2. asked.type # "STOP_MARKET"
        BY <1>3 DEF Issued
      <3>3. asked'.type = "STOP_LIMIT" /\ ~revised' =>
              working'.price = asked'.trigger /\ working'.stoplimit = asked'.price
        BY <1>3, <2>3, <2>4, <2>5, <3>1 DEF WorksAsAsked
      <3>4. QED BY <1>1, <1>3, <2>1, <2>3, <2>4, <2>5, <3>2, <3>3 DEF WorksAsAsked
    <2>8. Issued' /\ VolumeFits'
      BY <1>3, <2>3, <2>4 DEF Issued, VolumeFits
    <2>9. DealsMakePosition'
      BY <1>1, <1>3 DEF DealsMakePosition, Net, Position
    <2>10. QED BY <1>1, <2>6, <2>7, <2>8, <2>9
  <1>4. CASE sending.action = "SLTP" /\ holding # NoPosition
             /\ UNCHANGED <<asked, working, revised>>
    <2>1. /\ holding \in [side : Sides, sl : PricesOrNone, volume : {1, 2}]
          /\ holding' = [holding EXCEPT !.sl = sending.sl]
      BY <1>2, <1>4 DEF ModifyDone, OrdersTypeOK
    <2>2. sending.sl \in PricesOrNone
      BY <1>2, <1>4 DEF SendingType
    <2>3. /\ holding' \in [side : Sides, sl : PricesOrNone, volume : {1, 2}]
          /\ holding' # NoPosition
          /\ holding'.side = holding.side /\ holding'.volume = holding.volume
      BY <2>1, <2>2 DEF NoPosition, Sides
    <2>4. OrdersTypeOK'
      BY <1>1, <1>4, <2>3 DEF OrdersTypeOK
    <2>5. Issued' /\ WorksAsAsked' /\ VolumeFits'
      BY <1>1, <1>4, <2>3 DEF Issued, WorksAsAsked, VolumeFits
    <2>6. DealsMakePosition'
      BY <1>1, <1>4, <2>3 DEF DealsMakePosition, Net, Position
    <2>7. QED BY <1>1, <2>4, <2>5, <2>6
  <1>5. QED BY <1>3, <1>4 DEF ModifyDone

-----------------------------------------------------------------------------
(* The broker. *)

(* A fill: the position grows by what the order shrinks. *)
LEMMA FillKeeps ==
  ASSUME OrdersInv, OrderFills
  PROVE  OrdersInv'
  <1> USE DEF OrdersInv
  <1>1. /\ working # NoOrder /\ working \in WorkingType
        /\ working' = IF working.left = 2 THEN [working EXCEPT !.left = 1] ELSE NoOrder
        /\ holding' = [side |-> working.side, sl |-> working.sl, volume |-> Held + 1]
        /\ deals' = Dealt("order", working.side, 1)
        /\ UNCHANGED <<asked, told, unheard, found, sending, revised, carried>>
        /\ asked # NoOrder
    BY DEF OrderFills, OrdersTypeOK, Issued, engineVars
  <1>2. /\ working.left \in {1, 2} /\ working.side \in Sides
        /\ working.sl \in PricesOrNone
    BY <1>1 DEF WorkingType
  <1>3. Held \in {0, 1} /\ Held <= 2 - working.left
        /\ (holding # NoPosition => holding.side = working.side)
    <2>1. CASE holding = NoPosition
      BY <1>2, <2>1 DEF Held
    <2>2. CASE holding # NoPosition
      <3>1. holding.volume \in {1, 2}
        BY <2>2 DEF OrdersTypeOK
      <3>2. QED BY <1>1, <1>2, <2>2, <3>1 DEF Held, VolumeFits
    <2>3. QED BY <2>1, <2>2
  <1>4. /\ holding' \in [side : Sides, sl : PricesOrNone, volume : {1, 2}]
        /\ holding' # NoPosition
        /\ holding'.side = working.side /\ holding'.volume = Held + 1
    BY <1>1, <1>2, <1>3 DEF NoPosition, Sides
  <1>5. working' # NoOrder =>
          /\ working.left = 2 /\ working'.left = 1 /\ working' \in WorkingType
          /\ working'.side = working.side /\ working'.type = working.type
          /\ working'.price = working.price /\ working'.time = working.time
          /\ working'.stoplimit = working.stoplimit
    BY <1>1 DEF WorkingType
  <1>6. /\ deals' \in [Sources -> [Sides -> Nat]]
        /\ Net("order")' = Net("order") + Signed(working.side, 1)
        /\ Net("stop")' = Net("stop") /\ Net("hand")' = Net("hand")
    BY <1>1, <1>2, DealtAdds DEF Sources
  <1>7. Position' = Position + Signed(working.side, 1)
    BY <1>1, <1>3, <1>4 DEF Position, Signed, Held
  <1>8. /\ Net("order") \in Int /\ Net("stop") \in Int /\ Net("hand") \in Int
        /\ Signed(working.side, 1) \in Int /\ carried \in Int /\ Position \in Int
    BY NetIsInt DEF Sources, Signed, OrdersTypeOK, Position
  <1>9. DealsMakePosition'
    BY <1>1, <1>6, <1>7, <1>8 DEF DealsMakePosition
  <1>10. OrdersTypeOK'
    BY <1>1, <1>4, <1>5, <1>6 DEF OrdersTypeOK
  <1>11. Issued' /\ SendingTrue'
    BY <1>1, <1>5 DEF Issued, SendingTrue
  <1>12. WorksAsAsked'
    BY <1>1, <1>5 DEF WorksAsAsked
  <1>13. VolumeFits'
    BY <1>3, <1>4, <1>5 DEF VolumeFits
  <1>14. QED BY <1>9, <1>10, <1>11, <1>12, <1>13

(* The order is gone: its position stays. *)
LEMMA ExpireKeeps ==
  ASSUME OrdersInv, OrderExpires
  PROVE  OrdersInv'
  <1> USE DEF OrdersInv, OrderExpires, engineVars
  <1>1. OrdersTypeOK'
    BY DEF OrdersTypeOK
  <1>2. Issued' /\ SendingTrue' /\ WorksAsAsked' /\ VolumeFits'
    BY DEF Issued, SendingTrue, WorksAsAsked, VolumeFits
  <1>3. DealsMakePosition'
    BY DEF DealsMakePosition, Net, Position
  <1>4. QED BY <1>1, <1>2, <1>3

(* The user of the terminal sets a stop loss. *)
LEMMA UserKeeps ==
  ASSUME OrdersInv, UserSetsStop
  PROVE  OrdersInv'
  <1> USE DEF OrdersInv
  <1>1. /\ holding # NoPosition
        /\ holding \in [side : Sides, sl : PricesOrNone, volume : {1, 2}]
        /\ UNCHANGED <<asked, told, unheard, found, working, sending, revised, deals,
                       carried>>
    BY DEF UserSetsStop, OrdersTypeOK, engineVars
  <1>2. /\ holding' \in [side : Sides, sl : PricesOrNone, volume : {1, 2}]
        /\ holding' # NoPosition
        /\ holding'.side = holding.side /\ holding'.volume = holding.volume
    BY <1>1 DEF UserSetsStop, NoPosition, Sides, PricesOrNone
  <1>3. OrdersTypeOK'
    BY <1>1, <1>2 DEF OrdersTypeOK
  <1>4. Issued' /\ SendingTrue' /\ WorksAsAsked' /\ VolumeFits'
    BY <1>1, <1>2 DEF Issued, SendingTrue, WorksAsAsked, VolumeFits
  <1>5. DealsMakePosition'
    BY <1>1, <1>2 DEF DealsMakePosition, Net, Position
  <1>6. QED BY <1>3, <1>4, <1>5

(* The position is closed: its closing deal has the other side. *)
LEMMA CloseKeeps ==
  ASSUME OrdersInv, NEW source \in {"stop", "hand"}, PositionCloses(source)
  PROVE  OrdersInv'
  <1> USE DEF OrdersInv
  <1>1. /\ holding # NoPosition
        /\ holding \in [side : Sides, sl : PricesOrNone, volume : {1, 2}]
        /\ holding' = NoPosition
        /\ deals' = Dealt(source, Opposite(holding.side), holding.volume)
        /\ UNCHANGED <<asked, told, unheard, found, working, sending, revised, carried>>
        /\ asked # NoOrder
    BY DEF PositionCloses, OrdersTypeOK, Issued, engineVars
  <1>2. /\ holding.side \in Sides /\ Opposite(holding.side) \in Sides
        /\ holding.volume \in Nat /\ source \in Sources
    BY <1>1 DEF Opposite, Sides, Sources
  <1>3. /\ deals' \in [Sources -> [Sides -> Nat]]
        /\ Net(source)' = Net(source) + Signed(Opposite(holding.side), holding.volume)
        /\ \A s \in Sources \ {source} : Net(s)' = Net(s)
    BY <1>1, <1>2, DealtAdds
  <1>4. /\ Position' = 0
        /\ Signed(Opposite(holding.side), holding.volume) = 0 - Position
        /\ Position \in Int
    BY <1>1, <1>2 DEF Position, Signed, Opposite, Sides
  <1>5. /\ Net("order") \in Int /\ Net("stop") \in Int /\ Net("hand") \in Int
        /\ carried \in Int
    BY NetIsInt DEF Sources, OrdersTypeOK
  <1>6. Net("order")' + Net("stop")' + Net("hand")'
          = Net("order") + Net("stop") + Net("hand") - Position
    BY <1>3, <1>4, <1>5 DEF Sources
  <1>7. DealsMakePosition'
    BY <1>1, <1>4, <1>5, <1>6 DEF DealsMakePosition
  <1>8. OrdersTypeOK'
    BY <1>1, <1>3 DEF OrdersTypeOK
  <1>9. Issued' /\ SendingTrue' /\ WorksAsAsked' /\ VolumeFits'
    BY <1>1 DEF Issued, SendingTrue, WorksAsAsked, VolumeFits
  <1>10. QED BY <1>7, <1>8, <1>9

(* The reports start anew: the position so far is carried over. *)
LEMMA WindowKeeps ==
  ASSUME OrdersInv, WindowStarts
  PROVE  OrdersInv'
  <1> USE DEF OrdersInv
  <1>1. /\ deals' = NoDeals /\ carried' = Position
        /\ UNCHANGED <<asked, told, unheard, found, working, holding, sending, revised>>
    BY DEF WindowStarts, Position, engineVars
  <1>2. deals' \in [Sources -> [Sides -> Nat]]
    BY <1>1 DEF NoDeals
  <1>3. Position' = Position /\ Position \in -2..2
    BY <1>1 DEF Position, Signed, OrdersTypeOK
  <1>4. Net("order")' = 0 /\ Net("stop")' = 0 /\ Net("hand")' = 0
    BY <1>1 DEF Net, NoDeals, Sources, Sides
  <1>5. DealsMakePosition'
    BY <1>1, <1>3, <1>4 DEF DealsMakePosition
  <1>6. OrdersTypeOK'
    BY <1>1, <1>2, <1>3 DEF OrdersTypeOK
  <1>7. Issued' /\ SendingTrue' /\ WorksAsAsked' /\ VolumeFits'
    BY <1>1 DEF Issued, SendingTrue, WorksAsAsked, VolumeFits
  <1>8. QED BY <1>5, <1>6, <1>7

(* What the provider finds is no part of the order. *)
LEMMA InstrumentsKeep ==
  ASSUME OrdersInv, InstrumentsChange
  PROVE  OrdersInv'
  <1> USE DEF OrdersInv, InstrumentsChange, engineVars, brokerVars
  <1>1. OrdersTypeOK'
    BY DEF OrdersTypeOK
  <1>2. Issued' /\ SendingTrue' /\ WorksAsAsked' /\ VolumeFits'
    BY DEF Issued, SendingTrue, WorksAsAsked, VolumeFits
  <1>3. DealsMakePosition'
    BY DEF DealsMakePosition, Net, Position
  <1>4. QED BY <1>1, <1>2, <1>3

(* A step that changes nothing of the order. *)
LEMMA OrderStutters ==
  ASSUME OrdersInv, UNCHANGED orderVars
  PROVE  OrdersInv'
  <1> USE DEF OrdersInv, orderVars, engineVars, brokerVars
  <1>1. OrdersTypeOK'
    BY DEF OrdersTypeOK
  <1>2. Issued' /\ SendingTrue' /\ WorksAsAsked' /\ VolumeFits'
    BY DEF Issued, SendingTrue, WorksAsAsked, VolumeFits
  <1>3. DealsMakePosition'
    BY DEF DealsMakePosition, Net, Position
  <1>4. QED BY <1>1, <1>2, <1>3

LEMMA OrdersInvStep == OrdersInv /\ [OrdersNext]_orderVars => OrdersInv'
  BY SubmitKeeps, ReadsKeep, FailKeeps, DoneKeeps, FillKeeps, ExpireKeeps, UserKeeps,
     CloseKeeps, WindowKeeps, InstrumentsKeep, OrderStutters
     DEF OrdersNext, OrderClient, OrderBroker

LEMMA OrdersInvAlways == OrdersSpec => []OrdersInv
  BY OrdersInvInit, OrdersInvStep, PTL DEF OrdersSpec

-----------------------------------------------------------------------------
(* What the invariant says of the properties. *)

StopStays ==
  holding # NoPosition /\ holding' # NoPosition /\ holding'.sl # holding.sl
    /\ OrderClient =>
      \/ sending.named # 0 /\ holding'.sl = sending.named
      \/ holding.sl # sending.read

LEMMA StopStep == OrdersInv => StopStays
  <1> SUFFICES ASSUME OrdersInv, holding # NoPosition, holding'.sl # holding.sl,
                      OrderClient
               PROVE  \/ sending.named # 0 /\ holding'.sl = sending.named
                      \/ holding.sl # sending.read
    BY DEF StopStays
  <1>1. asked # NoOrder
    BY DEF OrdersInv, Issued
  <1>2. ~ModifyFails /\ ~(\E price, trigger \in PricesOrNone : ModifyReads(price, trigger))
    BY DEF ModifyFails, ModifyReads, brokerVars
  <1>3. ModifyDone
    BY <1>1, <1>2 DEF OrderClient
  <1>4. sending.action = "SLTP" /\ holding' = [holding EXCEPT !.sl = sending.sl]
    BY <1>3 DEF ModifyDone
  <1>5. holding'.sl = sending.sl /\ sending # NoRequest
    BY <1>4 DEF OrdersInv, OrdersTypeOK, NoRequest
  <1>6. sending.sl = Or(sending.named, sending.read)
    BY <1>4, <1>5 DEF OrdersInv, SendingTrue
  <1>7. QED BY <1>5, <1>6 DEF Or

LEMMA ReportsHold == OrdersInv => ReportsTrue
  <1> SUFFICES ASSUME OrdersInv PROVE ReportsTrue
    OBVIOUS
  <1> USE DEF OrdersInv
  <1>1. ASSUME working # NoOrder
        PROVE  LET r == Report(working) IN
               /\ r.side = asked.side
               /\ r.type = "LIMIT" <=> asked.type = "LIMIT"
               /\ asked.type = "LIMIT" => r.price = asked.price
               /\ holding # NoPosition =>
                    holding.side = r.side /\ holding.volume <= r.filled
    BY <1>1 DEF WorksAsAsked, VolumeFits, Report, ReportedSide, ReportedType, PendingType
  <1>2. ASSUME found, deals["hand"] = NoDeals["hand"]
        PROVE  FillReports("BUY") - FillReports("SELL")
                 = Signed(PositionReport.side, PositionReport.quantity) - carried
    <2>1. Net("hand") = 0
      BY <1>2 DEF Net, NoDeals, Sources, Sides
    <2>2. Signed(PositionReport.side, PositionReport.quantity) = Position
      BY <1>2 DEF PositionReport, Position, Signed
    <2>3. \A s \in Sources, d \in Sides : deals[s][d] \in Nat
      BY DEF OrdersTypeOK
    <2>4. FillReports("BUY") - FillReports("SELL") = Net("order") + Net("stop")
      BY <1>2, <2>3 DEF FillReports, Net, Sources, Sides
    <2>5. Net("order") \in Int /\ Net("stop") \in Int
      BY NetIsInt DEF Sources
    <2>6. QED BY <2>1, <2>2, <2>4, <2>5 DEF DealsMakePosition
  <1>3. QED BY <1>1, <1>2 DEF ReportsTrue

-----------------------------------------------------------------------------
(* The theorems. *)

(* Type correctness; the reported position is never more than the order.   *)
THEOREM OrdersTypeCorrect == OrdersSpec => []OrdersTypeOK
  <1>1. OrdersInv => OrdersTypeOK
    BY DEF OrdersInv
  <1>2. QED BY <1>1, OrdersInvAlways, PTL

(* What is at the broker is what the strategy asked for, and was accepted  *)
(* unless the broker's answer was lost, through lost answers, partial      *)
(* executions and fills and all modifications; the prices of a STOP_LIMIT  *)
(* order only until one of them is modified.                               *)
THEOREM OrderWorksAsAsked == OrdersSpec => []WorksAsAsked
  <1>1. OrdersInv => WorksAsAsked
    BY DEF OrdersInv
  <1>2. QED BY <1>1, OrdersInvAlways, PTL

(* A command changes the stop loss of an open position to the one it       *)
(* names; one that names none leaves it, unless the user set it after the  *)
(* command had read another.                                               *)
THEOREM StopLossKept == OrdersSpec => StopKept
  <1>1. OrdersInv => [StopStays]_orderVars
    BY StopStep
  <1>2. QED BY <1>1, OrdersInvAlways, PTL DEF StopKept, StopStays

(* What a session reads back agrees: the order report with the order asked *)
(* for, and the fill reports with the position report once the instrument  *)
(* is found.                                                               *)
THEOREM ReportsAreTrue == OrdersSpec => []ReportsTrue
  BY ReportsHold, OrdersInvAlways, PTL

=============================================================================
