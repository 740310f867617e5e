------------------------- MODULE MT5ExecutionProofs -------------------------
(***************************************************************************)
(* Safety of the execution client for every set of client orders, every    *)
(* number of tickets, deals, days, outages and restarts: fills are         *)
(* reported once and under the right order, and the client implements the  *)
(* abstract ledger of fills.                                               *)
(***************************************************************************)
EXTENDS MT5Execution, SequenceTheorems, TLAPS

(* Whatever the maps and the history mention was issued before. *)
TicketsKnown ==
  /\ \A t \in Tickets : orderOf[t] # NoOrder => t <= issued
  /\ \A t \in Tickets : creator[t] # NoOrder => t <= issued
  /\ \A d \in DOMAIN deals : deals[d].order <= issued

(* The reverse map tells who really caused the ticket. *)
MapsTruthful ==
  \A t \in Tickets : orderOf[t] # NoOrder => creator[t] = orderOf[t]

(* An order that was not submitted yet is known to nobody. *)
UnsubmittedUnknown ==
  \A o \in Orders : status[o] = "none" =>
    ticketOf[o] = NoTicket /\ \A t \in Tickets : creator[t] # o

(* Only deals in the history are reported, and only those with an order. *)
ReportedExist ==
  \A d \in Deals : reported[d] > 0 =>
    d \in DOMAIN deals /\ deals[d].order \in Tickets

(* A reported deal is marked, or its order is forgotten together with the  *)
(* mark: why a second session cannot report it again.                      *)
ReportedForgotten ==
  \A d \in Deals : reported[d] > 0 /\ ~IsExternal(d) =>
    d \in processed \/ orderOf[deals[d].order] = NoOrder

(* The inductive invariant: types, what is said about orders and tickets,  *)
(* and what is said about reports.                                         *)
OrdersInv ==
  /\ TicketsKnown
  /\ MapsTruthful
  /\ MapsInverse
  /\ UnsubmittedUnknown
  /\ RejectedHasNoExposure

ReportsInv ==
  /\ ReportedExist
  /\ ReportedForgotten
  /\ EmittedOnce
  /\ FillsRightOrder

ExecInv == ExecTypeOK /\ OrdersInv /\ ReportsInv

-----------------------------------------------------------------------------
(* The types of the broker's books. *)
BooksOK ==
  /\ issued \in Tickets
  /\ mine \subseteq Tickets
  /\ pending \subseteq 1..issued /\ positions \subseteq 1..issued
  /\ deals \in Seq(DealType) /\ Len(deals) <= MaxDeals
  /\ day \in 1..MaxDay
  /\ creator \in [Tickets -> Orders \cup {NoOrder}]

(* The deal history grows at its end and keeps what it holds. *)
LEMMA DealsGrow ==
  ASSUME deals \in Seq(DealType), NEW r \in DealType, CanDeal, deals' = Append(deals, r)
  PROVE  /\ deals' \in Seq(DealType)
         /\ Len(deals') = Len(deals) + 1
         /\ Len(deals') <= MaxDeals
         /\ DOMAIN deals' = DOMAIN deals \cup {Len(deals) + 1}
         /\ \A d \in DOMAIN deals : deals'[d] = deals[d]
         /\ deals'[Len(deals) + 1] = r
  <1>1. /\ deals' \in Seq(DealType)
        /\ Len(deals') = Len(deals) + 1
        /\ \A i \in 1..Len(deals) : deals'[i] = deals[i]
        /\ deals'[Len(deals) + 1] = r
    BY AppendProperties
  <1>2. DOMAIN deals = 1..Len(deals) /\ DOMAIN deals' = 1..Len(deals')
    BY <1>1
  <1>3. Len(deals) \in Nat
    OBVIOUS
  <1>4. 1..(Len(deals) + 1) = 1..Len(deals) \cup {Len(deals) + 1}
    BY <1>3
  <1>5. Len(deals') <= MaxDeals
    BY <1>1, <1>3, ExecutionAssumption DEF CanDeal, ExecutionAssumption
  <1>6. QED BY <1>1, <1>2, <1>4, <1>5

(* Every deal of the history has a number. *)
LEMMA HistoryIsBounded ==
  ASSUME BooksOK'
  PROVE  DOMAIN deals' \subseteq Deals
  <1>1. DOMAIN deals' = 1..Len(deals') /\ Len(deals') \in Nat /\ Len(deals') <= MaxDeals
    BY DEF BooksOK
  <1>2. QED BY <1>1, ExecutionAssumption DEF ExecutionAssumption, Deals

(* What a deal's record is made of. *)
LEMMA DealIsTyped ==
  ASSUME day \in 1..MaxDay,
         NEW t \in Tickets \cup {NoTicket}, NEW p \in Tickets \cup {NoTicket},
         NEW kind \in {"open", "close", "balance"}, NEW own \in BOOLEAN
  PROVE  Deal(t, p, kind, own) \in DealType /\ Deal(t, p, kind, own).order = t
  BY DEF Deal, DealType

(* What a broker step without a request of ours does to the ledger. *)
BrokerGrows ==
  /\ issued' \in {issued, issued + 1}
  /\ creator' = creator
  /\ \/ deals' = deals
     \/ \E r \in DealType : r.order <= issued' /\ CanDeal /\ deals' = Append(deals, r)

LEMMA ClosePositionGrows ==
  ASSUME BooksOK, day' = day, NEW t, ClosePosition(t)
  PROVE  BooksOK' /\ BrokerGrows
  <1> USE ExecutionAssumption DEF ExecutionAssumption, Tickets
  <1>1. issued + 1 \in Tickets /\ t \in Tickets
    BY DEF ClosePosition, CanIssue, BooksOK
  <1>2. (t \in mine) \in BOOLEAN
    OBVIOUS
  <1> DEFINE r == Deal(issued + 1, t, "close", t \in mine)
  <1>3. r \in DealType /\ r.order = issued + 1
    BY <1>1, <1>2, DealIsTyped DEF BooksOK
  <1>4. deals' = Append(deals, r) /\ CanDeal /\ issued' = issued + 1 /\ creator' = creator
    BY DEF ClosePosition
  <1> HIDE DEF r
  <1>5. deals' \in Seq(DealType) /\ Len(deals') <= MaxDeals
    BY <1>3, <1>4, DealsGrow DEF BooksOK
  <1>6. pending' \subseteq 1..issued' /\ positions' \subseteq 1..issued'
    BY <1>1, <1>4 DEF BooksOK, ClosePosition
  <1>7. mine' \subseteq Tickets
    BY <1>1 DEF BooksOK, ClosePosition
  <1>8. BooksOK'
    BY <1>1, <1>4, <1>5, <1>6, <1>7 DEF BooksOK
  <1>9. r.order <= issued'
    BY <1>1, <1>3, <1>4
  <1>10. QED BY <1>3, <1>4, <1>8, <1>9 DEF BrokerGrows

LEMMA BrokerFillsGrows ==
  ASSUME BooksOK, day' = day, NEW t \in pending, BrokerFills(t)
  PROVE  BooksOK' /\ BrokerGrows
  <1> USE ExecutionAssumption DEF ExecutionAssumption, Tickets
  <1>1. t \in Tickets /\ t <= issued
    BY DEF BooksOK
  <1>2. (t \in mine) \in BOOLEAN
    OBVIOUS
  <1> DEFINE r == Deal(t, t, "open", t \in mine)
  <1>3. r \in DealType /\ r.order = t
    BY <1>1, <1>2, DealIsTyped DEF BooksOK
  <1>4. deals' = Append(deals, r) /\ CanDeal /\ issued' = issued /\ creator' = creator
    BY DEF BrokerFills
  <1> HIDE DEF r
  <1>5. deals' \in Seq(DealType) /\ Len(deals') <= MaxDeals
    BY <1>3, <1>4, DealsGrow DEF BooksOK
  <1>6. pending' \subseteq 1..issued' /\ positions' \subseteq 1..issued'
    BY <1>1, <1>4 DEF BooksOK, BrokerFills
  <1>7. BooksOK'
    BY <1>4, <1>5, <1>6 DEF BooksOK, BrokerFills
  <1>8. QED BY <1>1, <1>3, <1>4, <1>7 DEF BrokerGrows

LEMMA BrokerBooksGrows ==
  ASSUME BooksOK, day' = day, BrokerBooks
  PROVE  BooksOK' /\ BrokerGrows
  <1> USE ExecutionAssumption DEF ExecutionAssumption, Tickets
  <1> DEFINE r == Deal(NoTicket, NoTicket, "balance", TRUE)
  <1>1. r \in DealType /\ r.order = NoTicket
    BY DealIsTyped DEF BooksOK
  <1>2. deals' = Append(deals, r) /\ CanDeal /\ issued' = issued /\ creator' = creator
    BY DEF BrokerBooks
  <1> HIDE DEF r
  <1>3. deals' \in Seq(DealType) /\ Len(deals') <= MaxDeals
    BY <1>1, <1>2, DealsGrow DEF BooksOK
  <1>4. BooksOK'
    BY <1>2, <1>3 DEF BooksOK, BrokerBooks
  <1>5. r.order <= issued'
    BY <1>1, <1>2 DEF NoTicket, BooksOK
  <1>6. QED BY <1>1, <1>2, <1>4, <1>5 DEF BrokerGrows

(* A request of ours that the broker carries out takes the next ticket. *)
LEMMA RequestGrows ==
  ASSUME BooksOK, day' = day, NEW o \in Orders, OpenPosition(o) \/ PlacePending(o)
  PROVE  /\ BooksOK'
         /\ issued + 1 \in Tickets /\ issued' = issued + 1
         /\ creator' = [creator EXCEPT ![issued + 1] = o]
         /\ \/ deals' = deals
            \/ \E r \in DealType : /\ r.order <= issued' /\ CanDeal
                                  /\ deals' = Append(deals, r)
  <1> USE ExecutionAssumption DEF ExecutionAssumption, Tickets
  <1>1. issued + 1 \in Tickets /\ issued' = issued + 1
    <2>1. CanIssue /\ issued' = issued + 1
      BY DEF OpenPosition, PlacePending
    <2>2. QED BY <2>1 DEF CanIssue, BooksOK
  <1>2. creator' = [creator EXCEPT ![issued + 1] = o]
    BY DEF OpenPosition, PlacePending
  <1>3. creator' \in [Tickets -> Orders \cup {NoOrder}]
    BY <1>2 DEF BooksOK
  <1>4. /\ pending' \subseteq 1..issued' /\ positions' \subseteq 1..issued'
        /\ mine' \subseteq Tickets
    <2>1. /\ mine' = mine \cup {issued + 1}
          /\ \/ pending' = pending /\ positions' = positions \cup {issued + 1}
             \/ pending' = pending \cup {issued + 1} /\ positions' = positions
      BY DEF OpenPosition, PlacePending
    <2>2. 1..issued \subseteq 1..(issued + 1) /\ issued + 1 \in 1..(issued + 1)
      BY DEF BooksOK
    <2>3. pending \subseteq 1..issued /\ positions \subseteq 1..issued /\ mine \subseteq Tickets
      BY DEF BooksOK
    <2>4. mine' \subseteq Tickets
      BY <1>1, <2>1, <2>3
    <2>5. pending' \subseteq 1..(issued + 1) /\ positions' \subseteq 1..(issued + 1)
      BY <2>1, <2>2, <2>3
    <2>6. QED BY <1>1, <2>4, <2>5
  <1>5. CASE OpenPosition(o)
    <2> DEFINE r == Deal(issued + 1, issued + 1, "open", TRUE)
    <2>1. r \in DealType /\ r.order = issued + 1
      <3>1. day \in 1..MaxDay /\ issued + 1 \in Tickets \cup {NoTicket}
        BY <1>1 DEF BooksOK
      <3>2. "open" \in {"open", "close", "balance"} /\ TRUE \in BOOLEAN
        OBVIOUS
      <3>3. QED BY <3>1, <3>2, DealIsTyped
    <2>2. deals' = Append(deals, r) /\ CanDeal
      BY <1>5 DEF OpenPosition
    <2> HIDE DEF r
    <2>3. deals' \in Seq(DealType) /\ Len(deals') <= MaxDeals
      BY <2>1, <2>2, DealsGrow DEF BooksOK
    <2>4. BooksOK'
      BY <1>1, <1>3, <1>4, <2>3 DEF BooksOK
    <2>5. r.order <= issued'
      BY <1>1, <2>1
    <2>6. QED BY <1>1, <1>2, <2>1, <2>2, <2>4, <2>5
  <1>6. CASE PlacePending(o)
    <2>1. deals' = deals
      BY <1>6 DEF PlacePending
    <2>2. BooksOK'
      BY <1>1, <1>3, <1>4, <2>1 DEF BooksOK
    <2>3. QED BY <1>1, <1>2, <2>1, <2>2
  <1>7. QED BY <1>5, <1>6

-----------------------------------------------------------------------------
(* The history keeps every deal, and knows issued tickets only. *)
DealsKept ==
  /\ \A d \in DOMAIN deals : d \in DOMAIN deals' /\ deals'[d] = deals[d]
  /\ \A d \in DOMAIN deals' : deals'[d].order <= issued'

LEMMA HistoryIsKept ==
  ASSUME BooksOK, BooksOK', TicketsKnown, issued' \in {issued, issued + 1},
         \/ deals' = deals
         \/ \E r \in DealType : /\ r.order <= issued' /\ CanDeal
                               /\ deals' = Append(deals, r)
  PROVE  DealsKept
  <1> USE ExecutionAssumption DEF ExecutionAssumption, Tickets
  <1>1. \A d \in DOMAIN deals : deals[d].order <= issued'
    <2>1. ASSUME NEW d \in DOMAIN deals PROVE deals[d].order <= issued'
      <3>1. deals[d] \in DealType
        BY DEF BooksOK
      <3>2. deals[d].order \in Int
        BY <3>1 DEF DealType, NoTicket
      <3>3. issued \in Int /\ issued <= issued'
        BY DEF BooksOK
      <3>4. deals[d].order <= issued
        BY DEF TicketsKnown
      <3>5. QED BY <3>2, <3>3, <3>4 DEF BooksOK
    <2>2. QED BY <2>1
  <1>2. CASE deals' = deals
    BY <1>1, <1>2 DEF DealsKept
  <1>3. ASSUME NEW r \in DealType, r.order <= issued', CanDeal, deals' = Append(deals, r)
        PROVE  DealsKept
    <2>1. /\ DOMAIN deals' = DOMAIN deals \cup {Len(deals) + 1}
          /\ \A d \in DOMAIN deals : deals'[d] = deals[d]
          /\ deals'[Len(deals) + 1] = r
      BY <1>3, DealsGrow DEF BooksOK
    <2>2. \A d \in DOMAIN deals' : deals'[d].order <= issued'
      BY <1>1, <1>3, <2>1
    <2>3. QED BY <2>1, <2>2 DEF DealsKept
  <1>4. QED BY <1>2, <1>3

(* The maps and the history of causes agree with the old ones on every     *)
(* ticket that was issued before the step.                                 *)
OldTicketsKept ==
  \A t \in Tickets : t <= issued => orderOf'[t] = orderOf[t] /\ creator'[t] = creator[t]

(* What is known of the reports survives every step that reports nothing   *)
(* and forgets nothing.                                                    *)
LEMMA ReportsKept ==
  ASSUME ReportsInv, TicketsKnown, BooksOK', DealsKept, OldTicketsKept,
         UNCHANGED <<reported, reportedAs, processed>>
  PROVE  ReportsInv'
  <1>1. ReportedExist'
    BY DEF ReportsInv, ReportedExist, DealsKept
  <1>2. ASSUME NEW d \in DOMAIN deals
        PROVE  deals'[d] = deals[d] /\ (IsExternal(d)' <=> IsExternal(d))
    BY DEF DealsKept, IsExternal
  <1>3. ASSUME NEW d \in Deals, reported[d] > 0
        PROVE  /\ d \in DOMAIN deals /\ deals[d].order \in Tickets
               /\ orderOf'[deals[d].order] = orderOf[deals[d].order]
               /\ creator'[deals[d].order] = creator[deals[d].order]
    <2>1. d \in DOMAIN deals /\ deals[d].order \in Tickets
      BY <1>3 DEF ReportsInv, ReportedExist
    <2>2. deals[d].order <= issued
      BY <2>1 DEF TicketsKnown
    <2>3. QED BY <2>1, <2>2 DEF OldTicketsKept
  <1>4. ReportedForgotten'
    <2>1. ASSUME NEW d \in Deals, reported'[d] > 0, ~IsExternal(d)'
          PROVE  d \in processed' \/ orderOf'[deals'[d].order] = NoOrder
      <3>1. reported[d] > 0
        BY <2>1
      <3>2. d \in DOMAIN deals /\ orderOf'[deals[d].order] = orderOf[deals[d].order]
        BY <1>3, <3>1
      <3>3. ~IsExternal(d) /\ deals'[d] = deals[d]
        BY <1>2, <2>1, <3>2
      <3>4. d \in processed \/ orderOf[deals[d].order] = NoOrder
        BY <3>1, <3>3 DEF ReportsInv, ReportedForgotten
      <3>5. QED BY <3>2, <3>3, <3>4
    <2>2. QED BY <2>1 DEF ReportedForgotten
  <1>5. EmittedOnce'
    <2>1. ASSUME NEW d \in Deals PROVE IsExternal(d)' \/ reported'[d] <= 1
      <3>1. CASE d \in DOMAIN deals
        BY <1>2, <3>1 DEF ReportsInv, EmittedOnce
      <3>2. CASE d \notin DOMAIN deals
        BY <3>2 DEF ReportsInv, EmittedOnce, IsExternal
      <3>3. QED BY <3>1, <3>2
    <2>2. QED BY <2>1 DEF EmittedOnce
  <1>6. FillsRightOrder'
    <2>1. ASSUME NEW d \in DOMAIN deals', reported'[d] > 0, ~IsExternal(d)'
          PROVE  reportedAs'[d] = creator'[deals'[d].order]
      <3>1. d \in Deals /\ reported[d] > 0
        BY <2>1, HistoryIsBounded
      <3>2. d \in DOMAIN deals /\ creator'[deals[d].order] = creator[deals[d].order]
        BY <1>3, <2>1, <3>1
      <3>3. ~IsExternal(d) /\ deals'[d] = deals[d]
        BY <1>2, <2>1, <3>2
      <3>4. reportedAs[d] = creator[deals[d].order]
        BY <3>1, <3>2, <3>3 DEF ReportsInv, FillsRightOrder
      <3>5. QED BY <3>2, <3>3, <3>4
    <2>2. QED BY <2>1 DEF FillsRightOrder
  <1>7. QED BY <1>1, <1>4, <1>5, <1>6 DEF ReportsInv

(* So does what is known of the orders, when the broker acts by itself. *)
LEMMA OrdersKept ==
  ASSUME OrdersInv, ExecTypeOK, BooksOK', BrokerGrows, DealsKept,
         UNCHANGED <<ticketOf, orderOf, status, unheard>>
  PROVE  OrdersInv'
  <1>1. creator' = creator /\ issued <= issued' /\ issued \in Int /\ issued' \in Int
    BY DEF BrokerGrows, ExecTypeOK, BooksOK, Tickets
  <1>2. TicketsKnown'
    <2>1. \A t \in Tickets : orderOf'[t] # NoOrder => t <= issued'
      BY <1>1 DEF OrdersInv, TicketsKnown, Tickets
    <2>2. \A t \in Tickets : creator'[t] # NoOrder => t <= issued'
      BY <1>1 DEF OrdersInv, TicketsKnown, Tickets
    <2>3. QED BY <2>1, <2>2 DEF TicketsKnown, DealsKept
  <1>3. MapsTruthful' /\ MapsInverse' /\ UnsubmittedUnknown' /\ RejectedHasNoExposure'
    BY <1>1 DEF OrdersInv, MapsTruthful, MapsInverse, UnsubmittedUnknown,
                RejectedHasNoExposure
  <1>4. QED BY <1>2, <1>3 DEF OrdersInv

(* The types of everything that is not in the broker's books. *)
ClientOK ==
  /\ mt5 \in {"up", "mute", "refused"}
  /\ pc \in Places
  /\ target \subseteq Tickets
  /\ polling \in BOOLEAN
  /\ processed \subseteq DOMAIN deals
  /\ ticketOf \in [Orders -> Tickets \cup {NoTicket}]
  /\ orderOf \in [Tickets -> Orders \cup {NoOrder}]
  /\ status \in [Orders -> Statuses]
  /\ venueId \in [Orders -> Tickets \cup {NoTicket}]
  /\ reported \in [Deals -> Nat]
  /\ reportedAs \in [Deals -> Orders \cup {NoOrder}]
  /\ unheard \subseteq Orders
  /\ dropped \subseteq DOMAIN deals
  /\ flaps \in 0..MaxFlaps
  /\ restarts \in 0..MaxRestarts

LEMMA TypeParts == ExecTypeOK <=> BooksOK /\ ClientOK
  BY DEF ExecTypeOK, BooksOK, ClientOK

(* A step in which the broker may act and the client learns and forgets    *)
(* nothing: every step but a submission, a disconnect and a poll.          *)
Quiet ==
  /\ BooksOK' /\ BrokerGrows
  /\ UNCHANGED <<processed, ticketOf, orderOf, engineVars, faultVars>>

(* The types of the variables a quiet step may still change. *)
PlaceOK ==
  /\ mt5 \in {"up", "mute", "refused"}
  /\ pc \in Places
  /\ target \subseteq Tickets
  /\ polling \in BOOLEAN
  /\ flaps \in 0..MaxFlaps
  /\ restarts \in 0..MaxRestarts

LEMMA QuietKeeps == ExecInv /\ Quiet /\ PlaceOK' => ExecInv'
  <1> SUFFICES ASSUME ExecInv, Quiet, PlaceOK' PROVE ExecInv'
    OBVIOUS
  <1>1. BooksOK /\ ClientOK /\ TicketsKnown /\ ExecTypeOK
    BY TypeParts DEF ExecInv, OrdersInv
  <1>2. DealsKept
    BY <1>1, HistoryIsKept DEF Quiet, BrokerGrows
  <1>3. OldTicketsKept
    BY DEF Quiet, BrokerGrows, OldTicketsKept
  <1>4. ReportsInv'
    BY <1>1, <1>2, <1>3, ReportsKept DEF ExecInv, Quiet, engineVars
  <1>5. OrdersInv'
    BY <1>1, <1>2, OrdersKept DEF ExecInv, Quiet, engineVars, faultVars
  <1>6. processed' \subseteq DOMAIN deals' /\ dropped' \subseteq DOMAIN deals'
    BY <1>1, <1>2 DEF ClientOK, DealsKept, Quiet, faultVars
  <1>7. ClientOK'
    BY <1>1, <1>6 DEF ClientOK, PlaceOK, Quiet, engineVars, faultVars
  <1>8. ExecTypeOK'
    BY <1>7, TypeParts DEF Quiet, ExecTypeOK, BooksOK, ClientOK
  <1>9. QED BY <1>4, <1>5, <1>8 DEF ExecInv

-----------------------------------------------------------------------------
(* The broker's books at rest, whatever the calendar says. *)
LEMMA BooksRest ==
  ASSUME BooksOK, UNCHANGED brokerVars, day' \in 1..MaxDay
  PROVE  BooksOK' /\ BrokerGrows
  <1>1. BooksOK'
    BY DEF BooksOK, brokerVars
  <1>2. QED BY <1>1 DEF BrokerGrows, brokerVars

(* Orders leave the book without a deal. *)
LEMMA PendingShrinks ==
  ASSUME BooksOK, day' = day, pending' \subseteq pending,
         UNCHANGED <<issued, mine, creator, positions, deals>>
  PROVE  BooksOK' /\ BrokerGrows
  <1>1. BooksOK'
    BY DEF BooksOK
  <1>2. QED BY <1>1 DEF BrokerGrows

LEMMA BrokerStepKeeps == ExecInv /\ BrokerStep => ExecInv'
  <1> SUFFICES ASSUME ExecInv, BrokerStep PROVE ExecInv'
    OBVIOUS
  <1>1. BooksOK /\ ClientOK
    BY TypeParts DEF ExecInv
  <1>2. /\ UNCHANGED <<processed, ticketOf, orderOf, engineVars, faultVars>>
        /\ UNCHANGED <<polling, day, mt5, flaps, restarts, pc, target>>
    BY DEF BrokerStep, clientVars, boundVars
  <1>3. PlaceOK'
    BY <1>1, <1>2 DEF ClientOK, PlaceOK
  <1>4. BooksOK' /\ BrokerGrows
    <2>1. ASSUME NEW t \in pending, BrokerFills(t) PROVE BooksOK' /\ BrokerGrows
      BY <1>1, <1>2, <2>1, BrokerFillsGrows
    <2>2. ASSUME NEW t \in pending, BrokerExpires(t) PROVE BooksOK' /\ BrokerGrows
      BY <1>1, <1>2, <2>2, PendingShrinks DEF BrokerExpires
    <2>3. ASSUME NEW t \in positions, ClosePosition(t) PROVE BooksOK' /\ BrokerGrows
      BY <1>1, <1>2, <2>3, ClosePositionGrows
    <2>4. CASE BrokerBooks
      BY <1>1, <1>2, <2>4, BrokerBooksGrows
    <2>5. QED BY <2>1, <2>2, <2>3, <2>4 DEF BrokerStep
  <1>5. QED BY <1>2, <1>3, <1>4, QuietKeeps DEF Quiet

(* Midnight, an outage and its end. *)
LEMMA WorldKeeps == ExecInv /\ (Midnight \/ MT5Fails \/ MT5Recovers) => ExecInv'
  <1> SUFFICES ASSUME ExecInv, Midnight \/ MT5Fails \/ MT5Recovers PROVE ExecInv'
    OBVIOUS
  <1>1. BooksOK /\ ClientOK
    BY TypeParts DEF ExecInv
  <1>2. /\ UNCHANGED <<processed, ticketOf, orderOf, engineVars, faultVars>>
        /\ UNCHANGED brokerVars /\ UNCHANGED <<polling, restarts, pc, target>>
    BY DEF Midnight, MT5Fails, MT5Recovers, clientVars
  <1>3. day' \in 1..MaxDay
    BY <1>1, ExecutionAssumption
       DEF ExecutionAssumption, BooksOK, Midnight, MT5Fails, MT5Recovers
  <1>4. mt5' \in {"up", "mute", "refused"} /\ flaps' \in 0..MaxFlaps
    BY <1>1, ExecutionAssumption
       DEF ExecutionAssumption, ClientOK, Midnight, MT5Fails, MT5Recovers
  <1>5. PlaceOK'
    BY <1>1, <1>2, <1>4 DEF ClientOK, PlaceOK
  <1>6. QED BY <1>1, <1>2, <1>3, <1>5, BooksRest, QuietKeeps DEF Quiet

(* _connect(), and every part of the cancel handlers: whatever the broker  *)
(* did since their look-ups, and whether or not it does what they ask.     *)
LEMMA CommandKeeps ==
  ExecInv /\ (Connect \/ CancelAll \/ Continue \/ \E o \in Orders : Cancel(o)) => ExecInv'
  <1> SUFFICES ASSUME ExecInv,
                      Connect \/ CancelAll \/ Continue \/ \E o \in Orders : Cancel(o)
               PROVE  ExecInv'
    OBVIOUS
  <1>1. BooksOK /\ ClientOK /\ day \in 1..MaxDay
    BY TypeParts DEF ExecInv, BooksOK
  <1>2. pending \subseteq Tickets
    <2>1. 1..issued \subseteq Tickets
      BY <1>1, ExecutionAssumption DEF ExecutionAssumption, BooksOK, Tickets
    <2>2. QED BY <1>1, <2>1 DEF BooksOK
  <1>3. CASE Connect
    <2>1. PlaceOK'
      BY <1>1, <1>3 DEF ClientOK, PlaceOK, Connect, boundVars
    <2>2. Quiet
      BY <1>1, <1>3, BooksRest DEF Quiet, Connect, boundVars
    <2>3. QED BY <2>1, <2>2, QuietKeeps
  <1>4. CASE CancelAll
    <2>1. target' \subseteq Tickets /\ pc' \in Places
      BY <1>2, <1>4 DEF CancelAll, CancelAllTargets, ToPlace, Places
    <2>2. PlaceOK'
      BY <1>1, <1>4, <2>1 DEF ClientOK, PlaceOK, CancelAll, clientVars, boundVars
    <2>3. Quiet
      BY <1>1, <1>4, BooksRest DEF Quiet, CancelAll, clientVars, boundVars
    <2>4. QED BY <2>2, <2>3, QuietKeeps
  <1>5. ASSUME NEW o \in Orders, Cancel(o) PROVE ExecInv'
    <2>1. TicketFor(o) \in Tickets
      BY <1>1, <1>5 DEF Cancel, TicketFor, ClientOK
    <2>2. target' \subseteq Tickets /\ pc' \in Places
      BY <1>5, <2>1 DEF Cancel, ToPlace, Places
    <2>3. PlaceOK'
      BY <1>1, <1>5, <2>2 DEF ClientOK, PlaceOK, Cancel, clientVars, boundVars
    <2>4. Quiet
      BY <1>1, <1>5, BooksRest DEF Quiet, Cancel, clientVars, boundVars
    <2>5. QED BY <2>3, <2>4, QuietKeeps
  <1>6. CASE RemoveOrder
    <2>1. /\ target' \subseteq target /\ pc' \in Places /\ pending' \subseteq pending
          /\ UNCHANGED <<issued, mine, creator, positions, deals>>
          /\ UNCHANGED <<clientVars, engineVars, faultVars, boundVars>>
      BY <1>6 DEF RemoveOrder, ToPlace, Places
    <2>2. PlaceOK'
      BY <1>1, <2>1 DEF ClientOK, PlaceOK, clientVars, boundVars
    <2>3. Quiet
      BY <1>1, <2>1, PendingShrinks DEF Quiet, clientVars, boundVars
    <2>4. QED BY <2>2, <2>3, QuietKeeps
  <1>7. CASE LookUpPosition
    <2>1. target' \subseteq target /\ pc' \in Places
      BY <1>7 DEF LookUpPosition, ToPlace, Places
    <2>2. PlaceOK'
      BY <1>1, <1>7, <2>1 DEF ClientOK, PlaceOK, LookUpPosition, clientVars, boundVars
    <2>3. Quiet
      BY <1>1, <1>7, BooksRest DEF Quiet, LookUpPosition, clientVars, boundVars
    <2>4. QED BY <2>2, <2>3, QuietKeeps
  <1>8. CASE CloseTarget
    <2>1. PlaceOK'
      BY <1>1, <1>8 DEF ClientOK, PlaceOK, CloseTarget, ToPlace, Places, clientVars,
                        boundVars
    <2>2. BooksOK' /\ BrokerGrows
      <3>1. day' = day
        BY <1>8 DEF CloseTarget, boundVars
      <3>2. CASE UNCHANGED brokerVars
        BY <1>1, <3>1, <3>2, BooksRest
      <3>3. ASSUME NEW t \in target, ClosePosition(t) PROVE BooksOK' /\ BrokerGrows
        BY <1>1, <3>1, <3>3, ClosePositionGrows
      <3>4. QED BY <1>8, <3>2, <3>3 DEF CloseTarget
    <2>3. Quiet
      BY <1>8, <2>2 DEF Quiet, CloseTarget, clientVars
    <2>4. QED BY <2>1, <2>3, QuietKeeps
  <1>9. QED BY <1>3, <1>4, <1>5, <1>6, <1>7, <1>8 DEF Continue

-----------------------------------------------------------------------------
(* The first state: nobody knows anything. *)
LEMMA ExecInvInit == ExecInit => ExecInv
  <1> SUFFICES ASSUME ExecInit PROVE ExecInv
    OBVIOUS
  <1> USE ExecutionAssumption DEF ExecutionAssumption
  <1>1. /\ issued = 1 /\ 1 \in Tickets /\ 1 \in 1..issued
        /\ mine \in {{}, {1}} /\ pending \in {{}, {1}} /\ positions \in {{}, {1}}
    BY DEF ExecInit, Tickets
  <1>2. deals = <<>> /\ DOMAIN deals = {} /\ Len(deals) = 0 /\ deals \in Seq(DealType)
    BY DEF ExecInit
  <1>3. BooksOK
    BY <1>1, <1>2 DEF BooksOK, ExecInit
  <1>4. ClientOK
    <2>1. "none" \in Statuses /\ "free" \in Places
      BY DEF Statuses, Places
    <2>2. /\ ticketOf \in [Orders -> Tickets \cup {NoTicket}]
          /\ orderOf \in [Tickets -> Orders \cup {NoOrder}]
          /\ status \in [Orders -> Statuses]
          /\ venueId \in [Orders -> Tickets \cup {NoTicket}]
      BY <2>1 DEF ExecInit
    <2>3. /\ reported \in [Deals -> Nat]
          /\ reportedAs \in [Deals -> Orders \cup {NoOrder}]
      BY DEF ExecInit
    <2>4. flaps \in 0..MaxFlaps /\ restarts \in 0..MaxRestarts
      BY DEF ExecInit
    <2>5. /\ mt5 \in {"up", "mute", "refused"} /\ pc \in Places /\ target \subseteq Tickets
          /\ polling \in BOOLEAN /\ processed \subseteq DOMAIN deals
          /\ unheard \subseteq Orders /\ dropped \subseteq DOMAIN deals
      BY <2>1 DEF ExecInit
    <2>6. QED BY <2>2, <2>3, <2>4, <2>5 DEF ClientOK
  <1>5. \A o \in Orders : o # NoOrder
    OBVIOUS
  <1>6. NoTicket \notin Tickets
    BY DEF NoTicket, Tickets
  <1>7. OrdersInv
    BY <1>2, <1>5, <1>6 DEF OrdersInv, TicketsKnown, MapsTruthful, MapsInverse,
       UnsubmittedUnknown, RejectedHasNoExposure, ExecInit
  <1>8. ReportsInv
    BY <1>2 DEF ReportsInv, ReportedExist, ReportedForgotten, EmittedOnce,
                FillsRightOrder, ExecInit
  <1>9. QED BY <1>3, <1>4, <1>7, <1>8, TypeParts DEF ExecInv

(* A submission that sends no request, or whose request is refused. *)
LEMMA RefusalKeeps ==
  ASSUME ExecInv, NEW o \in Orders, Submit(o), SubmitRefused(o) \/ SubmitRaises(o)
  PROVE  ExecInv'
  <1>1. BooksOK /\ ClientOK /\ TicketsKnown /\ ExecTypeOK
    BY TypeParts DEF ExecInv, OrdersInv
  <1>2. /\ UNCHANGED <<brokerVars, ticketOf, orderOf, venueId, unheard>>
        /\ UNCHANGED <<polling, processed, reported, reportedAs, dropped>>
        /\ UNCHANGED <<boundVars, pc, target>>
        /\ status[o] = "none"
    BY DEF Submit, SubmitRefused, SubmitRaises
  <1>3. status' = [status EXCEPT ![o] = "rejected"] \/ status' = [status EXCEPT ![o] = "silent"]
    BY DEF SubmitRefused, SubmitRaises, Tell
  <1>4. BooksOK' /\ BrokerGrows
    BY <1>1, <1>2, BooksRest DEF boundVars, BooksOK
  <1>5. DealsKept
    BY <1>1, <1>4, HistoryIsKept DEF BrokerGrows
  <1>6. ReportsInv'
    BY <1>1, <1>2, <1>4, <1>5, ReportsKept DEF ExecInv, OldTicketsKept, brokerVars
  <1>7. OrdersInv'
    <2>1. TicketsKnown' /\ MapsTruthful' /\ MapsInverse'
      BY <1>2 DEF ExecInv, OrdersInv, TicketsKnown, MapsTruthful, MapsInverse, brokerVars
    <2>2. \A q \in Orders : q # o => status'[q] = status[q]
      BY <1>1, <1>3 DEF ClientOK
    <2>3. status'[o] \in {"rejected", "silent"}
      BY <1>1, <1>3 DEF ClientOK
    <2>4. UnsubmittedUnknown'
      BY <1>2, <2>2, <2>3 DEF ExecInv, OrdersInv, UnsubmittedUnknown, brokerVars
    <2>5. RejectedHasNoExposure'
      BY <1>2, <2>2, <2>3
         DEF ExecInv, OrdersInv, UnsubmittedUnknown, RejectedHasNoExposure, brokerVars
    <2>6. QED BY <2>1, <2>4, <2>5 DEF OrdersInv
  <1>8. ClientOK'
    <2>1. status' \in [Orders -> Statuses]
      BY <1>1, <1>3 DEF ClientOK, Statuses
    <2>2. QED BY <1>1, <1>2, <2>1 DEF ClientOK, brokerVars, boundVars
  <1>9. ExecTypeOK'
    BY <1>4, <1>8 DEF ExecTypeOK, BooksOK, ClientOK
  <1>10. QED BY <1>6, <1>7, <1>9 DEF ExecInv

(* A submission whose request the broker carries out, heard of or not. *)
LEMMA ExecutionKeeps ==
  ASSUME ExecInv, NEW o \in Orders, Submit(o), SubmitExecuted(o)
  PROVE  ExecInv'
  <1> DEFINE t == issued + 1
  <1>1. BooksOK /\ ClientOK /\ TicketsKnown /\ ExecTypeOK
    BY TypeParts DEF ExecInv, OrdersInv
  <1>2. /\ UNCHANGED <<polling, processed, reported, reportedAs, dropped>>
        /\ UNCHANGED <<boundVars, pc, target>>
        /\ status[o] = "none" /\ day' = day
        /\ OpenPosition(o) \/ PlacePending(o)
        /\ Respond(o)
    BY DEF Submit, SubmitExecuted, boundVars
  <1>3. /\ BooksOK' /\ t \in Tickets /\ issued' = t
        /\ creator' = [creator EXCEPT ![t] = o]
        /\ \/ deals' = deals
           \/ \E r \in DealType : r.order <= issued' /\ CanDeal /\ deals' = Append(deals, r)
    BY <1>1, <1>2, RequestGrows
  <1>4. /\ issued \in Int /\ Tickets \subseteq Int /\ NoTicket \notin Tickets
        /\ o # NoOrder
    BY <1>1, ExecutionAssumption DEF ExecutionAssumption, BooksOK, Tickets, NoTicket
  <1>5. DealsKept
    BY <1>1, <1>3, HistoryIsKept
  <1>6. orderOf[t] = NoOrder /\ creator[t] = NoOrder
    BY <1>1, <1>3, <1>4 DEF TicketsKnown
  <1>7. creator'[t] = o /\ \A u \in Tickets : u # t => creator'[u] = creator[u]
    BY <1>1, <1>3 DEF BooksOK
  <1>8. \A u \in Tickets : u <= issued => u # t
    BY <1>4
  <1>9. ticketOf[o] = NoTicket /\ \A u \in Tickets : creator[u] # o
    BY <1>2 DEF ExecInv, OrdersInv, UnsubmittedUnknown
  <1> HIDE DEF t
  <1>10. \/ /\ ticketOf' = [ticketOf EXCEPT ![o] = t]
            /\ orderOf' = [orderOf EXCEPT ![t] = o]
            /\ venueId' = [venueId EXCEPT ![o] = t]
            /\ status' = [status EXCEPT ![o] = "accepted"]
            /\ unheard' = unheard
         \/ /\ unheard' = unheard \cup {o}
            /\ status' = [status EXCEPT ![o] = "rejected"]
            /\ UNCHANGED <<ticketOf, orderOf, venueId>>
    BY <1>2 DEF Respond, Accept, Tell, t
  <1>11. \A u \in Tickets : u # t => orderOf'[u] = orderOf[u]
    BY <1>1, <1>3, <1>10 DEF ClientOK
  <1>12. orderOf'[t] \in {NoOrder, o}
    BY <1>1, <1>3, <1>6, <1>10 DEF ClientOK
  <1>13. ReportsInv'
    <2>1. OldTicketsKept
      BY <1>7, <1>8, <1>11 DEF OldTicketsKept
    <2>2. QED BY <1>1, <1>2, <1>3, <1>5, <2>1, ReportsKept DEF ExecInv
  <1>14. TicketsKnown'
    <2>1. \A u \in Tickets : u <= issued \/ u = t => u <= issued'
      BY <1>3, <1>4 DEF t
    <2>2. ASSUME NEW u \in Tickets PROVE orderOf'[u] # NoOrder => u <= issued'
      BY <1>1, <1>11, <2>1 DEF TicketsKnown
    <2>3. ASSUME NEW u \in Tickets PROVE creator'[u] # NoOrder => u <= issued'
      BY <1>1, <1>7, <2>1 DEF TicketsKnown
    <2>4. QED BY <1>5, <2>2, <2>3 DEF TicketsKnown, DealsKept
  <1>15. MapsTruthful'
    BY <1>7, <1>11, <1>12 DEF ExecInv, OrdersInv, MapsTruthful
  <1>16. MapsInverse'
    <2>1. CASE UNCHANGED <<ticketOf, orderOf>>
      BY <2>1 DEF ExecInv, OrdersInv, MapsInverse
    <2>2. CASE /\ ticketOf' = [ticketOf EXCEPT ![o] = t]
               /\ orderOf' = [orderOf EXCEPT ![t] = o]
      <3>1. /\ ticketOf'[o] = t /\ \A q \in Orders : q # o => ticketOf'[q] = ticketOf[q]
            /\ orderOf'[t] = o
        BY <1>1, <1>3, <2>2 DEF ClientOK
      <3>2. ASSUME NEW q \in Orders, NEW u \in Tickets
            PROVE  ticketOf'[q] = u <=> orderOf'[u] = q
        <4>1. ticketOf[q] = u <=> orderOf[u] = q
          BY DEF ExecInv, OrdersInv, MapsInverse
        <4>2. CASE q = o /\ u = t
          BY <3>1, <4>2
        <4>3. CASE q = o /\ u # t
          BY <1>4, <1>9, <1>11, <3>1, <4>1, <4>3
        <4>4. CASE q # o /\ u = t
          BY <1>6, <3>1, <4>1, <4>4, ExecutionAssumption DEF ExecutionAssumption
        <4>5. CASE q # o /\ u # t
          BY <1>11, <3>1, <4>1, <4>5
        <4>6. QED BY <4>2, <4>3, <4>4, <4>5
      <3>3. QED BY <3>2 DEF MapsInverse
    <2>3. QED BY <1>10, <2>1, <2>2
  <1>17. UnsubmittedUnknown'
    <2>1. status'[o] # "none" /\ \A q \in Orders : q # o => status'[q] = status[q]
      BY <1>1, <1>10 DEF ClientOK
    <2>2. \A q \in Orders : q # o => ticketOf'[q] = ticketOf[q]
      BY <1>1, <1>10 DEF ClientOK
    <2>3. QED BY <1>7, <2>1, <2>2 DEF ExecInv, OrdersInv, UnsubmittedUnknown
  <1>18. RejectedHasNoExposure'
    <2>1. \A q \in Orders : q # o => status'[q] = status[q]
      BY <1>1, <1>10 DEF ClientOK
    <2>2. status'[o] = "rejected" => o \in unheard'
      BY <1>1, <1>10 DEF ClientOK
    <2>3. unheard \subseteq unheard'
      BY <1>10
    <2>4. QED BY <1>7, <2>1, <2>2, <2>3 DEF ExecInv, OrdersInv, RejectedHasNoExposure
  <1>19. ClientOK'
    <2>1. /\ ticketOf' \in [Orders -> Tickets \cup {NoTicket}]
          /\ orderOf' \in [Tickets -> Orders \cup {NoOrder}]
          /\ venueId' \in [Orders -> Tickets \cup {NoTicket}]
      <3>1. CASE UNCHANGED <<ticketOf, orderOf, venueId>>
        BY <1>1, <3>1 DEF ClientOK
      <3>2. CASE /\ ticketOf' = [ticketOf EXCEPT ![o] = t]
                 /\ orderOf' = [orderOf EXCEPT ![t] = o]
                 /\ venueId' = [venueId EXCEPT ![o] = t]
        BY <1>1, <1>3, <3>2 DEF ClientOK
      <3>3. QED BY <1>10, <3>1, <3>2
    <2>2. status' \in [Orders -> Statuses] /\ unheard' \subseteq Orders
      BY <1>1, <1>10 DEF ClientOK, Statuses
    <2>3. processed' \subseteq DOMAIN deals' /\ dropped' \subseteq DOMAIN deals'
      BY <1>1, <1>2, <1>5 DEF ClientOK, DealsKept
    <2>4. QED BY <1>1, <1>2, <2>1, <2>2, <2>3 DEF ClientOK, boundVars
  <1>20. OrdersInv'
    BY <1>14, <1>15, <1>16, <1>17, <1>18 DEF OrdersInv
  <1>21. ExecTypeOK'
    BY <1>3, <1>19 DEF ExecTypeOK, BooksOK, ClientOK
  <1>22. QED BY <1>13, <1>20, <1>21 DEF ExecInv

(* A disconnect forgets the tickets together with the processed deals. *)
LEMMA DisconnectKeeps == ExecInv /\ Disconnect => ExecInv'
  <1> SUFFICES ASSUME ExecInv, Disconnect PROVE ExecInv'
    OBVIOUS
  <1>1. BooksOK /\ ClientOK /\ TicketsKnown
    BY TypeParts DEF ExecInv, OrdersInv
  <1>2. /\ UNCHANGED <<brokerVars, engineVars, faultVars, day, mt5, flaps, pc, target>>
        /\ polling' = FALSE /\ processed' = {}
        /\ restarts < MaxRestarts /\ restarts' = restarts + 1
        /\ ticketOf' = [o \in Orders |-> NoTicket]
        /\ orderOf' = [t \in Tickets |-> NoOrder]
    BY DEF Disconnect
  <1>3. BooksOK'
    BY <1>1, <1>2, BooksRest DEF BooksOK
  <1>4. /\ UNCHANGED <<issued, deals, creator, status, reported, reportedAs, unheard>>
        /\ \A d : IsExternal(d)' <=> IsExternal(d)
    BY <1>2 DEF brokerVars, engineVars, faultVars, IsExternal
  <1>5. NoTicket \notin Tickets /\ NoOrder \notin Orders
    BY ExecutionAssumption DEF ExecutionAssumption, NoTicket, Tickets
  <1>6. ClientOK'
    <2>1. restarts' \in 0..MaxRestarts
      BY <1>1, <1>2, ExecutionAssumption DEF ClientOK, ExecutionAssumption
    <2>2. /\ ticketOf' \in [Orders -> Tickets \cup {NoTicket}]
          /\ orderOf' \in [Tickets -> Orders \cup {NoOrder}]
      BY <1>2
    <2>3. QED BY <1>1, <1>2, <2>1, <2>2 DEF ClientOK, brokerVars, engineVars, faultVars
  <1>7. OrdersInv'
    <2>1. TicketsKnown' /\ MapsTruthful'
      BY <1>1, <1>2, <1>4 DEF TicketsKnown, MapsTruthful
    <2>2. MapsInverse'
      BY <1>2, <1>5 DEF MapsInverse
    <2>3. UnsubmittedUnknown' /\ RejectedHasNoExposure'
      BY <1>2, <1>4 DEF ExecInv, OrdersInv, UnsubmittedUnknown, RejectedHasNoExposure
    <2>4. QED BY <2>1, <2>2, <2>3 DEF OrdersInv
  <1>8. ReportsInv'
    <2>1. ReportedExist' /\ EmittedOnce' /\ FillsRightOrder'
      BY <1>4 DEF ExecInv, ReportsInv, ReportedExist, EmittedOnce, FillsRightOrder
    <2>2. ReportedForgotten'
      BY <1>2, <1>4 DEF ExecInv, ReportsInv, ReportedExist, ReportedForgotten
    <2>3. QED BY <2>1, <2>2 DEF ReportsInv
  <1>9. QED BY <1>3, <1>6, <1>7, <1>8, TypeParts DEF ExecInv, ExecTypeOK, BooksOK, ClientOK

(* What a poll reports: deals of the history that are not marked yet, each *)
(* of a ticket the session knows unless the engine's cache knows it.       *)
LEMMA BatchIsFresh ==
  ASSUME ExecInv, NEW d \in NewDeals, Emittable(d)
  PROVE  /\ d \in DOMAIN deals /\ d \in Deals /\ deals[d].order \in Tickets
         /\ ~IsExternal(d) => /\ reported[d] = 0
                              /\ FillOrder(d) = creator[deals[d].order]
  <1>1. BooksOK /\ ClientOK
    BY TypeParts DEF ExecInv
  <1>2. d \in DOMAIN deals /\ d \notin processed
    BY DEF NewDeals, History
  <1>3. d \in Deals
    <2>1. DOMAIN deals = 1..Len(deals) /\ Len(deals) \in Nat /\ Len(deals) <= MaxDeals
      BY <1>1 DEF BooksOK
    <2>2. QED BY <1>2, <2>1, ExecutionAssumption DEF ExecutionAssumption, Deals
  <1>4. deals[d].order \in Tickets
    BY ExecutionAssumption DEF Emittable, ExecutionAssumption
  <1>5. ASSUME ~IsExternal(d)
        PROVE  reported[d] = 0 /\ FillOrder(d) = creator[deals[d].order]
    <2>1. orderOf[deals[d].order] # NoOrder
      BY <1>2, <1>5 DEF Emittable, IsExternal
    <2>2. ~(reported[d] > 0)
      BY <1>2, <1>3, <1>5, <2>1 DEF ExecInv, ReportsInv, ReportedForgotten
    <2>3. reported[d] \in Nat
      BY <1>1, <1>3 DEF ClientOK
    <2>4. FillOrder(d) = creator[deals[d].order]
      BY <1>4, <2>1 DEF ExecInv, OrdersInv, MapsTruthful, FillOrder
    <2>5. QED BY <2>2, <2>3, <2>4
  <1>6. QED BY <1>2, <1>3, <1>4, <1>5

(* A poll marks what it reports. *)
LEMMA PollKeeps == ExecInv /\ PollExecOnce => ExecInv'
  <1> SUFFICES ASSUME ExecInv, PollExecOnce PROVE ExecInv'
    OBVIOUS
  <1>1. BooksOK /\ ClientOK
    BY TypeParts DEF ExecInv
  <1>2. /\ UNCHANGED <<brokerVars, polling, ticketOf, orderOf, status, venueId, unheard>>
        /\ UNCHANGED <<boundVars, pc, target>>
        /\ processed' = processed \cup NewDeals
    BY DEF PollExecOnce
  <1>3. PICK failing \in SUBSET {d \in NewDeals : Emittable(d)} :
          LET batch == {d \in NewDeals : Emittable(d)} \ failing IN
          /\ reported' = [d \in Deals |-> IF d \in batch THEN reported[d] + 1
                                                         ELSE reported[d]]
          /\ reportedAs' = [d \in Deals |-> IF d \in batch THEN FillOrder(d)
                                                           ELSE reportedAs[d]]
          /\ dropped' = dropped \cup failing
    BY DEF PollExecOnce
  <1> DEFINE batch == {d \in NewDeals : Emittable(d)} \ failing
  <1>4. \A d \in Deals : reported'[d] = IF d \in batch THEN reported[d] + 1 ELSE reported[d]
    BY <1>3
  <1>5. \A d \in Deals : reportedAs'[d] = IF d \in batch THEN FillOrder(d) ELSE reportedAs[d]
    BY <1>3
  <1>6. ASSUME NEW d \in batch
        PROVE  /\ d \in NewDeals /\ d \in DOMAIN deals /\ d \in Deals
               /\ deals[d].order \in Tickets
               /\ ~IsExternal(d) => /\ reported[d] = 0
                                    /\ FillOrder(d) = creator[deals[d].order]
    BY BatchIsFresh
  <1>7. NewDeals \subseteq DOMAIN deals
    BY DEF NewDeals, History
  <1>8. dropped' \subseteq DOMAIN deals
    BY <1>1, <1>3, <1>7 DEF ClientOK
  <1> HIDE DEF batch
  <1>9. BooksOK'
    BY <1>1, <1>2, BooksRest DEF BooksOK, boundVars
  <1>10. /\ UNCHANGED <<issued, deals, creator, ticketOf, orderOf, status, unheard>>
         /\ \A d : IsExternal(d)' <=> IsExternal(d)
    BY <1>2 DEF brokerVars, IsExternal
  <1>11. ClientOK'
    <2>1. processed' \subseteq DOMAIN deals'
      BY <1>1, <1>2, <1>7, <1>10 DEF ClientOK
    <2>2. reported' \in [Deals -> Nat]
      <3>1. \A d \in Deals : reported'[d] \in Nat
        BY <1>1, <1>4 DEF ClientOK
      <3>2. reported' = [d \in Deals |-> reported'[d]]
        BY <1>3
      <3>3. QED BY <3>1, <3>2
    <2>3. reportedAs' \in [Deals -> Orders \cup {NoOrder}]
      <3>1. \A d \in batch : FillOrder(d) \in Orders \cup {NoOrder}
        BY <1>1, <1>6 DEF ClientOK, FillOrder
      <3>2. \A d \in Deals : reportedAs'[d] \in Orders \cup {NoOrder}
        BY <1>1, <1>5, <3>1 DEF ClientOK
      <3>3. reportedAs' = [d \in Deals |-> reportedAs'[d]]
        BY <1>3
      <3>4. QED BY <3>2, <3>3
    <2>4. QED BY <1>1, <1>2, <1>8, <1>10, <2>1, <2>2, <2>3 DEF ClientOK, boundVars
  <1>12. OrdersInv'
    BY <1>10 DEF ExecInv, OrdersInv, TicketsKnown, MapsTruthful, MapsInverse,
                 UnsubmittedUnknown, RejectedHasNoExposure
  <1>13. ReportedExist'
    <2>1. ASSUME NEW d \in Deals, reported'[d] > 0
          PROVE  d \in DOMAIN deals' /\ deals'[d].order \in Tickets
      <3>1. CASE d \in batch
        BY <1>6, <1>10, <3>1
      <3>2. CASE d \notin batch
        BY <1>4, <1>10, <2>1, <3>2 DEF ExecInv, ReportsInv, ReportedExist
      <3>3. QED BY <3>1, <3>2
    <2>2. QED BY <2>1 DEF ReportedExist
  <1>14. ReportedForgotten'
    <2>1. ASSUME NEW d \in Deals, reported'[d] > 0, ~IsExternal(d)'
          PROVE  d \in processed' \/ orderOf'[deals'[d].order] = NoOrder
      <3>1. CASE d \in batch
        BY <1>2, <1>6, <3>1
      <3>2. CASE d \notin batch
        BY <1>2, <1>4, <1>10, <2>1, <3>2 DEF ExecInv, ReportsInv, ReportedForgotten
      <3>3. QED BY <3>1, <3>2
    <2>2. QED BY <2>1 DEF ReportedForgotten
  <1>15. EmittedOnce'
    <2>1. ASSUME NEW d \in Deals PROVE IsExternal(d)' \/ reported'[d] <= 1
      <3>1. CASE d \in batch
        BY <1>4, <1>6, <1>10, <3>1
      <3>2. CASE d \notin batch
        BY <1>4, <1>10, <3>2 DEF ExecInv, ReportsInv, EmittedOnce
      <3>3. QED BY <3>1, <3>2
    <2>2. QED BY <2>1 DEF EmittedOnce
  <1>16. FillsRightOrder'
    <2>1. ASSUME NEW d \in DOMAIN deals', reported'[d] > 0, ~IsExternal(d)'
          PROVE  reportedAs'[d] = creator'[deals'[d].order]
      <3>1. d \in Deals
        BY <1>9, HistoryIsBounded
      <3>2. CASE d \in batch
        BY <1>5, <1>6, <1>10, <2>1, <3>1, <3>2
      <3>3. CASE d \notin batch
        BY <1>4, <1>5, <1>10, <2>1, <3>1, <3>3 DEF ExecInv, ReportsInv, FillsRightOrder
      <3>4. QED BY <3>2, <3>3
    <2>2. QED BY <2>1 DEF FillsRightOrder
  <1>17. ReportsInv'
    BY <1>13, <1>14, <1>15, <1>16 DEF ReportsInv
  <1>18. ExecTypeOK'
    BY <1>9, <1>11 DEF ExecTypeOK, BooksOK, ClientOK
  <1>19. QED BY <1>12, <1>17, <1>18 DEF ExecInv

-----------------------------------------------------------------------------
LEMMA ExecInvStep == ExecInv /\ [ExecNext]_execVars => ExecInv'
  <1> SUFFICES ASSUME ExecInv, [ExecNext]_execVars PROVE ExecInv'
    OBVIOUS
  <1>1. CASE Connect \/ CancelAll \/ Continue \/ \E o \in Orders : Cancel(o)
    BY <1>1, CommandKeeps
  <1>2. CASE Disconnect
    BY <1>2, DisconnectKeeps
  <1>3. ASSUME NEW o \in Orders, Submit(o) PROVE ExecInv'
    <2>1. SubmitExecuted(o) \/ SubmitRefused(o) \/ SubmitRaises(o)
      BY <1>3 DEF Submit
    <2>2. QED BY <1>3, <2>1, ExecutionKeeps, RefusalKeeps
  <1>4. CASE PollExecOnce
    BY <1>4, PollKeeps
  <1>5. CASE BrokerStep
    BY <1>5, BrokerStepKeeps
  <1>6. CASE Midnight \/ MT5Fails \/ MT5Recovers
    BY <1>6, WorldKeeps
  <1>7. CASE UNCHANGED execVars
    <2>1. BooksOK /\ ClientOK /\ day \in 1..MaxDay
      BY TypeParts DEF ExecInv, BooksOK
    <2>2. PlaceOK' /\ Quiet
      BY <1>7, <2>1, BooksRest
         DEF ClientOK, PlaceOK, Quiet, execVars, clientVars, boundVars
    <2>3. QED BY <2>2, QuietKeeps
  <1>8. QED BY <1>1, <1>2, <1>3, <1>4, <1>5, <1>6, <1>7 DEF ExecNext, ClientStep

(* In every run of the client, whatever the broker and the library do, the *)
(* inductive invariant holds.                                              *)
THEOREM ExecInvariant == ExecSpec => []ExecInv
  <1>1. QED BY ExecInvInit, ExecInvStep, PTL DEF ExecSpec

(* Every variable keeps its type; every ticket that is pending, open or    *)
(* known to the client was issued.                                         *)
THEOREM ExecTypeCorrect == ExecSpec => []ExecTypeOK
  <1>1. ExecInv => ExecTypeOK
    BY DEF ExecInv
  <1>2. QED BY <1>1, ExecInvariant, PTL

(* The two ticket maps stay inverse to each other through submissions,     *)
(* lost replies and disconnects.                                           *)
THEOREM MapsAlwaysInverse == ExecSpec => []MapsInverse
  <1>1. ExecInv => MapsInverse
    BY DEF ExecInv, OrdersInv
  <1>2. QED BY <1>1, ExecInvariant, PTL

(* An order reported as rejected has nothing at the broker, unless the     *)
(* reply to its request was lost.                                          *)
THEOREM RejectedIsSafe == ExecSpec => []RejectedHasNoExposure
  <1>1. ExecInv => RejectedHasNoExposure
    BY DEF ExecInv, OrdersInv
  <1>2. QED BY <1>1, ExecInvariant, PTL

(* No fill is emitted twice, over any number of polls and disconnects.     *)
THEOREM NoFillTwice == ExecSpec => []EmittedOnce
  <1>1. ExecInv => EmittedOnce
    BY DEF ExecInv, ReportsInv
  <1>2. QED BY <1>1, ExecInvariant, PTL

(* A fill is reported under the client order whose request caused it.      *)
THEOREM FillsNeverMisattributed == ExecSpec => []FillsRightOrder
  <1>1. ExecInv => FillsRightOrder
    BY DEF ExecInv, ReportsInv
  <1>2. QED BY <1>1, ExecInvariant, PTL

-----------------------------------------------------------------------------
(* The reports of the client as the ledger sees them. *)
Shown == [d \in Deals |-> IF IsExternal(d) /\ reported[d] > 0 THEN 1 ELSE reported[d]]

(* A step that reports nothing, and in which at most one deal is made. *)
Unreported ==
  /\ UNCHANGED reported
  /\ \/ deals' = deals
     \/ \E r \in DealType : CanDeal /\ deals' = Append(deals, r)

(* Only a poll reports. *)
LEMMA OnlyPollsReport == ExecInv /\ [ExecNext]_execVars => PollExecOnce \/ Unreported
  <1> SUFFICES ASSUME ExecInv, [ExecNext]_execVars, ~PollExecOnce PROVE Unreported
    OBVIOUS
  <1>1. BooksOK
    BY TypeParts DEF ExecInv
  <1>2. CASE \/ Connect \/ Disconnect \/ CancelAll \/ RemoveOrder \/ LookUpPosition
             \/ Midnight \/ MT5Fails \/ MT5Recovers \/ UNCHANGED execVars
             \/ \E o \in Orders : Cancel(o)
    BY <1>2 DEF Unreported, Connect, Disconnect, CancelAll, RemoveOrder, LookUpPosition,
                Midnight, MT5Fails, MT5Recovers, Cancel, execVars, brokerVars, engineVars
  <1>3. ASSUME NEW o \in Orders, Submit(o) PROVE Unreported
    <2>1. day' = day /\ UNCHANGED reported
      BY <1>3 DEF Submit, boundVars
    <2>2. CASE SubmitExecuted(o)
      BY <1>1, <2>1, <2>2, RequestGrows DEF SubmitExecuted, Unreported
    <2>3. CASE SubmitRefused(o) \/ SubmitRaises(o)
      BY <2>1, <2>3 DEF SubmitRefused, SubmitRaises, Unreported, brokerVars
    <2>4. QED BY <1>3, <2>2, <2>3 DEF Submit
  <1>4. CASE CloseTarget
    <2>1. day' = day /\ UNCHANGED reported
      BY <1>4 DEF CloseTarget, boundVars, engineVars
    <2>2. ASSUME NEW t \in target, ClosePosition(t) PROVE Unreported
      BY <1>1, <2>1, <2>2, ClosePositionGrows DEF BrokerGrows, Unreported
    <2>3. CASE UNCHANGED brokerVars
      BY <2>1, <2>3 DEF brokerVars, Unreported
    <2>4. QED BY <1>4, <2>2, <2>3 DEF CloseTarget
  <1>5. CASE BrokerStep
    <2>1. day' = day /\ UNCHANGED reported
      BY <1>5 DEF BrokerStep, boundVars, engineVars
    <2>2. ASSUME NEW t \in pending, BrokerFills(t) PROVE Unreported
      BY <1>1, <2>1, <2>2, BrokerFillsGrows DEF BrokerGrows, Unreported
    <2>3. ASSUME NEW t \in pending, BrokerExpires(t) PROVE Unreported
      BY <2>1, <2>3 DEF BrokerExpires, Unreported
    <2>4. ASSUME NEW t \in positions, ClosePosition(t) PROVE Unreported
      BY <1>1, <2>1, <2>4, ClosePositionGrows DEF BrokerGrows, Unreported
    <2>5. CASE BrokerBooks
      BY <1>1, <2>1, <2>5, BrokerBooksGrows DEF BrokerGrows, Unreported
    <2>6. QED BY <1>5, <2>2, <2>3, <2>4, <2>5 DEF BrokerStep
  <1>6. QED BY <1>2, <1>3, <1>4, <1>5 DEF ExecNext, ClientStep, Continue

(* A deal is executed in the ledger when the broker makes it. *)
LEMMA UnreportedMaps ==
  ASSUME ExecInv, ExecInv', Unreported
  PROVE  [Ledger!LedgerNext]_(Ledger!ledgerVars)
  <1>1. BooksOK /\ ClientOK
    BY TypeParts DEF ExecInv
  <1>2. CASE deals' = deals
    BY <1>2 DEF Unreported, Ledger!ledgerVars, IsExternal
  <1>3. ASSUME NEW r \in DealType, CanDeal, deals' = Append(deals, r)
        PROVE  Ledger!Execute
    <2>1. /\ Len(deals') = Len(deals) + 1
          /\ \A d \in DOMAIN deals : d \in DOMAIN deals' /\ deals'[d] = deals[d]
      BY <1>1, <1>3, DealsGrow DEF BooksOK
    <2>2. Len(deals) + 1 \in Deals
      <3>1. Len(deals) \in Nat
        BY <1>1 DEF BooksOK
      <3>2. QED BY <1>3, <3>1, ExecutionAssumption DEF ExecutionAssumption, CanDeal, Deals
    <2>3. ASSUME NEW d \in Deals
          PROVE  (IF IsExternal(d) /\ reported[d] > 0 THEN 1 ELSE reported[d])'
                   = IF IsExternal(d) /\ reported[d] > 0 THEN 1 ELSE reported[d]
      <3>1. reported'[d] = reported[d]
        BY DEF Unreported
      <3>2. CASE reported[d] > 0
        <4>1. d \in DOMAIN deals
          BY <3>2 DEF ExecInv, ReportsInv, ReportedExist
        <4>2. IsExternal(d)' <=> IsExternal(d)
          BY <2>1, <4>1 DEF IsExternal
        <4>3. QED BY <3>1, <4>2
      <3>3. CASE ~(reported[d] > 0)
        BY <3>1, <3>3
      <3>4. QED BY <3>2, <3>3
    <2>4. Shown' = Shown
      BY <2>3 DEF Shown
    <2>5. QED BY <2>1, <2>2, <2>4 DEF Ledger!Execute, Shown
  <1>4. QED BY <1>2, <1>3 DEF Unreported, Ledger!LedgerNext

(* A poll reports a batch in the ledger: the deals it shows for the first  *)
(* time.                                                                   *)
LEMMA PollMaps ==
  ASSUME ExecInv, ExecInv', PollExecOnce
  PROVE  Ledger!Report
  <1>1. BooksOK /\ ClientOK /\ ClientOK'
    BY TypeParts, ExecInv' DEF ExecInv, ExecTypeOK, BooksOK, ClientOK
  <1>2. UNCHANGED deals /\ \A d : IsExternal(d)' <=> IsExternal(d)
    BY DEF PollExecOnce, brokerVars, IsExternal
  <1> DEFINE batch == {d \in Deals : reported[d] = 0 /\ reported'[d] > 0}
  <1>3. \A d \in Deals : reported[d] \in Nat /\ reported'[d] \in Nat /\ reported'[d] >= reported[d]
    BY <1>1 DEF PollExecOnce, ClientOK
  <1>4. ASSUME NEW d \in batch PROVE d <= Len(deals) /\ Shown[d] = 0
    <2>1. d \in DOMAIN deals
      BY <1>2 DEF ExecInv, ReportsInv, ReportedExist
    <2>2. DOMAIN deals = 1..Len(deals) /\ Len(deals) \in Nat
      BY <1>1 DEF BooksOK
    <2>3. QED BY <2>1, <2>2 DEF Shown
  <1>5. ASSUME NEW d \in Deals
        PROVE  Shown'[d] = IF d \in batch THEN 1 ELSE Shown[d]
    <2>1. Shown'[d] = IF IsExternal(d) /\ reported'[d] > 0 THEN 1 ELSE reported'[d]
      BY <1>2 DEF Shown
    <2>2. Shown[d] = IF IsExternal(d) /\ reported[d] > 0 THEN 1 ELSE reported[d]
      BY DEF Shown
    <2>3. IsExternal(d) \/ reported'[d] <= 1
      BY <1>2 DEF ExecInv, ReportsInv, EmittedOnce
    <2>4. QED BY <1>3, <2>1, <2>2, <2>3
  <1>6. batch \in SUBSET {d \in Deals : d <= Len(deals) /\ Shown[d] = 0}
    BY <1>4
  <1>7. Shown' = [d \in Deals |-> IF d \in batch THEN 1 ELSE Shown[d]]
    <2>1. Shown' = [d \in Deals |-> Shown'[d]]
      BY DEF Shown
    <2>2. QED BY <1>5, <2>1
  <1> HIDE DEF batch
  <1>8. \E b \in SUBSET {d \in Deals : d <= Len(deals) /\ Shown[d] = 0} :
          /\ Shown' = [d \in Deals |-> IF d \in b THEN 1 ELSE Shown[d]]
          /\ UNCHANGED Len(deals)
    BY <1>2, <1>6, <1>7
  <1>9. QED BY <1>8 DEF Ledger!Report, Shown

(* The client implements the abstract ledger: whatever the interleaving,   *)
(* every step it and the broker take executes one more deal, reports some  *)
(* executed and unreported deals, or leaves the ledger alone.              *)
THEOREM ClientImplementsLedger == ExecSpec => ImplementsLedger
  <1>1. ExecInit => Ledger!LedgerInit
    <2>1. ASSUME ExecInit PROVE Len(deals) = 0 /\ Shown = [d \in Deals |-> 0]
      BY <2>1 DEF ExecInit, Shown
    <2>2. QED BY <2>1 DEF Ledger!LedgerInit, Shown
  <1>2. ExecInv /\ ExecInv' /\ [ExecNext]_execVars
          => [Ledger!LedgerNext]_(Ledger!ledgerVars)
    BY OnlyPollsReport, UnreportedMaps, PollMaps DEF Ledger!LedgerNext
  <1>3. QED BY <1>1, <1>2, ExecInvariant, PTL
            DEF ExecSpec, ImplementsLedger, Ledger!LedgerSpec

-----------------------------------------------------------------------------
(* Every ticket the client may send a command for carries our magic.       *)
OursOnly ==
  /\ target \subseteq mine
  /\ \A o \in Orders : ticketOf[o] \in mine \cup {NoTicket}
  /\ \A o \in Orders : venueId[o] \in mine \cup {NoTicket}

(* Tickets never lose their magic, and only a submission or a disconnect   *)
(* changes which ticket a client order has.                                *)
LEMMA MagicStays ==
  ASSUME [ExecNext]_execVars
  PROVE  /\ mine \subseteq mine'
         /\ \/ UNCHANGED <<ticketOf, venueId>>
            \/ Disconnect
            \/ \E o \in Orders : Submit(o)
  <1>1. CASE \/ Connect \/ CancelAll \/ Continue \/ PollExecOnce
             \/ \E o \in Orders : Cancel(o)
    BY <1>1 DEF Connect, CancelAll, Continue, RemoveOrder, LookUpPosition, CloseTarget,
                ClosePosition, PollExecOnce, Cancel, brokerVars, clientVars, engineVars
  <1>2. CASE Disconnect
    BY <1>2 DEF Disconnect, brokerVars
  <1>3. ASSUME NEW o \in Orders, Submit(o) PROVE mine \subseteq mine'
    BY <1>3 DEF Submit, SubmitExecuted, SubmitRefused, SubmitRaises, OpenPosition,
                PlacePending, brokerVars
  <1>4. CASE BrokerStep \/ Midnight \/ MT5Fails \/ MT5Recovers \/ UNCHANGED execVars
    BY <1>4 DEF BrokerStep, BrokerFills, BrokerExpires, ClosePosition, BrokerBooks,
                Midnight, MT5Fails, MT5Recovers, execVars, brokerVars, clientVars,
                engineVars
  <1>5. QED BY <1>1, <1>2, <1>3, <1>4 DEF ExecNext, ClientStep

LEMMA OursOnlyStep == ExecTypeOK /\ OursOnly /\ [ExecNext]_execVars => OursOnly'
  <1> SUFFICES ASSUME ExecTypeOK, OursOnly, [ExecNext]_execVars PROVE OursOnly'
    OBVIOUS
  <1>1. mine \subseteq mine'
    BY MagicStays
  <1>2. \A o \in Orders : /\ ticketOf'[o] \in mine' \cup {NoTicket}
                          /\ venueId'[o] \in mine' \cup {NoTicket}
    <2>1. CASE UNCHANGED <<ticketOf, venueId>>
      BY <1>1, <2>1 DEF OursOnly
    <2>2. CASE Disconnect
      BY <1>1, <2>2 DEF OursOnly, Disconnect, engineVars
    <2>3. ASSUME NEW o \in Orders, Submit(o)
          PROVE  \A q \in Orders : /\ ticketOf'[q] \in mine' \cup {NoTicket}
                                   /\ venueId'[q] \in mine' \cup {NoTicket}
      <3>1. CASE UNCHANGED <<ticketOf, venueId>>
        BY <1>1, <3>1 DEF OursOnly
      <3>2. CASE SubmitExecuted(o) /\ Accept(o)
        <4>1. issued + 1 \in mine'
          BY <3>2 DEF SubmitExecuted, OpenPosition, PlacePending
        <4>2. /\ ticketOf' = [ticketOf EXCEPT ![o] = issued + 1]
              /\ venueId' = [venueId EXCEPT ![o] = issued + 1]
          BY <3>2 DEF Accept
        <4>3. QED BY <1>1, <4>1, <4>2 DEF ExecTypeOK, OursOnly
      <3>3. QED
        BY <2>3, <3>1, <3>2 DEF Submit, SubmitExecuted, SubmitRefused, SubmitRaises, Respond
    <2>4. QED BY <2>1, <2>2, <2>3, MagicStays
  <1>3. target' \subseteq mine'
    <2>1. CASE \/ \E o \in Orders : Submit(o)
               \/ Connect \/ Disconnect \/ PollExecOnce \/ BrokerStep
               \/ Midnight \/ MT5Fails \/ MT5Recovers \/ UNCHANGED execVars
      BY <1>1, <2>1 DEF OursOnly, Submit, Connect, Disconnect, PollExecOnce, BrokerStep,
                        Midnight, MT5Fails, MT5Recovers, execVars
    <2>2. CASE \E o \in Orders : Cancel(o)
      BY <1>1, <2>2 DEF OursOnly, Cancel, TicketFor, ToPlace
    <2>3. CASE CancelAll \/ Continue
      BY <1>1, <2>3 DEF OursOnly, CancelAll, CancelAllTargets, Continue, RemoveOrder,
                        LookUpPosition, CloseTarget, ToPlace
    <2>4. QED BY <2>1, <2>2, <2>3 DEF ExecNext, ClientStep
  <1>4. QED BY <1>2, <1>3 DEF OursOnly

(* What a command takes away was ours. *)
LEMMA CommandsSpareOthers ==
  ASSUME OursOnly, ClientStep
  PROVE  pending \ mine \subseteq pending' /\ positions \ mine \subseteq positions'
  <1>1. CASE \/ Connect \/ Disconnect \/ CancelAll \/ PollExecOnce \/ LookUpPosition
             \/ \E o \in Orders : Cancel(o)
    BY <1>1 DEF Connect, Disconnect, CancelAll, PollExecOnce, LookUpPosition, Cancel,
                brokerVars
  <1>2. CASE \E o \in Orders : Submit(o)
    BY <1>2 DEF Submit, SubmitExecuted, SubmitRefused, SubmitRaises, OpenPosition,
                PlacePending, brokerVars
  <1>3. CASE RemoveOrder \/ CloseTarget
    BY <1>3 DEF OursOnly, RemoveOrder, CloseTarget, ClosePosition, brokerVars
  <1>4. QED BY <1>1, <1>2, <1>3 DEF ClientStep, Continue

(* Whatever the broker did between a command's look-ups and its request,   *)
(* no step of the client removes an order or closes a position of another  *)
(* program on the account.                                                 *)
THEOREM OthersAreSafe == ExecSpec => ForeignUntouched
  <1>1. ExecInit => OursOnly
    BY DEF ExecInit, OursOnly
  <1>2. ExecTypeOK /\ OursOnly /\ [ExecNext]_execVars => OursOnly'
    BY OursOnlyStep
  <1>3. OursOnly /\ [ExecNext]_execVars =>
          [ClientStep => /\ pending \ mine \subseteq pending'
                         /\ positions \ mine \subseteq positions']_execVars
    BY CommandsSpareOthers
  <1>4. QED BY <1>1, <1>2, <1>3, ExecTypeCorrect, PTL DEF ExecSpec, ForeignUntouched

-----------------------------------------------------------------------------
(* No fill waits for a second poll.                                        *)

(* The magic number goes with the ticket from the request to the deal: a   *)
(* deal of a ticket of ours is ours, and every deal but a balance has a    *)
(* ticket.  A deal that is marked was reported or dropped, as long as the  *)
(* session knows its order.                                                *)
MagicPassedOn ==
  /\ mine \subseteq 1..issued
  /\ \A d \in DOMAIN deals :
       /\ deals[d].order \in mine => deals[d].mine
       /\ deals[d].kind = "balance" => deals[d].order = NoTicket

MarkedWasTold == \A d \in processed : Tracked(d) => reported[d] > 0 \/ d \in dropped

(* What any step does to tickets and deals. *)
Passes(r) ==
  /\ r \in DealType
  /\ r.order \in mine' => r.mine
  /\ r.kind = "balance" => r.order = NoTicket

BooksGrow ==
  /\ mine' \subseteq 1..issued'
  /\ mine' \subseteq mine \cup {issued + 1}
  /\ \/ deals' = deals
     \/ \E r \in DealType : Passes(r) /\ CanDeal /\ deals' = Append(deals, r)

(* The record of a deal that is made now. *)
LEMMA DealPasses ==
  ASSUME day \in 1..MaxDay,
         NEW t \in Tickets \cup {NoTicket}, NEW p \in Tickets \cup {NoTicket},
         NEW kind \in {"open", "close"}, NEW own \in BOOLEAN,
         t \in mine' => own
  PROVE  Passes(Deal(t, p, kind, own))
  BY DEF Passes, Deal, DealType

LEMMA CloseGrowsBooks ==
  ASSUME BooksOK, MagicPassedOn, NEW t, ClosePosition(t)
  PROVE  BooksGrow
  <1>1. /\ issued \in Nat /\ issued + 1 \in Tickets /\ t \in Tickets
        /\ mine \subseteq 1..issued
    BY ExecutionAssumption DEF BooksOK, ClosePosition, CanIssue, Tickets, MagicPassedOn
  <1>2. /\ issued' = issued + 1 /\ CanDeal
        /\ mine' = IF t \in mine THEN mine \cup {issued + 1} ELSE mine
        /\ deals' = Append(deals, Deal(issued + 1, t, "close", t \in mine))
    BY DEF ClosePosition
  <1>3. (t \in mine) \in BOOLEAN /\ (issued + 1 \in mine' => t \in mine)
    <2>1. issued + 1 \notin 1..issued
      BY <1>1
    <2>2. QED BY <1>1, <1>2, <2>1
  <1> DEFINE own == t \in mine
  <1>4. own \in BOOLEAN /\ (issued + 1 \in mine' => own)
    BY <1>3
  <1>5. deals' = Append(deals, Deal(issued + 1, t, "close", own))
    BY <1>2
  <1> HIDE DEF own
  <1>6. Passes(Deal(issued + 1, t, "close", own))
    BY <1>1, <1>4, DealPasses DEF BooksOK
  <1>7. mine' \subseteq 1..issued' /\ mine' \subseteq mine \cup {issued + 1}
    BY <1>1, <1>2
  <1>8. QED BY <1>2, <1>5, <1>6, <1>7 DEF BooksGrow, Passes

LEMMA FillGrowsBooks ==
  ASSUME BooksOK, MagicPassedOn, NEW t \in pending, BrokerFills(t)
  PROVE  BooksGrow
  <1> DEFINE own == t \in mine
  <1>1. t \in Tickets /\ own \in BOOLEAN /\ mine' = mine /\ issued' = issued
    BY ExecutionAssumption DEF BooksOK, BrokerFills, Tickets
  <1>2. CanDeal /\ deals' = Append(deals, Deal(t, t, "open", own))
    BY DEF BrokerFills
  <1>3. t \in mine' => own
    BY <1>1
  <1> HIDE DEF own
  <1>4. Passes(Deal(t, t, "open", own))
    BY <1>1, <1>3, DealPasses DEF BooksOK
  <1>5. QED BY <1>1, <1>2, <1>4 DEF BooksGrow, Passes, MagicPassedOn

LEMMA RequestGrowsBooks ==
  ASSUME BooksOK, MagicPassedOn, NEW o \in Orders, OpenPosition(o) \/ PlacePending(o)
  PROVE  BooksGrow
  <1>1. /\ issued \in Nat /\ issued + 1 \in Tickets
        /\ mine \subseteq 1..issued
    <2>1. issued < MaxTickets
      BY DEF OpenPosition, PlacePending, CanIssue
    <2>2. QED BY <2>1, ExecutionAssumption DEF BooksOK, Tickets, MagicPassedOn
  <1>2. issued' = issued + 1 /\ mine' = mine \cup {issued + 1}
    BY DEF OpenPosition, PlacePending
  <1>3. mine' \subseteq 1..issued' /\ mine' \subseteq mine \cup {issued + 1}
    BY <1>1, <1>2
  <1>4. CASE PlacePending(o)
    BY <1>3, <1>4 DEF PlacePending, BooksGrow
  <1>5. CASE OpenPosition(o)
    <2>1. Passes(Deal(issued + 1, issued + 1, "open", TRUE))
      BY <1>1, DealPasses DEF BooksOK
    <2>2. CanDeal /\ deals' = Append(deals, Deal(issued + 1, issued + 1, "open", TRUE))
      BY <1>5 DEF OpenPosition
    <2>3. QED BY <1>3, <2>1, <2>2 DEF BooksGrow, Passes
  <1>6. QED BY <1>4, <1>5

LEMMA RestGrowsBooks ==
  ASSUME MagicPassedOn, UNCHANGED <<issued, mine, deals>>
  PROVE  BooksGrow
  BY DEF MagicPassedOn, BooksGrow

LEMMA StepGrowsBooks == BooksOK /\ MagicPassedOn /\ [ExecNext]_execVars => BooksGrow
  <1> SUFFICES ASSUME BooksOK, MagicPassedOn, [ExecNext]_execVars PROVE BooksGrow
    OBVIOUS
  <1>1. CASE \/ Connect \/ Disconnect \/ CancelAll \/ PollExecOnce
             \/ RemoveOrder \/ LookUpPosition
             \/ Midnight \/ MT5Fails \/ MT5Recovers
             \/ \E o \in Orders : Cancel(o)
             \/ UNCHANGED execVars
    BY <1>1, RestGrowsBooks
       DEF Connect, Disconnect, CancelAll, PollExecOnce, RemoveOrder, LookUpPosition,
           Midnight, MT5Fails, MT5Recovers, Cancel, execVars, brokerVars
  <1>2. ASSUME NEW o \in Orders, Submit(o) PROVE BooksGrow
    BY <1>2, RequestGrowsBooks, RestGrowsBooks
       DEF Submit, SubmitExecuted, SubmitRefused, SubmitRaises, brokerVars
  <1>3. CASE CloseTarget
    BY <1>3, CloseGrowsBooks, RestGrowsBooks DEF CloseTarget, brokerVars
  <1>4. CASE BrokerStep
    <2>1. ASSUME NEW t \in pending, BrokerExpires(t) PROVE BooksGrow
      BY <2>1, RestGrowsBooks DEF BrokerExpires
    <2>2. CASE BrokerBooks
      <3> DEFINE r == Deal(NoTicket, NoTicket, "balance", TRUE)
      <3>1. r \in DealType /\ r.order = NoTicket /\ r.mine
        BY DEF BooksOK, Deal, DealType
      <3>2. CanDeal /\ deals' = Append(deals, r) /\ UNCHANGED <<issued, mine>>
        BY <2>2 DEF BrokerBooks
      <3> HIDE DEF r
      <3>3. QED BY <3>1, <3>2 DEF BooksGrow, Passes, MagicPassedOn
    <2>3. QED BY <1>4, <2>1, <2>2, CloseGrowsBooks, FillGrowsBooks DEF BrokerStep
  <1>5. QED BY <1>1, <1>2, <1>3, <1>4 DEF ExecNext, ClientStep, Continue

LEMMA MagicPassedOnStep ==
  ASSUME ExecInv, MagicPassedOn, BooksGrow
  PROVE  MagicPassedOn'
  <1>1. BooksOK /\ TicketsKnown
    BY TypeParts DEF ExecInv, OrdersInv
  <1>2. ASSUME NEW d \in DOMAIN deals
        PROVE  /\ deals[d].order \in mine' => deals[d].mine
               /\ deals[d].kind = "balance" => deals[d].order = NoTicket
    <2>1. deals[d].order <= issued /\ issued \in Nat /\ deals[d] \in DealType
      BY <1>1, ExecutionAssumption DEF TicketsKnown, BooksOK, Tickets
    <2>2. deals[d].order # issued + 1
      BY <2>1
    <2>3. deals[d].order \in mine' => deals[d].order \in mine
      BY <2>2 DEF BooksGrow
    <2>4. QED BY <2>3 DEF MagicPassedOn
  <1>3. CASE deals' = deals
    BY <1>2, <1>3 DEF MagicPassedOn, BooksGrow
  <1>4. ASSUME NEW r \in DealType, Passes(r), CanDeal, deals' = Append(deals, r)
        PROVE  MagicPassedOn'
    <2>1. /\ DOMAIN deals' = DOMAIN deals \cup {Len(deals) + 1}
          /\ \A d \in DOMAIN deals : deals'[d] = deals[d]
          /\ deals'[Len(deals) + 1] = r
      BY <1>1, <1>4, DealsGrow DEF BooksOK
    <2>2. QED BY <1>2, <1>4, <2>1 DEF MagicPassedOn, BooksGrow, Passes
  <1>5. QED BY <1>3, <1>4 DEF BooksGrow

(* A ticket of the session's map is ours. *)
LEMMA TrackedIsOurs ==
  ASSUME ExecInv, OursOnly, NEW t \in Tickets, orderOf[t] # NoOrder
  PROVE  t \in mine
  <1>1. PICK o \in Orders : orderOf[t] = o
    BY TypeParts DEF ExecInv, ClientOK
  <1>2. ticketOf[o] = t
    BY <1>1 DEF ExecInv, OrdersInv, MapsInverse
  <1>3. NoTicket \notin Tickets
    BY DEF NoTicket, Tickets
  <1>4. QED BY <1>2, <1>3 DEF OursOnly

(* A deal of a tracked order passes every filter of the poll but the day's *)
(* and the marks'.                                                         *)
LEMMA TrackedIsEmittable ==
  ASSUME ExecInv, OursOnly, MagicPassedOn, NEW d \in DOMAIN deals, Tracked(d)
  PROVE  deals[d].mine /\ Emittable(d) /\ deals[d].order \in Tickets
  <1>1. deals[d] \in DealType
    BY TypeParts DEF ExecInv, BooksOK
  <1>2. deals[d].order \in Tickets /\ orderOf[deals[d].order] # NoOrder
    BY <1>1 DEF Tracked, DealType
  <1>3. deals[d].mine
    BY <1>2, TrackedIsOurs DEF MagicPassedOn
  <1>4. deals[d].kind # "balance"
    BY <1>2 DEF MagicPassedOn, Tracked
  <1>5. QED BY <1>2, <1>3, <1>4 DEF Emittable

(* A poll that is answered reports or drops every new deal it may emit. *)
LEMMA PollTells ==
  ASSUME ExecInv, PollExecOnce, NEW d \in NewDeals, Emittable(d)
  PROVE  reported'[d] > 0 \/ d \in dropped'
  <1>1. d \in Deals /\ reported[d] \in Nat
    BY BatchIsFresh, TypeParts DEF ExecInv, ClientOK
  <1>2. PICK failing \in SUBSET {e \in NewDeals : Emittable(e)} :
          LET batch == {e \in NewDeals : Emittable(e)} \ failing IN
          /\ reported' = [e \in Deals |-> IF e \in batch THEN reported[e] + 1
                                                         ELSE reported[e]]
          /\ dropped' = dropped \cup failing
    BY DEF PollExecOnce
  <1>3. CASE d \in failing
    BY <1>2, <1>3
  <1>4. CASE d \notin failing
    <2>1. reported'[d] = reported[d] + 1
      BY <1>1, <1>2, <1>4
    <2>2. QED BY <1>1, <2>1
  <1>5. QED BY <1>3, <1>4

(* What was told stays told. *)
LEMMA ToldStaysTold ==
  ASSUME ExecInv, [ExecNext]_execVars, NEW d \in Deals, reported[d] > 0 \/ d \in dropped
  PROVE  reported'[d] > 0 \/ d \in dropped'
  <1>1. CASE PollExecOnce
    <2>1. reported[d] \in Nat
      BY TypeParts DEF ExecInv, ClientOK
    <2>2. dropped \subseteq dropped' /\ reported'[d] \in {reported[d], reported[d] + 1}
      BY <1>1 DEF PollExecOnce
    <2>3. QED BY <2>1, <2>2
  <1>2. CASE ~PollExecOnce
    <2>1. reported' = reported
      BY <1>2, OnlyPollsReport DEF Unreported
    <2>2. dropped' = dropped
      BY <1>2 DEF ExecNext, ClientStep, Connect, Disconnect, Submit, Cancel, CancelAll,
                  Continue, RemoveOrder, LookUpPosition, CloseTarget, BrokerStep, Midnight,
                  MT5Fails, MT5Recovers, execVars, faultVars
    <2>3. QED BY <2>1, <2>2
  <1>3. QED BY <1>1, <1>2

(* Which marked deals are tracked: none more than before, as an order gets *)
(* its ticket before the ticket gets a deal.                               *)
LEMMA TrackedBefore ==
  ASSUME ExecInv, [ExecNext]_execVars, NEW d \in DOMAIN deals, deals'[d] = deals[d],
         ~Disconnect, Tracked(d)'
  PROVE  Tracked(d)
  <1>1. /\ deals[d].order \in Tickets /\ deals[d].order <= issued /\ issued \in Nat
        /\ orderOf \in [Tickets -> Orders \cup {NoOrder}]
    <2>1. deals[d] \in DealType /\ issued \in Nat
      BY TypeParts, ExecutionAssumption DEF ExecInv, BooksOK, Tickets
    <2>2. deals[d].order \in Tickets
      BY <2>1 DEF Tracked, DealType
    <2>3. deals[d].order <= issued
      BY DEF ExecInv, OrdersInv, TicketsKnown
    <2>4. QED BY <2>1, <2>2, <2>3, TypeParts DEF ExecInv, ClientOK
  <1>2. CASE orderOf' = orderOf
    BY <1>2 DEF Tracked
  <1>3. ASSUME NEW o \in Orders, orderOf' = [orderOf EXCEPT ![issued + 1] = o]
        PROVE  Tracked(d)
    <2>1. deals[d].order # issued + 1
      BY <1>1
    <2>2. orderOf'[deals[d].order] = orderOf[deals[d].order]
      BY <1>1, <1>3, <2>1
    <2>3. QED BY <2>2 DEF Tracked
  <1>4. orderOf' = orderOf \/ \E o \in Orders : orderOf' = [orderOf EXCEPT ![issued + 1] = o]
    BY DEF ExecNext, ClientStep, Connect, Submit, SubmitExecuted, SubmitRefused,
           SubmitRaises, Respond, Accept, Cancel, CancelAll, PollExecOnce, Continue,
           RemoveOrder, LookUpPosition, CloseTarget, BrokerStep, Midnight, MT5Fails,
           MT5Recovers, execVars, clientVars
  <1>5. QED BY <1>2, <1>3, <1>4

LEMMA MarkedWasToldStep ==
  ASSUME ExecInv, OursOnly, MagicPassedOn, MarkedWasTold, [ExecNext]_execVars
  PROVE  MarkedWasTold'
  <1>1. BooksOK /\ ClientOK /\ DOMAIN deals \subseteq Deals
    <2>1. BooksOK /\ ClientOK
      BY TypeParts DEF ExecInv
    <2>2. DOMAIN deals = 1..Len(deals) /\ Len(deals) \in Nat /\ Len(deals) <= MaxDeals
      BY <2>1 DEF BooksOK
    <2>3. QED BY <2>1, <2>2, ExecutionAssumption DEF Deals
  <1>2. \A d \in DOMAIN deals : deals'[d] = deals[d]
    <2>1. CASE deals' = deals
      BY <2>1
    <2>2. ASSUME NEW r \in DealType, CanDeal, deals' = Append(deals, r)
          PROVE  \A d \in DOMAIN deals : deals'[d] = deals[d]
      BY <1>1, <2>2, DealsGrow DEF BooksOK
    <2>3. QED BY <1>1, <2>1, <2>2, StepGrowsBooks DEF BooksGrow
  <1>3. CASE Disconnect
    BY <1>3 DEF Disconnect, MarkedWasTold
  <1>4. CASE PollExecOnce
    <2>1. ASSUME NEW d \in processed', Tracked(d)'
          PROVE  reported'[d] > 0 \/ d \in dropped'
      <3>1. processed' = processed \cup NewDeals /\ UNCHANGED <<deals, orderOf>>
        BY <1>4 DEF PollExecOnce, brokerVars
      <3>2. Tracked(d)
        BY <2>1, <3>1 DEF Tracked
      <3>3. d \in DOMAIN deals
        BY <3>2 DEF Tracked
      <3>4. CASE d \in processed
        BY <1>1, <3>2, <3>3, <3>4, ToldStaysTold DEF MarkedWasTold
      <3>5. CASE d \in NewDeals
        BY <1>4, <3>2, <3>3, <3>5, TrackedIsEmittable, PollTells
      <3>6. QED BY <3>1, <3>4, <3>5
    <2>2. QED BY <2>1 DEF MarkedWasTold
  <1>5. CASE ~Disconnect /\ ~PollExecOnce
    <2>1. processed' = processed
      BY <1>5 DEF ExecNext, ClientStep, Connect, Submit, Cancel, CancelAll,
                  Continue, RemoveOrder, LookUpPosition, CloseTarget, BrokerStep, Midnight,
                  MT5Fails, MT5Recovers, execVars, clientVars
    <2>2. ASSUME NEW d \in processed, Tracked(d)'
          PROVE  reported'[d] > 0 \/ d \in dropped'
      <3>1. d \in DOMAIN deals
        BY <1>1 DEF ClientOK
      <3>2. Tracked(d)
        BY <1>2, <1>5, <2>2, <3>1, TrackedBefore
      <3>3. QED BY <1>1, <3>1, <3>2, ToldStaysTold DEF MarkedWasTold
    <2>3. QED BY <2>1, <2>2 DEF MarkedWasTold
  <1>6. QED BY <1>3, <1>4, <1>5

(* An answered poll misses no deal of a tracked order: MagicPassedOn keeps  *)
(* it in the poll's selection, MarkedWasTold keeps it unmarked.  With        *)
(* PollTells, such a deal is told to the engine then, or its emission fails. *)
THEOREM EveryPollDelivers == ExecSpec => []PollDelivers
  <1> DEFINE Inv == ExecInv /\ OursOnly /\ MagicPassedOn /\ MarkedWasTold
  <1>1. ExecInit => OursOnly /\ MagicPassedOn /\ MarkedWasTold
    <2> SUFFICES ASSUME ExecInit PROVE OursOnly /\ MagicPassedOn /\ MarkedWasTold
      OBVIOUS
    <2>1. MagicPassedOn
      <3>1. mine \subseteq 1..issued /\ DOMAIN deals = {}
        BY DEF ExecInit
      <3>2. QED BY <3>1 DEF MagicPassedOn
    <2>2. QED BY <2>1 DEF ExecInit, OursOnly, MarkedWasTold
  <1>2. Inv /\ [ExecNext]_execVars => Inv'
    <2> SUFFICES ASSUME Inv, [ExecNext]_execVars PROVE Inv'
      OBVIOUS
    <2>1. BooksOK /\ ExecTypeOK
      BY TypeParts DEF ExecInv
    <2>2. ExecInv'
      BY ExecInvStep
    <2>3. OursOnly'
      BY <2>1, OursOnlyStep
    <2>4. MagicPassedOn'
      BY <2>1, StepGrowsBooks, MagicPassedOnStep
    <2>5. MarkedWasTold'
      BY MarkedWasToldStep
    <2>6. QED BY <2>2, <2>3, <2>4, <2>5
  <1>3. Inv => PollDelivers
    <2> SUFFICES ASSUME Inv, Answers, NEW d \in Deals, Due(d)
                 PROVE  d \in NewDeals /\ Emittable(d)
      BY DEF PollDelivers
    <2>1. d \in DOMAIN deals /\ Tracked(d) /\ deals[d].day = day
      BY DEF Due
    <2>2. d \notin processed
      <3>1. ~(reported[d] > 0) /\ d \notin dropped
        <4>1. reported[d] = 0
          BY DEF Due
        <4>2. QED BY <4>1 DEF Due
      <3>2. QED BY <2>1, <3>1 DEF MarkedWasTold
    <2>3. deals[d].mine /\ Emittable(d)
      BY <2>1, TrackedIsEmittable
    <2>4. QED BY <2>1, <2>2, <2>3 DEF NewDeals, History
  <1> HIDE DEF Inv
  <1>4. ExecInit => Inv
    BY <1>1, ExecInvInit DEF Inv
  <1>5. QED BY <1>2, <1>3, <1>4, PTL DEF ExecSpec

=============================================================================
