------------------------------ MODULE Kitchen ------------------------------
(***************************************************************************)
(* Food and beverage orders: fnb-enhanced.service and its routes in        *)
(* clubs.controller.  An order waits until staff accept it for a kitchen   *)
(* station or reject it, is cooked, is ready, is delivered and invoiced.   *)
(*                                                                         *)
(* A handler loads the order and the station, then saves the station and,  *)
(* later, the order.  A save takes two steps: it loads the row once more,  *)
(* then writes the columns in which the row the handler holds differs from *)
(* what it found, leaving the others as they are by then.                  *)
(***************************************************************************)
EXTENDS Integers, FiniteSetsExt

CONSTANTS
  MaxOrders,  \* bound: orders placed in the club
  MaxCount,   \* bound: numbers given out, and orders counted at a station
  Stations,   \* known by their numbers, which the database keeps apart
  Servers     \* slots for requests under way

VARIABLES
  order,      \* order[o]: the row o of fnb_orders, numbered as they were created
  station,    \* station[s]: the row s of kitchen_stations
  serving     \* serving[h]: the request in slot h and the rows it has loaded

vars == <<order, station, serving>>

Orders == 1..MaxOrders
Status == {"unused", "pending", "processing", "ready", "delivered", "cancelled"}

\* An order or invoice number of 0 stands for NULL; accepted is is_accepted.
Order == [status : Status, accepted : {"null", "true", "false"}, number : 0..MaxCount,
          station : Stations \cup {"none"}, invoice : 0..MaxCount]
NoOrder == [status |-> "unused", accepted |-> "null", number |-> 0, station |-> "none",
            invoice |-> 0]

Station == [there : BOOLEAN, active : BOOLEAN, pending : 0..MaxCount, completed : 0..MaxCount]
NoStation == [there |-> FALSE, active |-> FALSE, pending |-> 0, completed |-> 0]

\* row and books are the rows the handler holds; base and was, what their saves
\* have found.
Request == [pc : {"idle", "queue", "count", "counting", "order", "ordering", "station", "changing",
                  "remove"},
            o : Orders \cup {0}, row : Order, base : Order,
            s : Stations \cup {"none"}, books : Station, was : Station]
Idle == [pc |-> "idle", o |-> 0, row |-> NoOrder, base |-> NoOrder, s |-> "none",
         books |-> NoStation, was |-> NoStation]

TypeOK ==
  /\ order \in [Orders -> Order] /\ station \in [Stations -> Station]
  /\ serving \in [Servers -> Request]

Init ==
  /\ order = [o \in Orders |-> NoOrder] /\ station = [s \in Stations |-> NoStation]
  /\ serving = [h \in Servers |-> Idle]

-----------------------------------------------------------------------------
At(h, pc) == serving[h].pc = pc
Becomes(h, r) == serving' = [serving EXCEPT ![h] = r]
Reading == UNCHANGED <<order, station>>

\* The handler has loaded order o and goes on to write `row`.
Goes(h, pc, o, row) ==
  /\ At(h, "idle") /\ Reading
  /\ Becomes(h, [Idle EXCEPT !.pc = pc, !.o = o, !.row = row, !.s = row.station])

OneLess(n) == IF n = 0 THEN 0 ELSE n - 1

\* generateOrderNumber: one more than that of the order created last among
\* those that have one.
Numbered == {o \in Orders : order[o].number # 0}
NextNumber == IF Numbered = {} THEN 1 ELSE order[Max(Numbered)].number + 1

\* generateInvoiceNumber: one more than that of the order invoiced last.
NextInvoice == Max({0} \cup {order[o].invoice : o \in Orders}) + 1

\* The columns of a row that a save writes, and those it leaves as they are now.
Column(mine, found, now) == IF mine = found THEN now ELSE mine
OrderSaved(mine, found, now) ==
  [status |-> Column(mine.status, found.status, now.status),
   accepted |-> Column(mine.accepted, found.accepted, now.accepted),
   number |-> Column(mine.number, found.number, now.number),
   station |-> Column(mine.station, found.station, now.station),
   invoice |-> Column(mine.invoice, found.invoice, now.invoice)]
StationSaved(mine, found, now) ==
  [there |-> now.there,
   active |-> Column(mine.active, found.active, now.active),
   pending |-> Column(mine.pending, found.pending, now.pending),
   completed |-> Column(mine.completed, found.completed, now.completed)]

-----------------------------------------------------------------------------
(* Orders.                                                                 *)

\* The player's app and the staff place orders alike.
CreateOrder(o) ==
  /\ order[o].status = "unused" /\ \A p \in 1..(o - 1) : order[p].status # "unused"
  /\ order' = [order EXCEPT ![o] = [NoOrder EXCEPT !.status = "pending"]]
  /\ UNCHANGED <<station, serving>>

\* The order is numbered and counted at the station as it was when loaded.
AcceptOrder(h, o, s) ==
  /\ At(h, "idle") /\ order[o].status = "pending" /\ order[o].accepted = "null"
  /\ station[s].there /\ station[s].active
  /\ NextNumber <= MaxCount /\ station[s].pending < MaxCount
  /\ Becomes(h, [Idle EXCEPT !.pc = "count", !.o = o, !.s = s,
       !.row = [order[o] EXCEPT !.status = "processing", !.accepted = "true",
                                !.number = NextNumber, !.station = s],
       !.books = [station[s] EXCEPT !.pending = @ + 1]])
  /\ Reading

RejectOrder(h, o) ==
  /\ order[o].status = "pending" /\ order[o].accepted = "null"
  /\ Goes(h, "order", o, [order[o] EXCEPT !.status = "cancelled", !.accepted = "false"])

MarkOrderReady(h, o) ==
  /\ order[o].status = "processing"
  /\ Goes(h, "order", o, [order[o] EXCEPT !.status = "ready"])

Delivered(o) == [order[o] EXCEPT !.status = "delivered", !.invoice = NextInvoice]

MarkOrderDelivered(h, o) ==
  order[o].status = "ready" /\ NextInvoice <= MaxCount /\ Goes(h, "queue", o, Delivered(o))

\* isValidStatusTransition.
Follows(status) ==
  CASE status = "pending" -> {"processing", "cancelled"}
    [] status = "processing" -> {"ready", "cancelled"}
    [] status = "ready" -> {"delivered", "cancelled"}
    [] OTHER -> {}

\* The status may be set directly.  An order set to processing gets neither a
\* number nor a station, one set to cancelled stays in its station's count, and
\* one that has an invoice already is delivered without being counted.
UpdateOrderStatus(h, o, status) ==
  /\ status \in Follows(order[o].status)
  /\ status = "delivered" => NextInvoice <= MaxCount
  /\ IF status = "delivered" /\ order[o].invoice = 0
     THEN Goes(h, "queue", o, Delivered(o))
     ELSE Goes(h, "order", o, [order[o] EXCEPT !.status = status])

\* Only an order that is being cooked is taken from its station's count.
CancelOrder(h, o) ==
  /\ order[o].status \in {"pending", "processing", "ready"}
  /\ Goes(h, IF order[o].status = "processing" THEN "queue" ELSE "order", o,
          [order[o] EXCEPT !.status = "cancelled"])

\* Fault: an order cancelled while it is cooked counts as completed.
AnyCompleted(row) == 1
\* The station's completed count goes up by one for an order delivered.
CompletedBy(row) == IF row.status = "delivered" THEN 1 ELSE 0

\* The station is loaded again, if the order has one that is still there.
LoadStation(h) ==
  LET r == serving[h] IN
  /\ At(h, "queue") /\ Reading
  /\ r.s # "none" => station[r.s].completed < MaxCount
  /\ IF r.s # "none" /\ station[r.s].there
     THEN Becomes(h, [r EXCEPT !.pc = "count",
            !.books = [station[r.s] EXCEPT !.pending = OneLess(@),
                                           !.completed = @ + CompletedBy(r.row)]])
     ELSE Becomes(h, [r EXCEPT !.pc = "order"])

\* The save of the count finds the station's row, or fails: the row it would
\* insert anew was loaded without its club.
ReloadCount(h) ==
  LET r == serving[h] IN
  /\ At(h, "count") /\ Reading
  /\ Becomes(h, IF station[r.s].there
                THEN [r EXCEPT !.pc = "counting", !.was = station[r.s]] ELSE Idle)

\* An UPDATE of a row that is gone writes nothing.
StationWritten(h) ==
  LET r == serving[h] IN
  station' = IF station[r.s].there
             THEN [station EXCEPT ![r.s] = StationSaved(r.books, r.was, @)] ELSE station

CountAtStation(h) ==
  /\ At(h, "counting") /\ StationWritten(h) /\ UNCHANGED order
  /\ Becomes(h, [serving[h] EXCEPT !.pc = "order"])

ReloadOrder(h) ==
  /\ At(h, "order") /\ Reading
  /\ Becomes(h, [serving[h] EXCEPT !.pc = "ordering", !.base = order[serving[h].o]])

\* The foreign key refuses to write the number of a station that is gone.
SaveOrder(h) ==
  LET r == serving[h] IN
  /\ At(h, "ordering") /\ Becomes(h, Idle) /\ UNCHANGED station
  /\ IF /\ r.row.station \notin {r.base.station, "none"}
        /\ ~station[r.row.station].there
     THEN UNCHANGED order
     ELSE order' = [order EXCEPT ![r.o] = OrderSaved(r.row, r.base, @)]

-----------------------------------------------------------------------------
(* Stations.                                                               *)

CreateKitchenStation(s) ==
  /\ ~station[s].there
  /\ station' = [station EXCEPT ![s] = [NoStation EXCEPT !.there = TRUE, !.active = TRUE]]
  /\ UNCHANGED <<order, serving>>

\* The form holds the counts as they were loaded.
UpdateKitchenStation(h, s, active) ==
  /\ At(h, "idle") /\ station[s].there
  /\ Becomes(h, [Idle EXCEPT !.pc = "station", !.s = s,
                             !.books = [station[s] EXCEPT !.active = active]])
  /\ Reading

\* This row was loaded with its club: the save inserts it anew if it is gone.
ReloadStation(h) ==
  LET r == serving[h] IN
  /\ At(h, "station") /\ UNCHANGED order
  /\ IF station[r.s].there
     THEN /\ Becomes(h, [r EXCEPT !.pc = "changing", !.was = station[r.s]])
          /\ UNCHANGED station
     ELSE Becomes(h, Idle) /\ station' = [station EXCEPT ![r.s] = r.books]

SaveStation(h) ==
  At(h, "changing") /\ StationWritten(h) /\ Becomes(h, Idle) /\ UNCHANGED order

\* Orders that are ready do not keep a station.
DeleteKitchenStation(h, s) ==
  /\ At(h, "idle") /\ station[s].there
  /\ \A o \in Orders : ~(order[o].station = s /\ order[o].status = "processing")
  /\ Becomes(h, [Idle EXCEPT !.pc = "remove", !.s = s])
  /\ Reading

\* Its orders are kept, without a station.
RemoveStation(h) ==
  LET s == serving[h].s IN
  /\ At(h, "remove") /\ Becomes(h, Idle)
  /\ station' = [station EXCEPT ![s] = NoStation]
  /\ order' = [o \in Orders |->
       IF order[o].station = s THEN [order[o] EXCEPT !.station = "none"] ELSE order[o]]

-----------------------------------------------------------------------------
LoadStep(h) ==
  \/ \E o \in Orders :
       \/ CreateOrder(o) \/ RejectOrder(h, o) \/ MarkOrderReady(h, o) \/ MarkOrderDelivered(h, o)
       \/ CancelOrder(h, o)
       \/ \E s \in Stations : AcceptOrder(h, o, s)
       \/ \E status \in Status : UpdateOrderStatus(h, o, status)
  \/ \E s \in Stations :
       \/ CreateKitchenStation(s) \/ DeleteKitchenStation(h, s)
       \/ \E active \in BOOLEAN : UpdateKitchenStation(h, s, active)

WriteStep(h) ==
  \/ LoadStation(h) \/ ReloadCount(h) \/ CountAtStation(h) \/ ReloadOrder(h) \/ SaveOrder(h)
  \/ ReloadStation(h) \/ SaveStation(h) \/ RemoveStation(h)

Next == \E h \in Servers : LoadStep(h) \/ WriteStep(h)

Spec == Init /\ [][Next]_vars

-----------------------------------------------------------------------------
(* Properties.                                                             *)

InTurn == \A h \in Servers : At(h, "idle")

\* Between requests, no two delivered orders share an invoice number: what
\* generateInvoiceNumber reads is the last number given out, whichever order
\* of the club it was given to.
InvoicesApart ==
  \A o, p \in Orders : o # p /\ order[o].invoice # 0 => order[o].invoice # order[p].invoice

\* Between requests, a station's completed count is the number of its orders
\* that were delivered, and its pending count misses none of its orders that
\* are not served yet, whichever routes they were moved on, cancelled or
\* delivered by.  (It may keep counting orders that were cancelled when ready.)
StationBooksAgree ==
  \A s \in Stations : station[s].there =>
    LET at(status) == Cardinality({o \in Orders : order[o].station = s
                                                  /\ order[o].status \in status}) IN
    /\ station[s].completed = at({"delivered"})
    /\ station[s].pending >= at({"processing", "ready"})

\* Between requests, exactly the delivered orders have an invoice.  (A
\* cancellation that overlaps a delivery may leave one on a cancelled order.)
InvoicedIffDelivered ==
  \A o \in Orders : order[o].invoice # 0 <=> order[o].status = "delivered"
=============================================================================
