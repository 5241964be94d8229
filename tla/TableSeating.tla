--------------------------- MODULE TableSeating ---------------------------
(***************************************************************************)
(* Seating: the waitlist, the tables, and the request handlers that move   *)
(* players between them (waitlist-seating.service.ts, the table-session    *)
(* endpoints of clubs.controller.ts, the seat side of buyout-request.      *)
(* service.ts, player-playtime.service.ts and auth.service.ts).            *)
(*                                                                         *)
(* The database holds one row per waitlist entry and per table.  A request *)
(* is a small program: every await of the code that reads or writes a row  *)
(* is a step, so the requests of two staff members or players interleave   *)
(* exactly where the code lets them.  Three kinds of write occur:          *)
(*  - a transaction that locks its rows is one step, taken when it holds   *)
(*    its last lock;                                                       *)
(*  - a single UPDATE, INSERT or DELETE statement is one step;             *)
(*  - repository.save(entity) is two: save reads the row again, then       *)
(*    updates the columns in which the ENTITY - loaded earlier, possibly   *)
(*    long out of date - differs from what that read returned.             *)
(***************************************************************************)
EXTENDS Integers, Sequences, FiniteSetsExt

CONSTANTS
  Players,      \* the club's players
  Entries,      \* waitlist row ids; each is inserted at most once
  Tables,       \* tables, named by their number
  Seats,        \* seat numbers
  Handlers,     \* request slots: how many requests can be in flight at once
  Ops,          \* the operations this instance lets requests perform
  PartySizes,   \* party sizes a waitlist entry may ask for
  TableSizes,   \* values of maxSeats
  Games,        \* the games a table offers and an entry asks for
  MaxCalls,     \* bound on the pending buy-out requests of one player
  NoPlayer, NoEntry, NoTable, NoSeat

ASSUME SeatingAssumption ==
  /\ PartySizes \subseteq Nat \ {0}
  /\ TableSizes \subseteq Nat \ {0}
  /\ MaxCalls \in Nat
  /\ NoPlayer \notin Players
  /\ NoEntry \notin Entries
  /\ NoTable \notin Tables
  /\ NoSeat \notin Seats
  /\ Games # {} /\ PartySizes # {} /\ TableSizes # {}

VARIABLES
  entry,   \* entry[e]: the waitlist_entries row e
  table,   \* table[t]: the tables row of table number t
  calls,   \* calls[p][t]: pending buyout_requests of p that name table t
  req      \* req[h]: the request in slot h and what it has read so far

vars == <<entry, table, calls, req>>

EntryStatus == {"UNUSED", "DELETED", "PENDING", "SEATED", "CANCELLED"}
TableStatus == {"AVAILABLE", "OCCUPIED", "RESERVED", "MAINTENANCE", "CLOSED"}
NoRow == {"UNUSED", "DELETED"}    \* statuses of a row that is not in its table
Session == {"ended", "running", "paused"}    \* the marker in tables.notes

WaitlistEntry ==
  [status : EntryStatus, player : Players \cup {NoPlayer},
   party : PartySizes \cup {0}, game : Games \cup {"none"},
   table : Tables \cup {NoTable}, seat : Seats \cup {NoSeat}]

TableRow ==
  [status : TableStatus \cup NoRow, game : Games \cup {"none"},
   max : TableSizes \cup {0}, cur : Nat, session : Session]

BlankEntry == [status |-> "UNUSED", player |-> NoPlayer, party |-> 0,
               game |-> "none", table |-> NoTable, seat |-> NoSeat]
BlankTable == [status |-> "UNUSED", game |-> "none", max |-> 0, cur |-> 0,
               session |-> "ended"]

Patch == {"AVAILABLE", "CLOSED", "noSeats", "ended", "running", "paused"}

\* Where a request stands: the await it is suspended at.
PC == {"idle", "recheckPending", "insertEntry", "loadEntry", "saveEntry",
       "writeEntry", "removeEntry", "seatTx", "unseatTable", "loadTable",
       "saveTable", "writeTable", "insertTable", "removeTable", "insertCall",
       "manualTx", "settleTx"}

Request ==
  [op : Ops \cup {"none"}, pc : PC, player : Players \cup {NoPlayer},
   e : Entries \cup {NoEntry}, t : Tables \cup {NoTable},
   ent : WaitlistEntry, entBase : WaitlistEntry,
   tab : TableRow, tabBase : TableRow, todo : Seq(Patch)]

Idle == [op |-> "none", pc |-> "idle", player |-> NoPlayer,
         e |-> NoEntry, t |-> NoTable,
         ent |-> BlankEntry, entBase |-> BlankEntry,
         tab |-> BlankTable, tabBase |-> BlankTable, todo |-> <<>>]

TypeOK ==
  /\ entry \in [Entries -> WaitlistEntry]
  /\ table \in [Tables -> TableRow]
  /\ calls \in [Players -> [Tables -> Nat]]
  /\ req \in [Handlers -> Request]

\* A club whose tables may already be open, with nobody on the waitlist.
Init ==
  /\ entry = [e \in Entries |-> BlankEntry]
  /\ table \in [Tables -> {BlankTable} \cup
        [status : {"AVAILABLE"}, game : Games, max : TableSizes,
         cur : {0}, session : {"running"}]]
  /\ calls = [p \in Players |-> [t \in Tables |-> 0]]
  /\ req = [h \in Handlers |-> Idle]

-----------------------------------------------------------------------------
(* Reading rows.                                                           *)

Has(e, status) == entry[e].status = status
Exists(t) == table[t].status \in TableStatus
SeatedAt(t) == {e \in Entries : Has(e, "SEATED") /\ entry[e].table = t}
EntriesOf(p, status) == {e \in Entries : Has(e, status) /\ entry[e].player = p}
HasActiveSession(row) == row.session # "ended"

\* Fault: the seat check looks at the rows still waiting.
SeatTakenByWaiting(e, t, s) ==
  \E f \in Entries \ {e} : Has(f, "PENDING") /\ entry[f].table = t /\ entry[f].seat = s

\* The seat check of assignSeat: another SEATED row already has the seat.
SeatTaken(e, t, s) == \E f \in SeatedAt(t) \ {e} : entry[f].seat = s

Open(row) == row.status \in {"AVAILABLE", "RESERVED"}
\* Fault: asks for a free chair, not for one per person.
FitsOne(row, party) == row.cur < row.max

Fits(row, party) == row.cur + party <= row.max
Matches(row, ent) == row.game = ent.game

-----------------------------------------------------------------------------
(* TypeORM's save: the row it reads first is the base; it writes the       *)
(* columns where the entity differs from the base, inserts when the base   *)
(* was missing, and updates nothing when the row has gone since.           *)

Changed(db, base, ent) == IF ent # base THEN ent ELSE db

MergedEntry(db, base, ent) ==
  [status |-> Changed(db.status, base.status, ent.status),
   player |-> Changed(db.player, base.player, ent.player),
   party  |-> Changed(db.party, base.party, ent.party),
   game   |-> Changed(db.game, base.game, ent.game),
   table  |-> Changed(db.table, base.table, ent.table),
   seat   |-> Changed(db.seat, base.seat, ent.seat)]

MergedTable(db, base, ent) ==
  [status  |-> Changed(db.status, base.status, ent.status),
   game    |-> Changed(db.game, base.game, ent.game),
   max     |-> Changed(db.max, base.max, ent.max),
   cur     |-> Changed(db.cur, base.cur, ent.cur),
   session |-> Changed(db.session, base.session, ent.session)]

SavedEntry(db, base, ent) ==
  CASE base.status \in NoRow /\ db.status \in NoRow -> ent
    [] base.status \notin NoRow /\ db.status \notin NoRow ->
         MergedEntry(db, base, ent)
    [] OTHER -> db

SavedTable(db, base, ent) ==
  CASE base.status \in NoRow /\ db.status \in NoRow -> ent
    [] base.status \notin NoRow /\ db.status \notin NoRow ->
         MergedTable(db, base, ent)
    [] OTHER -> db

-----------------------------------------------------------------------------
(* Requests.                                                               *)

Free(h, op) == req[h].pc = "idle" /\ op \in Ops
At(h, pc) == req[h].pc = pc
Becomes(h, r) == req' = [req EXCEPT ![h] = r]
Goto(h, pc) == req' = [req EXCEPT ![h].pc = pc]
Done(h) == Becomes(h, Idle)

\* save(entity): first the SELECT ...
SaveEntry(h) ==
  /\ At(h, "saveEntry")
  /\ Becomes(h, [req[h] EXCEPT !.pc = "writeEntry",
                                !.entBase = entry[req[h].e]])
  /\ UNCHANGED <<entry, table, calls>>

\* ... then the UPDATE (or INSERT) of the columns that differ.
WriteEntry(h) ==
  /\ At(h, "writeEntry")
  /\ entry' = [entry EXCEPT ![req[h].e] =
                 SavedEntry(@, req[h].entBase, req[h].ent)]
  /\ Done(h)
  /\ UNCHANGED <<table, calls>>

SaveTable(h) ==
  /\ At(h, "saveTable")
  /\ Becomes(h, [req[h] EXCEPT !.pc = "writeTable",
                                !.tabBase = table[req[h].t]])
  /\ UNCHANGED <<entry, table, calls>>

\* After its table, unseatPlayer goes on to save the entry; the session
\* endpoints go on to their next patch of the table.
WriteTable(h) ==
  /\ At(h, "writeTable")
  /\ table' = [table EXCEPT ![req[h].t] =
                 SavedTable(@, req[h].tabBase, req[h].tab)]
  /\ IF req[h].op = "unseatPlayer" THEN Goto(h, "saveEntry")
     ELSE IF req[h].todo # <<>> THEN Goto(h, "loadTable") ELSE Done(h)
  /\ UNCHANGED <<entry, calls>>

\* updateTableStatus, resetTableSeats and updateTableNotes: each loads the
\* table afresh, sets one column and saves.
Patched(row, p) ==
  CASE p \in {"AVAILABLE", "CLOSED"} -> [row EXCEPT !.status = p]
    [] p = "noSeats"                 -> [row EXCEPT !.cur = 0]
    [] OTHER                         -> [row EXCEPT !.session = p]

LoadTable(h) ==
  /\ At(h, "loadTable")
  /\ IF Exists(req[h].t)
     THEN Becomes(h, [req[h] EXCEPT
            !.pc = "saveTable", !.todo = Tail(@),
            !.tab = Patched(table[req[h].t], Head(req[h].todo))])
     ELSE Done(h)
  /\ UNCHANGED <<entry, table, calls>>

\* An error or a process crash between two awaits: what was written stays.
Abandon(h) ==
  /\ "crash" \in Ops
  /\ req[h].pc # "idle"
  /\ Done(h)
  /\ UNCHANGED <<entry, table, calls>>

-----------------------------------------------------------------------------
(* Waitlist operations.                                                    *)

\* Staff add a player: refused while the player has a PENDING entry.
CreateWaitlistEntry(h, p) ==
  /\ Free(h, "createWaitlistEntry")
  /\ EntriesOf(p, "PENDING") = {}
  /\ Becomes(h, [Idle EXCEPT !.op = "createWaitlistEntry", !.pc = "insertEntry",
                !.player = p])
  /\ UNCHANGED <<entry, table, calls>>

\* Fault: a seated player may join again.
JoinWhileSeated(h, p) ==
  /\ Free(h, "joinWaitlist")
  /\ EntriesOf(p, "PENDING") = {}
  /\ Becomes(h, [Idle EXCEPT !.op = "joinWaitlist", !.pc = "recheckPending", !.player = p])
  /\ UNCHANGED <<entry, table, calls>>

\* A player joins: refused while pending or seated, or when no table exists;
\* the service then repeats the staff check.
JoinWaitlist(h, p) ==
  /\ Free(h, "joinWaitlist")
  /\ EntriesOf(p, "PENDING") \cup EntriesOf(p, "SEATED") = {}
  /\ \E t \in Tables : Exists(t)
  /\ Becomes(h, [Idle EXCEPT !.op = "joinWaitlist", !.pc = "recheckPending", !.player = p])
  /\ UNCHANGED <<entry, table, calls>>

RecheckPending(h) ==
  /\ At(h, "recheckPending")
  /\ IF EntriesOf(req[h].player, "PENDING") = {}
     THEN Goto(h, "insertEntry")
     ELSE Done(h)
  /\ UNCHANGED <<entry, table, calls>>

InsertEntry(h) ==
  /\ At(h, "insertEntry")
  /\ \E e \in Entries, n \in PartySizes, g \in Games :
       /\ Has(e, "UNUSED")
       /\ entry' = [entry EXCEPT ![e] =
            [status |-> "PENDING", player |-> req[h].player, party |-> n,
             game |-> g, table |-> NoTable, seat |-> NoSeat]]
  /\ Done(h)
  /\ UNCHANGED <<table, calls>>

\* The endpoint checks the status of one read, the service edits another.
UpdateWaitlistEntry(h, e) ==
  /\ Free(h, "updateWaitlistEntry")
  /\ Has(e, "PENDING")
  /\ Becomes(h, [Idle EXCEPT !.op = "updateWaitlistEntry", !.pc = "loadEntry", !.e = e])
  /\ UNCHANGED <<entry, table, calls>>

EditLoadedEntry(h) ==
  /\ At(h, "loadEntry")
  /\ IF entry[req[h].e].status \in NoRow
     THEN Done(h)
     ELSE \E n \in PartySizes :
            Becomes(h, [req[h] EXCEPT !.pc = "saveEntry",
                          !.ent = [entry[req[h].e] EXCEPT !.party = n]])
  /\ UNCHANGED <<entry, table, calls>>

\* Staff or the player cancel; only PENDING passes the endpoint and the service.
CancelWaitlistEntry(h, e) ==
  /\ Free(h, "cancelWaitlistEntry")
  /\ Has(e, "PENDING")
  /\ Becomes(h, [Idle EXCEPT !.op = "cancelWaitlistEntry", !.pc = "saveEntry",
                !.e = e, !.ent = [entry[e] EXCEPT !.status = "CANCELLED"]])
  /\ UNCHANGED <<entry, table, calls>>

DeleteWaitlistEntry(h, e) ==
  /\ Free(h, "deleteWaitlistEntry")
  /\ entry[e].status \in {"PENDING", "CANCELLED"}
  /\ Becomes(h, [Idle EXCEPT !.op = "deleteWaitlistEntry", !.pc = "removeEntry", !.e = e])
  /\ UNCHANGED <<entry, table, calls>>

RemoveEntry(h) ==
  /\ At(h, "removeEntry")
  /\ entry' = [entry EXCEPT ![req[h].e] = [BlankEntry EXCEPT !.status = "DELETED"]]
  /\ Done(h)
  /\ UNCHANGED <<table, calls>>

-----------------------------------------------------------------------------
(* Seating.                                                                *)

\* assignSeat before its transaction: unlocked checks, the only place where
\* the game of the entry is compared with the game of the table.
AssignSeat(h, e, t) ==
  /\ Free(h, "assignSeat")
  /\ Has(e, "PENDING")
  /\ Open(table[t])
  /\ Fits(table[t], entry[e].party)
  /\ Matches(table[t], entry[e])
  /\ Becomes(h, [Idle EXCEPT !.op = "assignSeat", !.pc = "seatTx", !.e = e, !.t = t])
  /\ UNCHANGED <<entry, table, calls>>

\* Faults: the status, or the session, is not checked again under the locks.
MaySeatStale(e, t, s) ==
  /\ entry[e].status \notin NoRow
  /\ Open(table[t]) /\ Fits(table[t], entry[e].party) /\ HasActiveSession(table[t])
  /\ s # NoSeat => ~SeatTaken(e, t, s)

MaySeatNoSession(e, t, s) ==
  /\ Has(e, "PENDING") /\ Open(table[t]) /\ Fits(table[t], entry[e].party)
  /\ s # NoSeat => ~SeatTaken(e, t, s)

\* What the transaction checks again once it holds the entry and the table.
MaySeat(e, t, s) ==
  /\ entry[e].status \notin NoRow \cup {"SEATED", "CANCELLED"}
  /\ Open(table[t])
  /\ Fits(table[t], entry[e].party)
  /\ HasActiveSession(table[t])
  /\ s # NoSeat => ~SeatTaken(e, t, s)

Filled(row, n) ==
  [row EXCEPT !.cur = @ + n,
              !.status = IF row.cur + n >= row.max THEN "OCCUPIED" ELSE "AVAILABLE"]

SeatTx(h) ==
  /\ At(h, "seatTx")
  /\ \E s \in Seats \cup {NoSeat} :
       /\ MaySeat(req[h].e, req[h].t, s)
       /\ entry' = [entry EXCEPT ![req[h].e] =
            [@ EXCEPT !.status = "SEATED", !.table = req[h].t, !.seat = s]]
       /\ table' = [table EXCEPT ![req[h].t] = Filled(@, entry[req[h].e].party)]
  /\ Done(h)
  /\ UNCHANGED calls

\* The transaction refuses: a check failed, or the player's wallet, credit or
\* minimum buy-in did (their numbers are the subject of TableMoney).
SeatTxRefused(h) ==
  /\ At(h, "seatTx")
  /\ Done(h)
  /\ UNCHANGED <<entry, table, calls>>

\* unseatPlayer reads the entry, then the table, saves the table, and saves
\* the entry it read at the start: back in the queue, or closed.
UnseatPlayer(h, e, requeue) ==
  /\ Free(h, "unseatPlayer")
  /\ Has(e, "SEATED")
  /\ entry[e].table # NoTable
  /\ Becomes(h, [Idle EXCEPT !.op = "unseatPlayer", !.pc = "unseatTable",
       !.e = e, !.t = entry[e].table,
       !.ent = [entry[e] EXCEPT !.table = NoTable,
                  !.status = IF requeue THEN "PENDING" ELSE "CANCELLED"]])
  /\ UNCHANGED <<entry, table, calls>>

Less(cur, n) == IF cur > n THEN cur - n ELSE 0

\* Fault: one chair is freed, whatever the party.
VacatedOne(row, n) ==
  [row EXCEPT !.cur = Less(@, 1),
              !.status = IF Less(row.cur, 1) = 0 THEN "AVAILABLE" ELSE @]

Vacated(row, n) ==
  [row EXCEPT !.cur = Less(@, n),
              !.status = IF Less(row.cur, n) = 0 THEN "AVAILABLE" ELSE @]

UnseatTable(h) ==
  /\ At(h, "unseatTable")
  /\ IF Exists(req[h].t)
     THEN Becomes(h, [req[h] EXCEPT !.pc = "saveTable",
                        !.tab = Vacated(table[req[h].t], req[h].ent.party)])
     ELSE Goto(h, "saveEntry")
  /\ UNCHANGED <<entry, table, calls>>

-----------------------------------------------------------------------------
(* Tables.                                                                 *)

\* Staff may give a new table any notes, a session marker among them.
CreateTable(h, t) ==
  /\ Free(h, "createTable")
  /\ ~Exists(t)
  /\ \E g \in Games, m \in TableSizes, n \in Session :
       Becomes(h, [Idle EXCEPT !.op = "createTable", !.pc = "insertTable", !.t = t,
         !.tab = [status |-> "AVAILABLE", game |-> g, max |-> m, cur |-> 0, session |-> n]])
  /\ UNCHANGED <<entry, table, calls>>

\* A table number is unique in its club; a deleted one is not used again here.
InsertTable(h) ==
  /\ At(h, "insertTable")
  /\ table' = [table EXCEPT ![req[h].t] =
                 IF @.status = "UNUSED" THEN req[h].tab ELSE @]
  /\ Done(h)
  /\ UNCHANGED <<entry, calls>>

\* Staff set a table's size, game, status or notes; the notes are free text, so
\* that an edit of them erases or sets the session marker.
UpdateTable(h, t) ==
  /\ Free(h, "updateTable")
  /\ Exists(t)
  /\ \E m \in TableSizes \cup {table[t].max}, g \in Games, st \in TableStatus, n \in Session :
       /\ m >= table[t].cur \/ m = table[t].max
       /\ st = "AVAILABLE" => table[t].cur = 0 \/ table[t].status = st
       /\ Becomes(h, [Idle EXCEPT !.op = "updateTable", !.pc = "saveTable", !.t = t,
            !.tab = [table[t] EXCEPT !.max = m, !.game = g, !.status = st, !.session = n]])
  /\ UNCHANGED <<entry, table, calls>>

DeleteTable(h, t) ==
  /\ Free(h, "deleteTable")
  /\ Exists(t)
  /\ table[t].cur = 0
  /\ table[t].status # "OCCUPIED"
  /\ Becomes(h, [Idle EXCEPT !.op = "deleteTable", !.pc = "removeTable", !.t = t])
  /\ UNCHANGED <<entry, table, calls>>

RemoveTable(h) ==
  /\ At(h, "removeTable")
  /\ table' = [table EXCEPT ![req[h].t] = [BlankTable EXCEPT !.status = "DELETED"]]
  /\ Done(h)
  /\ UNCHANGED <<entry, calls>>

\* The session endpoints read the table once and then patch it column by
\* column; the notes they write are rebuilt from that first read.
Session_(h, op, t, patches) ==
  /\ Free(h, op)
  /\ Exists(t)
  /\ Becomes(h, [Idle EXCEPT !.op = op, !.pc = "loadTable", !.t = t, !.todo = patches])
  /\ UNCHANGED <<entry, table, calls>>

PauseSession(h, t) ==
  Session_(h, "pauseSession", t,
    IF table[t].session = "running" THEN <<"AVAILABLE", "paused">> ELSE <<"AVAILABLE">>)

ResumeSession(h, t) == Session_(h, "resumeSession", t, <<"AVAILABLE", "running">>)

\* Refused while the table counts or seats anybody.
EndSession(h, t) ==
  /\ table[t].cur = 0
  /\ SeatedAt(t) = {}
  /\ Session_(h, "endSession", t, <<"CLOSED", "noSeats", "ended">>)

\* Rebuilding the notes from their first seven parts drops the session marker.
UpdateSessionParams(h, t) == Session_(h, "updateSessionParams", t, <<"ended">>)

-----------------------------------------------------------------------------
(* Leaving a table with a buy-out.                                         *)

ClosedOut(row) == [row EXCEPT !.status = "CANCELLED", !.table = NoTable, !.seat = NoSeat]

\* UPDATE waitlist_entries SET status = 'CANCELLED' ... WHERE status = 'SEATED'
CloseEntries(S) ==
  entry' = [e \in Entries |-> IF e \in S THEN ClosedOut(entry[e]) ELSE entry[e]]

\* Fault: without GREATEST the counter falls below zero.
FreeOneSeatUnclamped(t) ==
  table' = [table EXCEPT ![t].cur = @ - 1]

\* UPDATE tables SET current_seats = GREATEST(0, current_seats - 1)
FreeOneSeat(t) ==
  table' = [table EXCEPT ![t].cur = Less(@, 1)]

\* A seated player calls time: a pending buy-out request for that table.
StartCallTime(h, e) ==
  /\ Free(h, "startCallTime")
  /\ Has(e, "SEATED")
  /\ entry[e].table # NoTable
  /\ \A t \in Tables : calls[entry[e].player][t] = 0
  /\ Becomes(h, [Idle EXCEPT !.op = "startCallTime", !.pc = "insertCall",
       !.player = entry[e].player, !.t = entry[e].table])
  /\ UNCHANGED <<entry, table, calls>>

InsertCall(h) ==
  /\ At(h, "insertCall")
  /\ calls[req[h].player][req[h].t] < MaxCalls
  /\ calls' = [calls EXCEPT ![req[h].player][req[h].t] = @ + 1]
  /\ Done(h)
  /\ UNCHANGED <<entry, table>>

\* One transaction under the lock of the request row: it closes every seat
\* of the player and counts one seat free at the table the request names.
ApproveBuyOut(p, t) ==
  /\ "approveBuyOut" \in Ops
  /\ calls[p][t] > 0
  /\ calls' = [calls EXCEPT ![p][t] = @ - 1]
  /\ CloseEntries(EntriesOf(p, "SEATED"))
  /\ FreeOneSeat(t)
  /\ UNCHANGED req

RejectBuyOut(p, t) ==
  /\ "rejectBuyOut" \in Ops
  /\ calls[p][t] > 0
  /\ calls' = [calls EXCEPT ![p][t] = @ - 1]
  /\ UNCHANGED <<entry, table, req>>

\* The cashier's buy-out checks the seat with an unlocked SELECT ...
ManualBuyOut(h, p, t) ==
  /\ Free(h, "manualBuyOut")
  /\ EntriesOf(p, "SEATED") \cap SeatedAt(t) # {}
  /\ Becomes(h, [Idle EXCEPT !.op = "manualBuyOut", !.pc = "manualTx",
                   !.player = p, !.t = t])
  /\ UNCHANGED <<entry, table, calls>>

\* ... and then posts the money, closes the seat and counts it free.
ManualTx(h) ==
  /\ At(h, "manualTx")
  /\ CloseEntries(EntriesOf(req[h].player, "SEATED") \cap SeatedAt(req[h].t))
  /\ FreeOneSeat(req[h].t)
  /\ Done(h)
  /\ UNCHANGED calls

\* Settle and end: the players staff list lose every seat they have, the
\* table counts nobody, and the session is closed patch by patch.
SettleAndEnd(h, t) ==
  /\ Free(h, "settleAndEnd")
  /\ Exists(t)
  /\ Becomes(h, [Idle EXCEPT !.op = "settleAndEnd", !.pc = "settleTx", !.t = t])
  /\ UNCHANGED <<entry, table, calls>>

SettleTx(h) ==
  /\ At(h, "settleTx")
  /\ \E S \in SUBSET Players :
       CloseEntries({e \in Entries : Has(e, "SEATED") /\ entry[e].player \in S})
  /\ table' = [table EXCEPT ![req[h].t].cur = 0]
  /\ Becomes(h, [req[h] EXCEPT !.pc = "loadTable", !.todo = <<"CLOSED", "ended">>])
  /\ UNCHANGED calls

-----------------------------------------------------------------------------
RowStep(h) ==
  \/ SaveEntry(h) \/ WriteEntry(h) \/ SaveTable(h) \/ WriteTable(h)
  \/ LoadTable(h) \/ Abandon(h)

WaitlistStep(h) ==
  \/ \E p \in Players : CreateWaitlistEntry(h, p) \/ JoinWaitlist(h, p)
  \/ RecheckPending(h) \/ InsertEntry(h)
  \/ \E e \in Entries : \/ UpdateWaitlistEntry(h, e)
                        \/ CancelWaitlistEntry(h, e)
                        \/ DeleteWaitlistEntry(h, e)
  \/ EditLoadedEntry(h) \/ RemoveEntry(h)

SeatStep(h) ==
  \/ \E e \in Entries, t \in Tables : AssignSeat(h, e, t)
  \/ SeatTx(h) \/ SeatTxRefused(h)
  \/ \E e \in Entries, requeue \in BOOLEAN : UnseatPlayer(h, e, requeue)
  \/ UnseatTable(h)

TableStep(h) ==
  \/ \E t \in Tables : \/ CreateTable(h, t) \/ UpdateTable(h, t)
                       \/ DeleteTable(h, t) \/ PauseSession(h, t)
                       \/ ResumeSession(h, t) \/ EndSession(h, t)
                       \/ UpdateSessionParams(h, t)
  \/ InsertTable(h) \/ RemoveTable(h)

BuyOutStep(h) ==
  \/ \E e \in Entries : StartCallTime(h, e)
  \/ InsertCall(h)
  \/ \E p \in Players, t \in Tables : ManualBuyOut(h, p, t)
  \/ ManualTx(h)
  \/ \E t \in Tables : SettleAndEnd(h, t)
  \/ SettleTx(h)

Next ==
  \/ \E h \in Handlers : RowStep(h) \/ WaitlistStep(h) \/ SeatStep(h)
                           \/ TableStep(h) \/ BuyOutStep(h)
  \/ \E p \in Players, t \in Tables : ApproveBuyOut(p, t) \/ RejectBuyOut(p, t)

Spec == Init /\ [][Next]_vars

-----------------------------------------------------------------------------
(* Properties.                                                             *)

\* Two entries never hold one seat of one table: what assignSeat's locked
\* check is for, with every other handler running beside it.
SeatExclusive ==
  \A e, f \in Entries :
    /\ e # f /\ Has(e, "SEATED") /\ Has(f, "SEATED")
    /\ entry[e].table = entry[f].table
    /\ entry[e].seat # NoSeat
    => entry[e].seat # entry[f].seat

\* A closed visit stays closed: once CANCELLED, an entry can only be deleted,
\* however late the save of a request that read it earlier.
CancelledIsFinal ==
  [][\A e \in Entries : Has(e, "CANCELLED")
       => entry'[e].status \in {"CANCELLED", "DELETED"}]_vars

\* No table seats more people than it has chairs, whatever its counter says.
PeopleAt(t) == MapThenSumSet(LAMBDA e : entry[e].party, SeatedAt(t))
NotOverbooked == \A t \in Tables : Exists(t) => PeopleAt(t) <= table[t].max

\* With no request in flight, current_seats is the number of people seated.
Quiescent == \A h \in Handlers : req[h].pc = "idle"
SeatCountExact ==
  Quiescent => \A t \in Tables : table[t].cur = PeopleAt(t)

\* People sit at a table whose session has ended.
Stranded(t) == ~HasActiveSession(table[t]) /\ SeatedAt(t) # {}

\* Who sits, sits at a table that is there: deleteTable looks at the counter
\* and the status of the table only.
SeatsExist ==
  \A e \in Entries : Has(e, "SEATED") => entry[e].table \in Tables /\ Exists(entry[e].table)

\* A player waits or sits once: at most one live entry per player.
OneLiveEntry ==
  Quiescent => \A p \in Players :
    Cardinality(EntriesOf(p, "PENDING") \cup EntriesOf(p, "SEATED")) <= 1

-----------------------------------------------------------------------------
(* The seat map this state stands for, and the abstract specification.     *)

HolderOf(t, s) ==
  IF \E e \in SeatedAt(t) : entry[e].seat = s
  THEN CHOOSE e \in SeatedAt(t) : entry[e].seat = s
  ELSE NoEntry

Abstract ==
  INSTANCE SeatMap WITH Nobody <- NoEntry,
    holder <- [ts \in Tables \X Seats |-> HolderOf(ts[1], ts[2])]

\* Seating through the locked handlers implements the seat map: a numbered
\* seat passes from one entry to another only by being freed in between.
ImplementsSeatMap == Abstract!Spec

=============================================================================
