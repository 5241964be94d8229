# TLA+ models of the poker club backend

This directory models parts of the backend in `src/src` (NestJS, TypeORM, one
PostgreSQL database, several staff and players calling at once) as TLA+
modules, model-checks them with TLC and proves theorems about them with TLAPS.
File names below are relative to `src/src` unless they are in this directory.

The backend has almost no state in memory. A request handler awaits a query,
decides on what it read and awaits the next one, and between two awaits any
other request may run. Nearly everything that is hard to test is therefore one
question: *what was true at the read, and who may have written since?* Some
handlers answer it with a transaction and row locks, some with a conditional
UPDATE, many not at all. The models keep exactly that structure: a row of the
database is a variable, an await is the border between two actions, a lock is
a guard, and what a handler keeps in its local variables is kept in `req`.

## 1. The system: inventory

### Waitlist, tables and seating
- *Code:* `clubs/services/waitlist-seating.service.ts`, the table and session
  endpoints of `clubs/clubs.controller.ts`, and the seat side of
  `clubs/services/buyout-request.service.ts`,
  `player-playtime/player-playtime.service.ts` and `auth/auth.service.ts`.
- *State:* `waitlist_entries` (status, party size, table, seat), `tables`
  (status, `max_seats`, `current_seats`, and in the free text `notes` the
  marker of a running or paused session), pending `buyout_requests`.
- *Operations:* join from the app or at the desk, edit, cancel, delete; assign
  a seat, unseat, call time, approve, reject or make a buy-out, settle a table;
  create, edit, delete a table; start, pause, resume, end, settle-and-end a
  session, change its parameters.
- *Interaction:* assign-seat draws credit and posts a buy-in (money); a buy-out
  closes the entry and pays (money); the events gateway is told afterwards.
- *Hard:* the seat check and the seat write are two queries; `save(entity)`
  writes back columns loaded long before; `current_seats` is a counter kept
  beside the rows it counts; ending a session is four separate statements.
- *Correct means:* one entry per seat, no more people than chairs, the counter
  equal to the people seated, a closed visit stays closed, one live entry per
  player, no session taken from under people by a handler that is not about it.

### Money at the tables: ledger, wallet, credit, buy-ins, buy-outs
- *Code:* `clubs/services/financial-transactions.service.ts`,
  `credit-requests.service.ts`, `buyin-request.service.ts`,
  `buyout-request.service.ts`, `clubs/credit-used.util.ts`,
  `clubs/waitlist-buyin.util.ts`, the SQL sums in
  `clubs/entities/financial-transaction.entity.ts`, and the player-facing
  handlers of `auth/auth.service.ts`.
- *State:* rows of `financial_transactions`, never an account balance: wallet,
  credit owed and chips at the table are sums over a player's rows. Besides
  them the credit facility on the player (`credit_enabled`, `credit_limit`) and
  three tables of requests with a status.
- *Operations:* the cashier's postings, joining a table with its automatic
  credit draw, requesting and deciding buy-ins and credit, call time, the four
  ways out, enabling, limiting and locking credit.
- *Hard:* a sum is read before rows are posted on the strength of it; two
  definitions of the wallet exist (SQL and a loop for the app); requests are
  decided under a lock on the request, not always on the player.
- *Correct means:* no interleaving makes or loses money, credit is never drawn
  past the limit nor paid back twice, one open request per player, decisions
  are final.

### Tournament blind clock
- *Code:* `clubs/services/tournaments.service.ts`.
- *State:* one row per tournament: status, `session_started_at`, `paused_at`,
  `total_paused_seconds`, and in the JSON column `structure` the level played
  and the level settings. A map of timers in memory that changes nothing.
- *Operations:* the poller that runs every ten seconds in every process, and
  staff's start, pause, resume, stop, end, raise the blinds, edit.
- *Hard:* ticks overlap, time passes between a read and a write, the server
  restarts, staff save structures the poller has changed meanwhile, and blinds
  must *eventually* go up.
- *Correct means:* the poller never takes a level back, play time is never
  negative, and overdue blinds are raised.

### Tournament desk
- *Code:* `clubs/services/tournaments.service.ts` (the desk) and
  `player-tournaments/player-tournaments.service.ts` (the player's app).
- *State:* the tournament's row with its count of registrations, the rows of
  `tournament_registrations` and `tournament_players` (the field, with what
  each player has invested), prizes, and the ledger rows of the players.
- *Operations:* register, in time or late, partly on credit, and cancel; create,
  edit, start, stop, end with winners, delete; exit, rebuy, re-enter, add on.
- *Interaction:* every one of them posts to the ledger; start, stop, pause and
  resume also move the blind clock.
- *Hard:* status, capacity, balance and entry are read before the transaction
  that relies on them; only ending a tournament locks its row; deletion and
  cancellation give back what other handlers took.
- *Correct means:* the count is the number of registrations, nobody is admitted
  beyond the capacity, pays more than he has or is given back more than he was
  charged, prizes go out once per run of the tournament.

### Ledger row edits, and the VIP store
- *Code:* `financial-transactions.service.ts`, `financial-overrides.service.ts`,
  `vip-products.service.ts`, `player-vip/player-vip.service.ts`.
- *State:* single ledger rows with status, amount and the amount first booked;
  products with price and stock; purchases. Points are not stored: they are
  time played and money spent, summed over rows, less the points of purchases.
- *Operations:* post, update, cancel, three kinds of override; put a product on
  the shelf, change it, remove it, buy it.
- *Hard:* five handlers change a ledger row, each with its own idea of the
  status it may still change, each saving the whole row it loaded; points come
  from rows that are edited afterwards.
- *Correct means:* the first amount is never hidden, a cancelled row never
  counts again, points are not spent twice.

### Players, profile changes and affiliates
- *Code:* the player parts of `auth/auth.service.ts` and
  `clubs/clubs.controller.ts`, `player-field-update.service.ts`,
  `player-documents/`, `affiliates.service.ts`.
- *State:* the row of a player (email, PAN, Tilt ID, KYC and account status,
  documents as a JSON list, referrer), change requests, affiliates with two
  running totals, and affiliate transactions.
- *Operations:* sign up, create, edit, approve, reject, suspend, delete; submit
  a PAN, upload documents, change the password; ask for a change, approve it,
  reject it, dismiss it; pay commission, override it.
- *Hard:* identities are checked and written in two steps, by handlers that
  check different things; columns loaded long ago are saved again; a total and
  what it adds up are two saves.
- *Correct means:* no two players share an identity, a PAN stays, a review is
  final, totals add up.

### Back office: workforce, kitchen, payroll
- *Code:* `staff-management`, `leave-management`, `attendance-tracking`,
  `shift-management`, `roster-management`, `fnb-enhanced`, `payroll` and `bonus`
  `.service.ts` in `clubs/services`, and their routes in the controller.
- *State:* staff and their accounts, leave policies and applications, attendance
  records, shifts, roster templates; orders with numbers, invoices and station,
  stations with two counters; percentages of tips, tips, cash-outs, bonuses.
- *Operations:* every one that writes these rows (section 2 lists them by
  module).
- *Hard:* approvals that load, check and save; calendars in which four handlers
  file a shift, each with another idea of a free day; a counter kept beside the
  orders it counts; cash-outs against a balance summed before the insert, of
  shares computed with percentages that change.
- *Correct means:* no two staff share an address, pending applications do not
  overlap, no shift is added to a taken day, counters and invoices agree with
  the orders, nobody cashes out more than his shares.

### Chat
- *Code:* `chat.service.ts`, `player-chat/player-chat.service.ts`, their routes.
- *State:* chat sessions (parties, assignee, status, archive flags), messages
  with a read mark, and the row in `staff` an admin is given on first use.
- *Hard:* one message is two writes, in this order here and in that order
  there; four handlers look for a live chat and open one if there is none; staff
  who are looking after a chat are deleted.
- *Correct means:* one chat per pair of staff and one live chat per player, and
  a player who was answered has somebody looking after his chat for as long as
  that member of staff is there.

### Everything else
| component | code | why no module |
|---|---|---|
| session clock and play time | `utils/table-session-clock.ts`, `clubs/table-session.util.ts`, `player-playtime/` | elapsed seconds kept as text in `tables.notes`; only the running or paused marker is in `TableSeating` |
| older food service | `fnb.service.ts` | dead code: injected, never called |
| push notifications | `push-notifications.service.ts` | sends to devices; the state is sent and read marks |
| rake collection | `rake-collection.service.ts` | append-only records |
| audit log | `audit-logs.service.ts` | append-only; where an audit row can break a transaction it is modelled (`PurchaseLost`, player deletion) |
| reports, analytics, credit history | three services | read-only |
| club settings, clubs, factory reset | `clubs.service.ts` and others | configuration, constants of the models |
| users, roles, tenants, logging in | their directories | administration; models start from a caller who was let in |
| guards, filters, validation | `common/` and others | who may call what: models start from a call that was allowed |
| real-time events | `events/` | notices after the commit, read back by no handler |
| offers and feedback | their directories | single-row records |
| file storage | `storage/` | I/O against an outside bucket |
| schema and operator scripts | `migrations/`, `scripts/` | run by hand; what the schema guarantees (unique columns, the PAN trigger) is part of the modules that rely on it |

`PROJECT.json` lists each of them under `components` with its status and the
reason when it is not modelled, and under `hazards` every place of the code
that is hard to test, at its line, with the properties that would catch it.

## 2. The modules

| module | models | proofs |
|---|---|---|
| `SeatMap` | the promise of seating: seats are taken when free, and freed | |
| `TableSeating` | every handler that writes an entry or a table | `TableSeating_proofs` |
| `Ledger` | what a ledger row is worth in each sum, credit arithmetic | |
| `PlayerAccount` | every handler that moves one player's money at the tables | `PlayerAccount_proofs` |
| `BlindClock` | the poller and staff on one tournament row | `BlindClock_proofs` |
| `TournamentDesk` | registrations, field and prizes of one tournament | `TournamentDesk_proofs` |
| `Membership` | players, profile changes, documents, affiliates | `Membership_proofs` |
| `Books` | ledger rows after they were posted; the points store | `Membership_proofs` |
| `Workforce` | staff, leave, attendance, shifts, rosters | `BackOffice_proofs` |
| `Kitchen` | food orders and kitchen stations | `BackOffice_proofs` |
| `Payroll` | percentages, tips, cash-outs, bonuses | `BackOffice_proofs` |
| `Chat` | chats among staff and between players and staff | `Chat_proofs` |
| `Sums` | no code: sums over finite sets, least elements | (lemmas) |
| `MC...` | what a run's instance looks at, and symmetry; values are in the `.cfg` files | |

`PlayerAccount`, `TournamentDesk` and `Books` extend `Ledger`; `TableSeating`
instantiates `SeatMap` under a refinement mapping; `MCBackOffice` puts
`Workforce`, `Kitchen` and `Payroll` in one instance, and `MCMembership` puts
`Books` beside `Membership`, as a desk of its own. Seating and money meet in
assign-seat and in the buy-outs, each modelled twice, for the rows it moves and
for the money it moves; the link is `seated` in `PlayerAccount`, which abstracts
the entry's status. `TournamentDesk` and `BlindClock` share the tournament's
status in the same way.

### TableSeating
`entry`, `table` and `calls` are the rows; `req[h]` is the request in slot `h`:
the await it is suspended at (`pc`) and the entities it has loaded. Three kinds
of write occur. A transaction that locks its rows is one action, taken when it
holds its last lock. A single statement is one action. `repository.save` is
two: TypeORM loads the row again and then updates the columns in which the
*entity* differs from that second read, so a late save overwrites exactly the
columns the handler, or the time since it loaded, made different. That is
external behaviour (the library is not under `src/`) and the one assumption
about TypeORM the results rest on. Statuses `UNUSED` and `DELETED` stand for a
row that is not there yet or any more. The status `NO_SHOW` exists in the enum
and is set nowhere, so it is left out. The `notes` column is reduced to the
session's marker, which is all that guards read. The form that edits a table
may give any notes (`UpdateTableDto`), so `UpdateTable` and `CreateTable` may
write any marker.

### Ledger and PlayerAccount
Rows are only added by the modelled handlers, so the model keeps the sums
(`cash`, `portal`, `line`, `book`) instead of the rows; `Ledger` says what one
row adds to each, as the SQL does. Every sum in the code ranges over one
player's rows, so one player is enough. Amounts are whole rupees. `felt`,
`hand` and `till` are the physical side, which the code does not store: chips
in front of the player, chips counted and taken by staff whose request is still
running, and what the player brought in and won less what was paid out and
lost. They are the environment, and exist so that conservation can be stated.
A transaction that reads a sum before it writes has a reading action, which
takes the locks, and a committing one; `PlayerLocked`, `BuyOutLocked` and
`CreditLocked` are the row locks held in between. `disable-credit` reads the
portal balance while holding its lock and is one action: a buy-out posted
between that read and the save is left out.

### BlindClock
`row` is the tournament, `polls[p]` a tick of the poller in flight: read the
running tournaments, check one (later: the loop awaits each update), update on
condition that `current_round` is unchanged. `current_round = 0` stands for the
key being absent from the JSON, which in SQL is NULL and matches nothing.
`req[h]` is a staff request between its read and its write and keeps what it
will save. Minutes are the unit. `deleteTournament`, blind amounts and events
are left out; so is `scheduleNextBlindIncrease`, because the callback of its
timer only deletes the timer's own handle.

### TournamentDesk
`t` is the tournament, `reg` its registrations, `tp[p]` the row of the field,
`wallet` and `line` the two sums over the ledger, changed by the worth of the
rows a handler posts (`Post`). A handler is a loading step, which keeps the row
in `req[h].seen`, and a writing step; registration also reads the balance
(`RegisterFunds`) before `RegisterTx`. An edit (`UpdateTournament`, `UpdateTx`)
gives any of the status, the game (`rummy_variant`), the buy-in, the capacity
and the structure (entry fee and late window) and writes the columns it was
given; the structure is written whole, with what it held when it was loaded.
`ran` counts the minutes since the start, for the window (`Minute`). What the transaction takes from the
loaded row (status, buy-in, late or not) comes from `seen`, what SQL computes in
place (`current_players + 1`) from `t`. `charged` and `refunded` are history:
they add up the buy-ins a player was charged and given back. Statuses `unborn`
and `deleted` stand for a row that is not there. Prizes are one amount per
winner; the fund and the limit are the same for all players. An add-on of an
amount of the desk's choosing is modelled with the buy-in.

### Books
`tx[r]` is a ledger row, `booked[r]` (history) the amount it was posted with if
it was posted as completed. Each of the five handlers that change a row loads
it, checks it by its own rule (`Editable`, the guards of the others; none in
`EditAnyTransaction`) and saves it, in the two steps of `save`: `ReloadTx` and
`SaveTx`, which writes the columns that differ (`Column`). Products are written
in one step: their forms give every column. Points are not
state: `EarnedPoints` sums `played` and the rows that count, `PointsSpent` the
purchases. A purchase reads the product, then the points, then runs the
transaction. Amounts are given in the points they earn. `PurchaseLost` is the
commit that rolls back because the audit row failed inside the transaction.
Not modelled: the branches of `editAnyTransaction` for a dealer's cash-out and a
salary, which change an amount in the same way; the first of them would let an
override raise a cash-out past the shares that cover it (see Payroll).

### Membership
A row of players, change requests, affiliates or payments is one variable; a
request holds the rows it has loaded. A write passes `Clash`, the unique
indexes on email and PAN, and `PanChanged`, the trigger on a change of PAN;
Tilt IDs have no index and are compared by handlers only. A document counts by
its slot: uploading one of the same type replaces it. Emails have a spelling,
because signing up and forms store lower case while an approved profile change
stores what was typed. `approveRequest` runs in a transaction, as one action
after its load. Amounts of commission are whole.

### Workforce
The calendar is the numbers `1..LastDay`, the weekend `OffDays`; `NextDay`
passes a day. The handlers of staff, leave, attendance, shifts and rosters load
and check in one step and write in another (`WriteStep`). A shift has the day it
is filed under and the day its hours lie on, since a copy and an edit move them
apart; hours within a day are left out, so two shifts overlap when they lie on
one day, and night shifts are left out. Copying checks and inserts one date in
one step. Attendance records carry the rank (`tier`) of who recorded them, which
decides who may overwrite them. An account is a member of `logins`. Deleting a
member of staff is refused by the foreign key of leave applications, and may be
by rows of other modules (`kept`: a staff chat, a message, a manager's tips or
cash-out); shifts, attendance and template go along.

### Kitchen
`order[o]` and `station[s]` are rows, orders numbered by creation. Accepting,
cancelling and delivering write the station first and the order second;
rejecting and readying write the order alone. Each save is two steps, the row
loaded again (`ReloadOrder`, `ReloadCount`, `ReloadStation`) and the columns
written that differ from it.
`NextNumber` is the number of the latest created order that has one plus one,
`NextInvoice` the greatest invoice plus one, as the two queries order their
rows. `UpdateOrderStatus` is the PATCH route with its own table of transitions.

### Payroll
`settings` holds percentages of the club and of the dealers, copied on first use
(`InForce`); `tip[t]` the amounts a tip was split into; `paid` the sum of a
person's cash-outs. A cash-out reads the balance and inserts later. Percentages
and tips are multiples that make the amounts whole. Cash-outs change by the
handlers of payroll only: the override of one in `editAnyTransaction`
(`financial-overrides.service.ts:311-320`) is left out, and would break
`CashoutsCovered`. With a dealer's row go his tips and his cash-outs (`0023`),
so deleting one leaves nothing to compare.

### Chat
`todo` is the list of writes a request has left, in the order of its code:
`<<"say", "load", "save">>` for a message among staff, `<<"load", "save", "say">>`
for a player's message or an answer; "load" and "save" are the two steps of one
`save`. `row` is the session as it was loaded, without the relation
`assigned_staff` unless the handler sets it (`Loaded`), and `base` what the save
has found.
`Starts` lists an admin in `staff`, as `getOrCreateStaffForUser` does.
`Abandon` is a request that dies between two writes. `DeleteStaff` is the deletion
of a member of staff as far as chats go: the foreign keys set their columns to
NULL (`0030`), so a chat loses its assignee (`"left"`), while the checks
`valid_staff_chat` and `valid_sender` refuse it for a party of a staff chat and
for whoever has sent a message. A request that would still write the row that is
gone ends there; one that would write the assignee the save has found leaves the
same rows as if it had saved first. A member of staff who
is deleted stays away, except an admin, whose next request gives him a new row.
Players are not deleted: the checks refuse it once
they have a chat. Left
out: the contents of messages and the linking of a recipient's account to his
staff row.

### Modes
An MC module bounds what one instance looks at. In the larger ones a variable
chosen at the start (`mode`, `office`, `desk`) selects a set of handlers and
whether their requests overlap, and a behaviour keeps to it: one run then adds
up several instances instead of multiplying them. Requests that overlap and
requests taken in turn are different questions (section 3), and a property says
in its text to which it belongs.

A definition introduced by a comment "Fault:" is not used by any specification.
It is the definition below it with a plausible bug (a dropped guard, an
off-by-one, a missing reset). For every property of every passing run,
`PROJECT.json` names one such definition under which TLC refutes that property
(`mutants`), so that a property which passes is known to be able to fail.

### What is outside the repository
- *TypeORM's `save`*, two steps as above in `TableSeating` (entries and tables),
  `Books` (ledger rows), `Kitchen` and `Chat`. `PlayerAccount`, `Membership` and
  `Workforce` write the loaded row with the handler's changes in one step. What
  that leaves out are rows mixed from two requests that overlap; the properties
  checked with overlap there are about one column (email, PAN, a status), or
  rest on an index, a trigger or a lock, which look at what is written and not at
  how it came about: `IdentitiesUnique`, `PanImmutable`, `StaffEmailsApart`,
  `OpenRequestHeld`, `CreditDecisionFinal`. Also `pessimistic_write` as an
  exclusive row lock held to the end of the transaction, and PostgreSQL's
  default READ COMMITTED: a statement is atomic and sees everything committed
  before it. A relation that was not loaded is not written.
- *The physical side*: players move chips between them (`Play`) and staff
  count and collect chips (`counted`). Both are environment, as are time
  (`NextDay`, the clock's minutes) and hours played (`Books!Play`).
- *Crashes* (`Abandon`, `Restart`): a process or a connection dies between two
  awaits. An open transaction is rolled back, earlier statements stay.

## 3. The runs

`tlc -config <run>.cfg <module>` in this directory. Passing runs explore the
whole state space of their instance.

| run | instance | asks | answer |
|---|---|---|---|
| `seating` | mode *locked*: two requests at a time among joining at the desk, cancel, delete, assign-seat, call time, buy-outs, session parameters, crashes; mode *close*: two among joining, assign-seat, manual buy-out, settle-and-end; mode *in turn*: one at a time, the app's join, all edits, unseat, tables and sessions, parties and tables of one and two | is a seat ever given twice, a visit reopened; do the rows implement the seat map; do counter, tables and entries agree between requests; which handlers may take a session from under people? | `SeatExclusive`, `CancelledIsFinal`, `ImplementsSeatMap` hold in all modes; in turn `PeopleCounted` and `VisitsInTurn` hold, and only edits of notes and parameters do it (`OnlyNotesStrand`) |
| `seating_stale_edit` | two requests among joining, edit, assign-seat, unseat | the same for handlers that save a row read earlier | no: two entries on one seat |
| `account` | mode *in turn*: all requests about buy-ins, credit and leaving, one at a time; mode *credit*: two at a time about the facility and the seat; crashes | is more credit paid back than drawn, a request open twice or behind a lock, a decision changed, credit drawn past the limit? | no: `LineInTurn`, `OpenRequestHeld`, `CreditDecisionFinal`, `JoinWithinFacility` |
| `account_money` | two at a time: the cashier, joining, buy-ins, credit, call time, two of the ways out, hands played | does any interleaving make or lose money? | no: `BooksBalance` |
| `blind_clock` | two ticks, one staff request at a time, one restart | does the poller only advance, is play time never negative, are overdue blinds raised? | yes: `PollerOnlyAdvances`, `PausedTimeIsReal`, `CatchUp` |
| `desk` | mode *in turn*: one request at a time, poker and rummy, with cancellations and edits of buy-in, capacity, game, fee and window; mode *stakes kept*: a poker tournament, one at a time, with exits, rebuys, stop, end and edits of its status; mode *at once*: a rummy tournament, two requests at a time, with edits of the status and deletion | is the count right; is anybody admitted beyond the capacity or overdrawn by registering; is what is invested charged, and what is refunded; are prizes handed out twice? | `CountIsExact`, `AdmitsInTurn`, `StakesInTurn`, `PrizesOnce` hold |
| `desk_rummy_refund` | a rummy tournament: register, cancel | are refunds covered by charges there too? | no: a buy-in is refunded that was never charged |
| `books` | `MCMembership` with the desk *books* alone: one request at a time over one ledger row and two products | does an override hide the first amount, a cancelled row come back, are points spent twice? | no: `FirstAmountKept`, `CancelledStays`, `PurchaseCovered` |
| `membership` | desks *papers*, *reviews*, *standing*, *affiliates*: one request at a time; desk *counter*: creation, edits, PAN and documents, two at a time | do players share an identity, does a PAN change, a review get undone, does commission add up? | no, and it does: `IdentitiesUnique`, `PanImmutable`, `ReviewIsFinal`, `CommissionInSync` |
| `back_office` | office *staff*, two requests at a time; *leave*, *attendance*, *shifts*, *kitchen*, *payroll*, one at a time | are addresses, pending leave and shifts apart; do counters, invoices and cash-outs agree with their rows? | yes: `StaffEmailsApart`, `PendingLeavesApart`, `NewShiftsApart`, `KitchenBooksAgree`, `CashoutsCovered` |
| `leave_cancel_race` | leave, two requests at a time | does a decision stand? | no: a cancellation overwrites an approval |
| `chat` | mode *in turn*: all of staff and player chat, except that staff open no player's chat and reopen none, and deletion of staff between requests; mode *desk*: everything about one player's chat, two at a time, with requests that die and staff who are deleted | is there one chat per pair and one live chat per player; does an answered player have somebody? | yes: `ChatsApart`, `AnsweredIsAssigned` |

The type invariant is checked in one run of each module.

**Why these handlers in these modes.** The split is not only about size: several
properties hold for some handlers and fail once others join, or hold when each
request runs undisturbed and fail when two overlap. A passing run names the
largest set found for which its property holds, and section 6 lists what a wider
set reaches. "In turn" says what the handlers preserve when nobody interferes;
those properties are still about long sequences of calls, because between two
requests everything may have changed. `Quiescent`, `Quiet` and "between requests"
restrict a property to moments when nothing is in flight, because between two
statements of one handler a counter and its rows are meant to differ.

**Bounds of seating.** Two players, two entries, one table with at most two
chairs and at most two requests. A property about one seat is violated by two
entries and the two requests that wrote them; a third only repeats the roles. A
second table would add moves between tables, which no handler performs: an entry
is unseated before it is seated again. An entry's id is inserted once
(`UNUSED` to live to `CANCELLED` to `DELETED`), so runs end when ids are used
up; re-joining takes a new id, as in the database. `MaxCalls = 1` bounds the
pending buy-outs of one player at one table. A table number in use is refused
by `createTable`, so a table is a value of `Tables` and is created at most once
at a time. `Games = {"poker"}` because the game's name is only compared for
equality. Parties and tables of one and two chairs occur in mode *in turn*; in
the others a party is one person, since the seat is what they are about. Edits
in turn set no table to maintenance, one more status that is not available.

**Bounds of the account.** One player (every sum ranges over one player's
rows), one or two ids per kind of request, amounts of one rupee, limits of one
or two. `Cap` bounds, through the guard `Within`, what the cashier posts and
what a player wins or loses, the two actions that could repeat for ever; the
other sums are bounded by the ids. `Cap = 1` lets a wallet be negative, zero
and positive. `MaxBuyIn = 1` in `account` makes the credit drawn on joining
depend on the room under the maximum; `account_money` switches the table's
limits off.

**Bounds of the clock.** `MaxTime = 3` minutes, three levels of one minute, a
break of one minute after every second level: the clock crosses a level, a
break and the last level. `MaxRound = 3` bounds staff's raises and
`MaxRestarts = 1` the restarts. `EditStatuses = {"active"}`: an edit may set a
tournament running (the code saves whatever status it is given); setting it
back to `scheduled` is discussed in section 6.

**Bounds of the desk.** Two players and capacities of one and two make a
tournament full with and without room for the second, and an edit lowers it
under the registrations. Buy-ins of one and two, so that an edit changes what is
charged and refunded; a fund of two, a fee of one and a limit of one let a
registration be paid from the wallet, partly on credit, or refused. `MaxCharges`
lets a player register, cancel or rebuy, and register again; `MaxEnds = 2` lets
prizes go out twice; `MaxMinutes = 2` and windows of none and one minute close
the late registration; `MaxColumns = 1` makes two columns two edits. `Small`
cuts each mode to what it is about. *In turn*: no stop, end, exit or rebuy, no
edit of the status, refunds and stakes up to one. *Stakes kept*: one minute, one
end, a capacity of two, edits of the status only. *At once*: a capacity of two, a
buy-in of one, edits that only set the tournament active, exits with a wallet of
zero, no add-ons or re-entries, charges up to one, no stop. What the modes themselves leave out (`InMode`) is in section
6.

**Bounds of the books.** One row meets all pairs and triples of the five
handlers that change it; `FirstAmountKept` and `CancelledStays` are about one
row. Types `Buy In`, which earns points, and `Credit`, which is not completed at
once. Two products because titles must differ, prices of one, stock of none or
one.

**Bounds of membership and the back office.** Two of each id: a clash needs
two, and so do a total and a correction. A calendar of three days, the second a
day off, has a working day before and after a weekend; two applications and two
shifts can overlap, touch and be apart. `Focus` names the one member of staff
whose leave, attendance and shifts are followed; applications of different
people never meet, and the other staff decide. Three orders (the third with one
station only), because numbers depend on the order of creation, of acceptance
and of delivery. Two tips, so that percentages can change between them; tips of
20 and cash-outs of 5 and 16 so that one share covers one cash-out and not two.

**Bounds of chat.** An admin without a staff row, a member of staff, a player;
two chats, two messages, two requests: one more than each property allows.
`Updates` names the statuses an update gives: a resolved chat behaves as a closed
one, and one in progress is what an answer makes of an open one.

**Symmetry.** Players, entries, requests and ids are interchangeable wherever
their permutations appear in an MC module's `Symmetry`. Those runs check
invariants and action properties; `ImplementsSeatMap` is a safety specification
of the form `Init /\ [][Next]`, whose refinement mapping commutes with the
permutations. Orders, days and levels are numbers and not permuted, people with
different roles neither. `blind_clock` checks liveness and uses no symmetry.

**Deadlock.** `blind_clock` checks for deadlock. The other instances do not
(`CHECK_DEADLOCK FALSE`): their ids and amounts run out, and a club with nothing
left to do is a legal final state.

**Fairness.** Only `BlindClock` assumes any: weak fairness of each tick
`Poll(p)`. The interval fires every ten seconds (and once three seconds after
the start of the process), an exception in one tournament or in the query is
caught and logged, so the next tick comes; and the database answers. Nothing is
assumed of staff, of time or of restarts. Restarts are bounded because a
process that restarts faster than a tick completes never raises a blind, which
no code could help. The other models state safety only: their handlers owe
nothing until somebody calls them, and a request that dies is not retried by
any code.

## 4. The theorems

`tlapm <module>_proofs.tla` checks every leaf. The theorems hold for any number
of players, rows, ids and concurrent requests, and any amounts and limits. They
assume what the modules' `ASSUME`s say of the constants, and what the last column
says. The `.cfg` of a passing run that checks the property satisfies both; where
it does not satisfy the assumption of a theorem about `Spec`, because stale
writes happen in one of its modes only, a second theorem, `...InModes`, states
the property for the modes of that run.

Some are about a module's own `Spec`, in which all handlers run and overlap. The
others are about the `MCSpec` of the runs, because they are false where requests
overlap (section 6): in its modes, desks and offices the same actions run, in
turn or at once, over sets of any size.

| theorem | says | assumes |
|---|---|---|
| `TableSeating_proofs!TypeCorrect` | `Spec => []TypeOK` | |
| `SeatsAreExclusive` | `Spec => []SeatExclusive` | `NoStaleSeatWrites` |
| `CancelledStaysCancelled` | `Spec => CancelledIsFinal` | `NoStaleSeatWrites` |
| `SeatMapImplemented` | `Spec => ImplementsSeatMap` | `NoStaleSeatWrites` |
| `SeatsAreExclusiveInModes` | `MCSpec => []SeatExclusive` | entries finite, the modes of the run |
| `CancelledStaysCancelledInModes` | `MCSpec => CancelledIsFinal` | likewise |
| `SeatMapImplementedInModes` | `MCSpec => ImplementsSeatMap` | likewise |
| `PeopleAreCounted` | `MCSpec => []PeopleCounted` | entries finite |
| `VisitsAreKept` | `MCSpec => []VisitsInTurn` | entries finite |
| `SessionsOutlastVisits` | `MCSpec => OnlyNotesStrand` | entries finite |
| `PlayerAccount_proofs!TypeCorrect` | `Spec => []TypeOK` | |
| `MoneyIsConserved` | `Spec => []BooksBalance` | `CountedExits` |
| `JoiningIsCovered` | `Spec => JoinWithinFacility` | |
| `OneOpenRequest` | `Spec => []OpenRequestHeld` | no `updateVisibility` |
| `DecisionsAreFinal` | `Spec => CreditDecisionFinal` | no `updateVisibility` |
| `OneOpenRequestInModes` | `MCSpec => []OpenRequestHeld` | the modes of the run |
| `DecisionsAreFinalInModes` | `MCSpec => CreditDecisionFinal` | the modes of the run |
| `ExitsPayNoMoreThanOwed` | `MCSpec => []LineInTurn` | no `createTransaction` |
| `BreakdownAddsUp` | credit used, on line and remaining sum to the limit | |
| `BlindClock_proofs!OnlyAdvances` | `Spec => PollerOnlyAdvances` | |
| `PausesFit` | `Spec => []PausedTimeIsReal` | `OneAtATime`, no edit to scheduled |
| `TypeCorrect` | `Spec => []TypeOK` | likewise |
| `TournamentDesk_proofs!TypeCorrect` | `Spec => []TypeOK` | |
| `PrizesHandedOutOnce` | `Spec => PrizesOnce` | |
| `CountKept` | `Spec => []CountIsExact` | no `cancel` |
| `CountKeptInModes` | `MCSpec => []CountIsExact` | requests finite, the modes of the run |
| `StakesStayInTurn` | `MCSpec => []StakesInTurn` | likewise |
| `RegistrationsAreAdmitted` | `MCSpec => AdmitsInTurn` | likewise |
| `Membership_proofs!TypeCorrect` | `Spec => []TypeOK` | |
| `IdentitiesKept` | `Spec => []IdentitiesUnique` | |
| `PansKept` | `Spec => PanImmutable` | |
| `ReviewsAreFinal` | `MCSpec => ReviewIsFinal` | reviews take turns |
| `CommissionKept` | `MCSpec => []CommissionInSync` | affiliates take turns; payments finite |
| `BooksTypesKept` | `MCSpec => []BooksTypeOK` | |
| `AmountsKept` | `MCSpec => []FirstAmountKept` | |
| `CancelledRowsStay` | `MCSpec => CancelledStays` | books take turns |
| `PurchasesAreCovered` | `MCSpec => PurchaseCovered` | books take turns; rows and products finite |
| `BackOffice_proofs!TypesKeptEverywhere` | `MCSpec => []AllTypesOK` | |
| `EmailsStayApart` | `MCSpec => []StaffEmailsApart` | |
| `PendingLeavesStayApart` | `MCSpec => []PendingLeavesApart` | leave and attendance take turns |
| `ShiftsLandApart` | `MCSpec => NewShiftsApart` | shifts take turns |
| `KitchenBooksKept` | `MCSpec => []KitchenBooksAgree` | |
| `CashoutsStayCovered` | `MCSpec => []CashoutsCovered` | tips finite, `"none"` is no dealer and no manager |
| `Chat_proofs!TypeCorrect` | `Spec => []TypeOK` | |
| `AnswersAssigned` | `Spec => []AnsweredIsAssigned` | |
| `ChatsStayApart` | `MCSpec => []ChatsApart` | |

"Reviews take turns" is `"reviews" \notin Racing`, where `Racing` is the constant
that names the desks or offices at which requests overlap; a database table has
finitely many rows, which is what the finite sets say. The other assumptions are
necessary. `updateWaitlistEntry` and `unseatPlayer` write back seats they read
without a lock (run `seating_stale_edit`); a buy-out approved without an
amount books 0 for the chips that were taken (`CountedExits`); `updateVisibility` clears a
decision it did not read; a row posted by hand may carry any amount; a
cancellation counts down in a statement of its own; and two staff requests on one
clock overwrite each other (section 6, for all of them).

**Seating.** `SeatExclusive` alone is not inductive: a save pending in some
request could write anything. `TypeInv` adds to the types that a request names
the rows its next step needs (`Ready`). `StaleSafe` adds what pending saves can
do: the only entity a save may still write is a cancelled one (`Calm`), and if
that save would leave the status alone, because the row was cancelled already
when `save` read it, the row is over for good. The lemma `StepEffect` then
reduces every action to what it may do to an entry: nothing, end it, insert it
waiting, or seat it under `MaySeat`. The three results need only that lemma, not
the thirty actions: two seated entries on one seat would need a seating that
`MaySeat` refuses; a cancelled entry is only ever ended; and under the mapping
`HolderOf` a seating is `Take` and everything else is `Leave` or a stutter.

**Seating in turn.** `OnlyNotesStrand` is a property of steps: `TablePromise` says
of a table about to be written that its marker is the one it has, or set, unless
nobody sits there or the handler is one of `NotesEditors`. Neither the counter nor one visit per player is inductive,
since a handler is suspended between the two rows it changes. `TurnInv` says what
the one request under way has still to do: `Kept` of what it has read, that it is
still so; of what it has written, that the counter already counts the player it
is about to unseat (`Leaver`, `StillAt`). People are added up with `Total`, and a
step moves one term of the sum. The two operations left out above do no harm
here: with `TurnInv` an edit or an unseating frees a seat or leaves it with whom
it is (`TurnRecedes`), so the three results hold of the run's modes with every
operation; in the other modes those two do not run (`ModeOps`).

**Account.** `TypeInv` again adds which id a waiting request carries. For
`MoneyIsConserved`, `Counted` says that a request which is about to book a way
out books the amount its staff counted; nothing more is needed, since one that
dies gives the chips back.
`BalancedMove` and `BalancedPost` do the arithmetic once: a row changes the
portal's wallet and the credit sum by amounts that `Ledger` fixes by type and
tag (`RowWorth`), and the physical side moves by the difference. For
`JoiningIsCovered`, `OneLock` says that at most one request holds the player's
lock, and `Covered` that what a joining request has decided to draw still fits
between the credit sum and the limit, since whatever raises the one or lowers
the other needs the same lock; postings without the lock only lower the sum.
Decisions rest on that lock too: `Own` says that the request an approval is
about to write is open, and that an edit writes the status the row has; a step
then leaves every status alone, opens a request while none is open, or decides
one that no other request holds (`Effect`). `LineInTurn` needs `LineOwn`: a way
out that has read the credit owed pays back no more than is still owed.

**Clock.** `OnlyAdvances` needs no bound of the run: `IInv` gives the row, the
ticks and the requests weak shapes and says of a tick that has decided
(`Decided`) that the structure it carries has a round above the one the tick
compares with and within its number of levels. The conditional UPDATE compares
that round with the row, so the row can only go up. That the level a session
should be at is one of its levels (`ExpectedIsALevel`) rests on `Least` of
`Sums`: the code takes the first level that is not over. `PausesFit` is the one
result about staff: `SessionInv` splits a session into `Since`, `Until` and what
was paused, and `Holds` says that what a request loaded is what the row still
says, which one request at a time guarantees while the poller goes on.
`TypeCorrect` comes after it, since what was paused is bounded by the time.

**Desk.** Prizes: the transaction that ends a tournament reads the status under
the row lock. The count: a registration inserts its row and raises the count in
one transaction, no edit writes it, and nothing else but a cancellation lowers
it (`CountInv`). In turn `TurnInv` says that what a request loaded and checked is
still so when it writes: there is room, and its player can pay; that gives
`AdmitsInTurn` after any edits, since each registration checks the row as it is.
`StakesInv` says of each player what registration, field, charges and refunds
have to do with each other where the price stays: a registered player was
charged one buy-in more than was given back.

**Books.** In turn a request saves a row that nobody else has touched, so
`FirstAmountKept` has to hold of the row a request holds as well (`BookedInv`).
It is not inductive without a second half: a row that was booked is completed or
cancelled ever after, since a pending or failed one could be given another
amount without an override. `CancelledStays` needs `Closed`:
nobody is about to save another status over a cancelled row. `PurchaseCovered`
needs `Cleared`: a purchase that has looked is covered still, because points
earned only grow while it waits (play goes on) and nobody else spends.

**Membership.** The handlers' checks prove nothing about identities, because
they are made on loaded rows. What is written is compared with the rows there at
that moment, by the unique columns (`Clash`) and the trigger (`PanChanged`), and
the writes that get past these leave email and PAN alone. `IInv` is therefore
`TypeOK`, the property itself and `PaidTo`, which the types need. That is the
result: identities and PANs depend on the schema, and on nothing else. Reviews
and commission depend on turns: `ReviewInv` says that the request being decided
is pending; `Carries` says, for each step of a payment, a correction or a
referral, by how much the affiliate's row and his payments differ until it is
through. A referral carries a loaded affiliate as well.

**Back office.** The offices share no state, so each keeps an invariant of its
own (`WorkforceInv`, `KitchenInv`, `PayrollInv`) whichever one runs. Addresses
are unique by the index, hiring and edits overlapping. An application about to be
saved keeps clear of the pending ones (`KeepsClear`), a shift about to be
inserted is alone and its day is free (`FindsRoom`); copies and generated rosters
check and insert in one step. `Sound`, a row has an invoice exactly if it is
delivered, holds in turn of every order and of the row a request holds, and
`Accounted` says of that request that the stations agree with the orders as they
will be once it is through. A cash-out about to be paid is covered (`CoveredInv`),
since shares are only added.

**Chat.** `Fits` says of every request what its remaining writes presuppose: one
that holds an answer has its assignment to save first or has saved it. `Grows`
says how chats change: a chat keeps its kind, and somebody assigned is only
replaced, by another or by `"left"`, since a save without the relation does not
write it. Deleting staff ends the requests that hold their row, so those that go
on still fit. A request that fitted the chats before such a change fits them after. In turn, `Fresh` says that
a chat about to be inserted is new among those there, and that one about to be
saved is at most less live than its row.

**Sums.** `MapThenSumSet`, with which the models add up people, tips, points and
payments, is defined by choosing elements one after the other. `Sums` proves that
there is one function that adds up (`SumExists`, `SumUnique`, by induction on the
number of elements, written as a least counterexample), and from it what the
proofs need: `TotalFacts` adds or removes one term, `TotalGrows` and `TotalSame`
compare two sums.

**Only model-checked.** `CatchUp`, since liveness under fairness is out of the
prover's reach, as are statements about `ENABLED` and about what a recursive
definition computes for every input; no module uses a `RECURSIVE` operator, and
`LevelOver` is a recursive function.

## 5. What is not modelled, inside the modelled parts

- Seating: notices, events, the order of the waitlist (only shown, never
  decided on), the text of `tables.notes` beyond the session marker, estimated
  waits, and every permission check: the models start from a call that was
  allowed.
- Account: fees, tips and rake taken out of a buy-out (rows that no sum above
  counts), decimals, rounding and the `decimal(10,2)` columns. `Rake` and `Tip`
  rows count in no sum and are not posted.
- Clock: several tournaments (the poller's loop over the others is time passing
  between its read and its check), blind amounts, events, deletion.
- Books: the two branches of `editAnyTransaction` named in section 2.
- Players: logging in, devices, feedback, files in storage.
- Staff: `staff.service.ts`'s older create, update and remove; accounts beyond
  whether there is one; night shifts; a bulk attendance that names one person
  twice, which inserts two records.
- Kitchen: `generateInvoice`, which nothing calls; menu, categories, inventory
  and suppliers, which orders do not read.
- Payroll: salaries and staff bonuses, which are inserted as given.
- Chat: what messages say, and `recipientStaff.userId`.

The components without a module are listed at the end of section 1.

## 6. What disagrees

Three runs end in a counterexample; `PROJECT.json` records them as findings.

1. `seating_stale_edit`. `updateWaitlistEntry` and `unseatPlayer` load an entry,
   and save it after another request has seated it or given its seat away. The
   save writes the old seat columns back, and two entries hold the seat that
   `assignSeat` checks under its lock.
2. `desk_rummy_refund`. `cancelRegistration` refunds the buy-in whatever the
   game (`player-tournaments.service.ts:696`); a rummy registration pays the
   entry fee alone. Registering and cancelling leaves the player ahead.
3. `leave_cancel_race`. `cancelLeaveApplication` checks a loaded row and saves
   it whole, over an approval that was saved meanwhile
   (`leave-management.service.ts:498`).

The models reach more, which the passing runs avoid by their modes or by the
form of the property. Each is reproduced by allowing what is named.

| allow | in | and this happens |
|---|---|---|
| `endSession` with another request | `seating` | end-session looks for seated players once and closes the table with three saves; a seat assigned in between stays, with no session (`OnlyNotesStrand`, `clubs.controller.ts:6904`) |
| `updateSessionParams` and `updateTable` in turn | `seating` | notes rebuilt from the parameters, or given in the form of a table, lose the session marker, so a running session reads as ended with its players seated (`NotesEditors`; `clubs.controller.ts:6479`, `waitlist-seating.service.ts:729`). The run allows it: `OnlyNotesStrand` says nothing else does it |
| `startCallTime` and approval in turn | `seating` | a buy-out counts one chair free whatever the party, so the counter stays too high after a party of two; and a buy-out request still pending when its player is unseated and the chair given away lowers the counter twice (`PeopleCounted`, `buyout-request.service.ts:230`) |
| two joins at once | `seating` | joining looks and inserts in two statements: two entries of one player (`VisitsInTurn`) |
| `approveByDefault` | `account_money` | a buy-out approved without an amount falls back to `requested_amount`, which the driver returns as a string: it is not of type number, 0 is booked, and the chips staff took are in no account (`BooksBalance`, `buyout-request.service.ts:150-153`) |
| a club buy-in into a negative wallet, with credit | `account` | the payment is posted twice, once as a buy-in that raises the wallet and once as a repayment `Debit` that lowers the credit sum but, by its marker, not the wallet; the app's loop does not know the marker, so `disable-credit` may be refused although nothing is owed |
| two ways out at once | `account` | a buy-out locks its request, not the player; both read the credit owed and both debit it (`LineInTurn`, `buyout-request.service.ts:530`) |
| two buy-in requests at once | `account` | two taps both find no open request (`auth/auth.service.ts:1555`) |
| `updateVisibility` at once | `account` | the whole row is saved: an approved request is pending again and can be approved twice (`CreditDecisionFinal`, `credit-requests.service.ts:292`) |
| a second staff request | `blind_clock` | an edit loaded before the start is saved after it and erases `current_round`; the poller's condition compares with NULL and never holds again (`CatchUp`) |
| `"scheduled"` in `EditStatuses` | `blind_clock` | a tournament started again keeps the pauses of the first session (`PausedTimeIsReal`) |
| edits of the buy-in or the game, in turn | `desk` | register for a buy-in of one, let an edit make it two, cancel: two are refunded for one (`StakesInTurn`, `player-tournaments.service.ts:670-696`). A start enrols at the price of the moment, and `rummy_variant` changes what is charged and refunded |
| an edit of the status to scheduled, in turn | `desk` | a tournament started again counts every stake twice (`StakesInTurn`, `tournaments.service.ts:427`) |
| two registrations at once | `desk` | both find the last place free, and both spend the wallet one of them has emptied (`AdmitsInTurn`, `player-tournaments.service.ts:374`) |
| two cancellations at once | `desk` | the DELETE's number of rows is not looked at: one registration is refunded twice and counted down twice (`StakesInTurn`, `CountIsExact`, `player-tournaments.service.ts:683`) |
| two requests | `books` | an edit saved after a cancellation brings the row back to Completed (`CancelledStays`); each save writes the columns that differ from what it found, so the columns of an older save and of an override can both land and leave an overridden amount whose `original_amount` is null (`FirstAmountKept`); two purchases spend the same points, or the last item twice (`PurchaseCovered`, `player-vip.service.ts:257`) |
| two requests at *reviews* | `membership` | an approval and a rejection overwrite each other, with the change applied or not (`ReviewIsFinal`) |
| two requests at *affiliates* | `membership` | two payments at once lose one from the total (`CommissionInSync`), and so does a failure between the payment and the total (`affiliates.service.ts:595-599`; requests of affiliates do not die in the run) |
| two requests in *kitchen* | `back_office` | a station loses an increment; a cancellation whose save found the order ready writes only its own columns over a delivery, which leaves a cancelled order with an invoice; two deliveries at once share an invoice number, which no constraint keeps apart (`KitchenBooksAgree`, `fnb-enhanced.service.ts:377-411`, `821-860`) |
| two requests in *payroll* | `back_office` | two cash-outs fit the same balance (`CashoutsCovered`) |
| two requests, or opening by staff | `chat` | two messages, two new chats, or staff and player at once give a player two live chats; two staff who write to each other at once have two chats (`ChatsApart`) |

Others are seen in the models but contradict no property stated here.

- *Seating, account, clock.* An unseated table may stay `OCCUPIED`; a buy-in
  approved after its player left books chips on nobody's seat
  (`buyin-request.service.ts:136`), and a credit likewise
  (`credit-requests.service.ts:131`); staff may raise the blinds from a
  structure the poller has since changed, which takes the level back; a tick that
  read the tournament before a pause still advances it; a start repeated by two
  members of staff resets the level.
- *Desk.* An edit may lower the capacity below the registrations there are
  (`tournaments.service.ts:438-441`), which is why `AdmitsInTurn` is about the step
  that registers; two edits at once write each its structure whole. A
  registration can be cancelled after the start or the end, and leaves its seat
  in the field; a rebuy looks at no balance; an exit that lowers the
  wallet is booked as a `Debit`.
- *Store.* Removing a product deletes its purchases, and the points spent on
  them can be spent again (`vip-products.service.ts:193`, by the cascade in
  `0052_vip_purchases.sql:6`); a form writes a stock figure over what purchases
  have left.
- *Players.* Signing up with a referral code neither counts the referral nor
  asks whether the affiliate is active; the initial balance of a player created
  by staff is never booked; activating or unsuspending makes an unverified or
  rejected player active, and approving lifts a suspension; a password change
  saved late undoes a suspension; two uploads at once lose a document; a profile
  change stores an email as typed, while logging in looks for lower case.
- *Staff.* Leave is not weighed against the balance again when it is approved;
  a generated roster looks at neither leave nor hours, and a moved shift at
  nothing; suspension is undone by a form saved late; an account keeps its role
  when its staff row goes; staff with leave applications cannot be deleted.
- *Kitchen.* Orders accepted out of their order of creation share a number; an
  order set to processing by PATCH has neither number nor station; an order
  cancelled when ready stays in its station's count, and keeps its number,
  although `0029:65` says numbers are null for cancelled orders.
- *Payroll.* The built-in percentages are 15, 85 and 5, although the form insists
  on 100 (`payroll.service.ts:206`); a dealer keeps a copy of the club's
  percentages for good; a bonus is kept when its booking fails.
- *Chat.* Deleting the member of staff assigned to an answered chat leaves it to
  nobody (`0030:17`, `staff-management.service.ts:452-454`); `AnsweredIsAssigned`
  says that nothing else does. Staff who ever wrote to anybody cannot be deleted.
  Any answer reassigns the chat to who wrote it, since the relation the
  condition looks at (`chat.service.ts:710`) is not loaded; an answer or message
  saved over a closing reopens the chat; two archivings at once lose one; an
  archived chat stays hidden when a message comes; reading one page marks all
  messages read.

## 7. How to trust the models

- `map` in `PROJECT.json` gives, for each definition that models code, the file
  and lines it translates. Properties, faults and symmetry have no entry.
- One action per await. Where a handler's steps are merged into one action, a
  lock that every competitor takes, or the absence of anything to race with, is
  the reason, given in the action's comment.
- Every property has a mutant that refutes it, every action of the passing runs
  is taken, and the constants' assumptions are evaluated by the runs.
- Where a property is stated for requests taken in turn, section 6 says what
  happens when they are not.

## 8. Plan

Done: the modules and proofs of section 2. Every invariant and action property
that a passing run checks is stated by a theorem.

Next, in this order:

1. `SessionClock`: the elapsed seconds in `tables.notes` across start, pause,
   resume, edit and end, as a parser with its reference definition, and the
   interleavings of the handlers that rewrite the text.
2. The two other branches of `editAnyTransaction`, with salaries in `Payroll`, and
   a claim about cash-outs that holds with them.
3. The two steps of `save` in `Membership`, `Workforce` and `PlayerAccount`.
4. Deleting a tournament under the poller, joining `BlindClock` and
   `TournamentDesk`.

Runs are few on purpose: one per question. What a wider mode shows is told in
section 6 instead of being kept as a run of its own.
