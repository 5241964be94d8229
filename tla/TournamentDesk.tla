--------------------------- MODULE TournamentDesk ---------------------------
(***************************************************************************)
(* One tournament and the people in it: registration and its cancellation  *)
(* from the player's app (player-tournaments.service), and start, stop,    *)
(* end with winners, exit, rebuy and deletion at the desk                  *)
(* (clubs/services/tournaments.service).  The blind clock is BlindClock's. *)
(*                                                                         *)
(* A request loads what it checks and then runs one transaction, which     *)
(* locks nothing but, in endTournament, the tournament's row.  So every    *)
(* handler is a loading step and a writing step, registration has a second *)
(* loading step for the balance, and staff may call two handlers at once.  *)
(* Of a ledger row only its worth is kept (Ledger); charged and refunded   *)
(* add up the buy-ins a player was charged and given back.                 *)
(***************************************************************************)
EXTENDS Ledger, FiniteSets

CONSTANTS
  Players, Handlers,
  Ops,            \* the operations this instance lets requests perform
  Games,          \* subset of {"poker", "rummy"}
  BuyIns,         \* values of buy_in
  Sizes,          \* values of max_players
  Fees,           \* values of structure.entry_fee
  Lates,          \* values of structure.late_registration, in minutes
  Limit,          \* every player's credit limit
  Fund,           \* what every player's wallet holds at first
  ExitBalances,   \* final wallets staff may enter at an exit
  Prize,          \* prize of every winner
  EditStatuses,   \* values an edit gives status
  MaxColumns,     \* bound: columns one edit changes
  MaxMinutes,     \* bound: minutes counted since the start
  MaxCharges,     \* bound: buy-ins charged to, and refunded to, one player
  MaxEnds         \* bound: times prizes are handed out

RebuyTypes == {"rebuy", "reentry", "addon"}

ASSUME DeskAssumption ==
  /\ Games \subseteq {"poker", "rummy"}
  /\ BuyIns \subseteq Nat /\ Sizes \subseteq Nat /\ ExitBalances \subseteq Nat
  /\ Fees \subseteq Nat /\ Lates \subseteq Nat
  /\ {Limit, Fund, Prize, MaxCharges, MaxEnds, MaxColumns, MaxMinutes} \subseteq Nat
  /\ EditStatuses \subseteq {"scheduled", "active", "completed"}

VARIABLES
  t,                  \* the tournament's row
  reg,                \* players with a row in tournament_registrations
  tp,                 \* tp[p]: the player's row in tournament_players
  wallet, line,       \* WALLET_BALANCE_SQL and CREDIT_BALANCE_SQL per player
  charged, refunded,  \* buy-ins charged and refunded, in rupees
  ends,               \* how often prizes were handed out
  req                 \* req[h]: the request in slot h and what it has read

money == <<wallet, line, charged, refunded>>
vars == <<t, reg, tp, money, ends, req>>

Statuses == {"unborn", "scheduled", "active", "completed", "deleted"}

\* ran: minutes since session_started_at, rounded up; 0 while it is not set.
Tournament == [status : Statuses, game : {"poker", "rummy"}, buyIn : Nat, fee : Nat,
               size : Nat, late : Nat, count : Nat, ran : Nat]
Unborn == [status |-> "unborn", game |-> "poker", buyIn |-> 0, fee |-> 0,
           size |-> 0, late |-> 0, count |-> 0, ran |-> 0]

\* What an edit can change: game stands for rummy_variant, structure for the
\* JSON column that holds fee and late.
Columns == {"status", "game", "buyIn", "size", "structure"}

Seat == [row : BOOLEAN, active : BOOLEAN, exited : BOOLEAN, invested : Nat]
NoSeat == [row |-> FALSE, active |-> FALSE, exited |-> FALSE, invested |-> 0]

PC == {"idle", "funds", "register", "cancel", "start", "stop", "stopPlayers",
       "end", "delete", "enroll", "exit", "rebuy", "edit"}
Kinds == RebuyTypes \cup {"none", "exit"}
\* seen: the row as it was loaded, in an edit with the columns cols changed.
Request == [pc : PC, who : SUBSET Players, seen : Tournament, amount : Int,
            kind : Kinds, cols : SUBSET Columns]
Idle == [pc |-> "idle", who |-> {}, seen |-> Unborn, amount |-> 0, kind |-> "none",
         cols |-> {}]

TypeOK ==
  /\ t \in Tournament
  /\ reg \in SUBSET Players
  /\ tp \in [Players -> Seat]
  /\ wallet \in [Players -> Int] /\ line \in [Players -> Int]
  /\ charged \in [Players -> Nat] /\ refunded \in [Players -> Nat]
  /\ ends \in Nat
  /\ req \in [Handlers -> Request]

Init ==
  /\ t = Unborn /\ reg = {} /\ tp = [p \in Players |-> NoSeat]
  /\ wallet = [p \in Players |-> Fund] /\ line = [p \in Players |-> 0]
  /\ charged = [p \in Players |-> 0] /\ refunded = [p \in Players |-> 0]
  /\ ends = 0 /\ req = [h \in Handlers |-> Idle]

-----------------------------------------------------------------------------
(* Requests and rows.                                                      *)

Free(h, op) == req[h].pc = "idle" /\ op \in Ops
At(h, pc) == req[h].pc = pc
Exists == t.status \notin {"unborn", "deleted"}
Becomes(h, r) == req' = [req EXCEPT ![h] = r]
Goto(h, pc) == Becomes(h, [req[h] EXCEPT !.pc = pc])
Done(h) == Becomes(h, Idle)

\* getTournamentById: a request goes on with the row it has loaded.
Load(h, pc, who, amount, kind) ==
  /\ Exists
  /\ Becomes(h, [pc |-> pc, who |-> who, seen |-> t, amount |-> amount, kind |-> kind,
                 cols |-> {}])
  /\ UNCHANGED <<t, reg, tp, money, ends>>

The(h) == CHOOSE p \in req[h].who : TRUE
\* The buy-in of the row the request has loaded.
BuyInOf(h) == req[h].seen.buyIn

\* Rummy registrations pay the entry fee only.
BuyInRequired(seen) == IF seen.game = "rummy" THEN 0 ELSE seen.buyIn
Required(seen) == BuyInRequired(seen) + seen.fee

\* Fault: without COALESCE the sum with an unset total is unset, here -1.
EnrolledUnset(seat, invested) ==
  [row |-> TRUE, active |-> TRUE, exited |-> FALSE,
   invested |-> IF seat.row THEN seat.invested + invested ELSE -1]
\* INSERT INTO tournament_players .. ON CONFLICT DO UPDATE.
Enrolled(seat, invested) ==
  [row |-> TRUE, active |-> TRUE, exited |-> FALSE, invested |-> seat.invested + invested]

\* What two ledger rows of p do to the wallet and the credit sum (Nothing for
\* the second where a handler posts one).
Post(p, r, s) ==
  /\ wallet' = [wallet EXCEPT ![p] = @ + WalletEffect(r) + WalletEffect(s)]
  /\ line' = [line EXCEPT ![p] = @ + CreditEffect(r) + CreditEffect(s)]

-----------------------------------------------------------------------------
(* The player's app.                                                       *)

HasRoom == t.count < t.size
WindowPast == t.ran > t.late

\* Refused unless scheduled, or active with the window still open, and not full.
RegisterForTournament(h, p) ==
  /\ Free(h, "register")
  /\ t.status \in {"scheduled", "active"}
  /\ t.status = "active" /\ t.ran > 0 => t.late > 0 /\ ~WindowPast
  /\ HasRoom
  /\ Load(h, "funds", {p}, 0, "none")

\* getPlayerBalance, and the check for an earlier registration.
RegisterFunds(h) ==
  /\ At(h, "funds")
  /\ LET p == The(h)
         required == Required(req[h].seen)
         credit == CreditRemaining(TRUE, Limit, line[p], wallet[p])
     IN IF wallet[p] >= 0 /\ wallet[p] + credit >= required /\ p \notin reg
        THEN Becomes(h, [req[h] EXCEPT !.pc = "register", !.amount = wallet[p]])
        ELSE Done(h)
  /\ UNCHANGED <<t, reg, tp, money, ends>>

\* Fault: the entry fee and the buy-in each take the whole wallet.
WalletPartTwice(h, required) == Lesser(required, req[h].amount) + Lesser(req[h].seen.fee, req[h].amount)
\* What the wallet, as it was read, pays of the sum; the rest is drawn.
WalletPart(h, required) == Lesser(required, req[h].amount)

\* Fault: the counter is written from the row as it was loaded.
NewCountOfSeen(h) == req[h].seen.count + 1
NewCount(h) == t.count + 1

IsLate(h) == req[h].seen.status = "active"

\* The UNIQUE constraint and the foreign key make the INSERT fail; a player who
\* registers late is put in the field as well.
RegisterTx(h) ==
  /\ At(h, "register")
  /\ LET p == The(h)
         buyIn == BuyInRequired(req[h].seen)
         required == Required(req[h].seen)
         fromWallet == WalletPart(h, required)
     IN /\ charged[p] + buyIn <= MaxCharges
        /\ IF p \notin reg /\ Exists
           THEN /\ reg' = reg \cup {p}
                /\ t' = [t EXCEPT !.count = NewCount(h)]
                /\ tp' = IF IsLate(h) THEN [tp EXCEPT ![p] = Enrolled(@, buyIn)] ELSE tp
                /\ Post(p, Row("Register", "none", fromWallet),
                           Row("Credit", "none", required - fromWallet))
                /\ charged' = [charged EXCEPT ![p] = @ + buyIn]
           ELSE UNCHANGED <<t, reg, tp, wallet, line, charged>>
  /\ Done(h)
  /\ UNCHANGED <<refunded, ends>>

CancelRegistration(h, p) ==
  /\ Free(h, "cancel") /\ p \in reg
  /\ Load(h, "cancel", {p}, 0, "none")

Unregistered(p) == reg \ {p}

\* Neither the status nor the number of deleted rows is looked at, and the
\* seat in the field, if there is one, stays.
CancelTx(h) ==
  /\ At(h, "cancel")
  /\ LET p == The(h) IN
       /\ refunded[p] + BuyInOf(h) <= MaxCharges
       /\ reg' = Unregistered(p)
       /\ t' = IF Exists THEN [t EXCEPT !.count = NotNegative(@ - 1)] ELSE t
       /\ Post(p, Row("Refund", "none", BuyInOf(h)), Nothing)
       /\ refunded' = [refunded EXCEPT ![p] = @ + BuyInOf(h)]
  /\ Done(h)
  /\ UNCHANGED <<tp, charged, ends>>

-----------------------------------------------------------------------------
(* The desk: the life of the tournament.                                   *)

\* A late registration of 0 minutes becomes the default of 60.
NewTournaments == [status : {"scheduled"}, game : Games, buyIn : BuyIns, fee : Fees,
                   size : Sizes, late : Lates \ {0}, count : {0}, ran : {0}]

CreateTournament(h, new) ==
  /\ Free(h, "create") /\ t.status = "unborn"
  /\ t' = new
  /\ UNCHANGED <<reg, tp, money, ends, req>>

\* The rows an edit of cols can ask for: the structure is written whole, with
\* what the request gives and, for the rest, what the row had when it was loaded.
Edits(cols) ==
  LET Given(col, values, old) == IF col \in cols THEN values ELSE {old}
  IN [status : Given("status", EditStatuses, t.status), game : Given("game", Games, t.game),
      buyIn : Given("buyIn", BuyIns, t.buyIn), fee : Given("structure", Fees, t.fee),
      size : Given("size", Sizes, t.size), late : Given("structure", Lates, t.late),
      count : {t.count}, ran : {t.ran}]

\* Nothing is compared with the registrations, the money paid or the field.
UpdateTournament(h, cols, new) ==
  /\ Free(h, "update") /\ Exists
  /\ Becomes(h, [pc |-> "edit", who |-> {}, seen |-> new, amount |-> 0, kind |-> "none",
                 cols |-> cols])
  /\ UNCHANGED <<t, reg, tp, money, ends>>

\* The row with the columns cols of new.
Patched(row, new, cols) ==
  [status |-> IF "status" \in cols THEN new.status ELSE row.status,
   game |-> IF "game" \in cols THEN new.game ELSE row.game,
   buyIn |-> IF "buyIn" \in cols THEN new.buyIn ELSE row.buyIn,
   fee |-> IF "structure" \in cols THEN new.fee ELSE row.fee,
   size |-> IF "size" \in cols THEN new.size ELSE row.size,
   late |-> IF "structure" \in cols THEN new.late ELSE row.late,
   count |-> row.count, ran |-> row.ran]

\* One UPDATE of the columns the request names, without a look at the row.
UpdateTx(h) ==
  /\ At(h, "edit")
  /\ t' = IF Exists THEN Patched(t, req[h].seen, req[h].cols) ELSE t
  /\ Done(h)
  /\ UNCHANGED <<reg, tp, money, ends>>

StartTournament(h) ==
  /\ Free(h, "start") /\ t.status = "scheduled"
  /\ Load(h, "start", {}, 0, "none")

\* Everyone in the field is back in, and everyone registered is in it.
Started(seat, p, b) ==
  IF p \in reg THEN Enrolled(seat, b) ELSE [seat EXCEPT !.exited = FALSE]

StartTx(h) ==
  /\ At(h, "start")
  /\ \A p \in Players : tp[p].invested + BuyInOf(h) <= MaxCharges
  /\ IF Exists
     THEN /\ t' = [t EXCEPT !.status = "active", !.ran = 1]
          /\ tp' = [p \in Players |-> Started(tp[p], p, BuyInOf(h))]
     ELSE UNCHANGED <<t, tp>>
  /\ Done(h)
  /\ UNCHANGED <<reg, money, ends>>

\* Time passes; past late, the late registration window has closed.
Minute ==
  /\ t.ran \in 1 .. MaxMinutes - 1
  /\ t' = [t EXCEPT !.ran = @ + 1]
  /\ UNCHANGED <<reg, tp, money, ends, req>>

StopTournament(h) ==
  /\ Free(h, "stop") /\ t.status = "active"
  /\ Load(h, "stop", {}, 0, "none")

\* Two statements without a transaction: the row first, the field after it.
StopStatus(h) ==
  /\ At(h, "stop")
  /\ t' = IF Exists THEN [t EXCEPT !.status = "completed"] ELSE t
  /\ Goto(h, "stopPlayers")
  /\ UNCHANGED <<reg, tp, money, ends>>

StopPlayers(h) ==
  /\ At(h, "stopPlayers")
  /\ tp' = [p \in Players |-> [tp[p] EXCEPT !.active = FALSE]]
  /\ Done(h)
  /\ UNCHANGED <<t, reg, money, ends>>

\* Every winner must be in the field, once.
EndTournament(h, winners) ==
  /\ Free(h, "end") /\ t.status = "active"
  /\ winners # {} /\ \A p \in winners : tp[p].row
  /\ Load(h, "end", winners, 0, "none")

\* Fault: the status is not read again under the lock.
StillActiveUnchecked(h) == Exists
\* Under SELECT .. FOR UPDATE the status is read again.
StillActive(h) == t.status = "active"

Closed(seat, p, h) ==
  IF seat.row \/ p \in req[h].who
  THEN [seat EXCEPT !.row = TRUE, !.active = FALSE, !.exited = TRUE] ELSE seat

EndTx(h) ==
  /\ At(h, "end") /\ ends < MaxEnds
  /\ IF StillActive(h)
     THEN /\ t' = [t EXCEPT !.status = "completed"]
          /\ tp' = [p \in Players |-> Closed(tp[p], p, h)]
          /\ wallet' = [p \in Players |->
               wallet[p] + IF p \in req[h].who
                           THEN WalletEffect(Row("Tournament Win", "none", Prize)) ELSE 0]
          /\ ends' = ends + 1
     ELSE UNCHANGED <<t, tp, wallet, ends>>
  /\ Done(h)
  /\ UNCHANGED <<reg, line, charged, refunded>>

DeleteTournament(h) ==
  /\ Free(h, "delete")
  /\ Load(h, "delete", {}, 0, "none")

\* Whether the registered are refunded was decided on the row as it was loaded.
DeleteTx(h) ==
  /\ At(h, "delete")
  /\ LET back(p) == IF req[h].seen.status = "scheduled" /\ p \in reg THEN BuyInOf(h) ELSE 0
     IN /\ \A p \in Players : refunded[p] + back(p) <= MaxCharges
        /\ wallet' = [p \in Players |-> wallet[p] + WalletEffect(Row("Refund", "none", back(p)))]
        /\ refunded' = [p \in Players |-> refunded[p] + back(p)]
  /\ t' = IF Exists THEN [Unborn EXCEPT !.status = "deleted"] ELSE t
  /\ reg' = {} /\ tp' = [p \in Players |-> NoSeat]
  /\ Done(h)
  /\ UNCHANGED <<line, charged, ends>>

-----------------------------------------------------------------------------
(* The desk: one player.                                                   *)

\* A registered player who is not in the field is put in it first.
LoadSeat(h, p, ok, pc, amount, kind) ==
  /\ t.status = "active"
  /\ \/ tp[p].row /\ ok /\ Load(h, pc, {p}, amount, kind)
     \/ ~tp[p].row /\ p \in reg /\ Load(h, "enroll", {p}, amount, kind)

ExitTournamentPlayer(h, p, balance) ==
  /\ Free(h, "exit")
  /\ LoadSeat(h, p, ~tp[p].exited, "exit", balance, "exit")

RebuyTournamentPlayer(h, p, kind) ==
  /\ Free(h, "rebuy")
  /\ kind = "reentry" /\ t.late > 0 => ~WindowPast
  /\ LoadSeat(h, p, kind = "addon" \/ tp[p].exited, "rebuy", 0, kind)

\* The upsert leaves the player in, so an exit goes on and a rebuy is refused.
Enroll(h) ==
  /\ At(h, "enroll")
  /\ LET p == The(h) IN
       /\ tp[p].invested + BuyInOf(h) <= MaxCharges
       /\ tp' = IF Exists THEN [tp EXCEPT ![p] = Enrolled(@, BuyInOf(h))] ELSE tp
  /\ IF req[h].kind = "exit" /\ Exists THEN Goto(h, "exit")
     ELSE IF req[h].kind = "addon" /\ Exists THEN Goto(h, "rebuy") ELSE Done(h)
  /\ UNCHANGED <<t, reg, money, ends>>

\* The wallet is brought to the balance entered, then what is owed on the
\* credit line is taken from it.
ExitTx(h) ==
  /\ At(h, "exit")
  /\ LET p == The(h)
         balance == req[h].amount
         owed == Lesser(NotNegative(line[p]), balance)
         adjustment == IF balance >= wallet[p]
                       THEN Row("Refund", "none", balance - wallet[p])
                       ELSE Row("Withdrawal", "none", wallet[p] - balance)
     IN /\ tp' = IF tp[p].row THEN [tp EXCEPT ![p].exited = TRUE, ![p].active = FALSE]
                 ELSE tp
        /\ Post(p, adjustment, Row("Debit", "none", owed))
  /\ Done(h)
  /\ UNCHANGED <<t, reg, charged, refunded, ends>>

\* Fault: a rebuy is added to the stake but not booked.
RebuyUnbooked(h) == 0
RebuyAmount(h) == BuyInOf(h)

\* Booked whatever the wallet holds.
RebuyTx(h) ==
  /\ At(h, "rebuy")
  /\ LET p == The(h) IN
       /\ charged[p] + BuyInOf(h) <= MaxCharges
       /\ tp[p].invested + BuyInOf(h) <= MaxCharges
       /\ tp' = IF ~tp[p].row THEN tp
                ELSE IF req[h].kind = "addon"
                THEN [tp EXCEPT ![p].invested = @ + BuyInOf(h)]
                ELSE [tp EXCEPT ![p] = Enrolled(@, BuyInOf(h))]
       /\ Post(p, Row("Buy In", "none", RebuyAmount(h)), Nothing)
       /\ charged' = [charged EXCEPT ![p] = @ + RebuyAmount(h)]
  /\ Done(h)
  /\ UNCHANGED <<t, reg, refunded, ends>>

-----------------------------------------------------------------------------
PlayerStep(h) ==
  \/ \E p \in Players : RegisterForTournament(h, p) \/ CancelRegistration(h, p)
  \/ RegisterFunds(h) \/ RegisterTx(h) \/ CancelTx(h)

DeskStep(h) ==
  \/ \E new \in NewTournaments : CreateTournament(h, new)
  \/ \E cols \in SUBSET Columns :
       /\ cols # {} /\ Cardinality(cols) <= MaxColumns
       /\ \E new \in Edits(cols) : UpdateTournament(h, cols, new)
  \/ UpdateTx(h)
  \/ StartTournament(h) \/ StartTx(h)
  \/ StopTournament(h) \/ StopStatus(h) \/ StopPlayers(h)
  \/ \E w \in SUBSET Players : EndTournament(h, w)
  \/ EndTx(h)
  \/ DeleteTournament(h) \/ DeleteTx(h)

SeatStep(h) ==
  \/ \E p \in Players, b \in ExitBalances : ExitTournamentPlayer(h, p, b)
  \/ \E p \in Players, k \in RebuyTypes : RebuyTournamentPlayer(h, p, k)
  \/ Enroll(h) \/ ExitTx(h) \/ RebuyTx(h)

Next == (\E h \in Handlers : PlayerStep(h) \/ DeskStep(h) \/ SeatStep(h)) \/ Minute

Spec == Init /\ [][Next]_vars

-----------------------------------------------------------------------------
(* Properties.                                                             *)

\* current_players, the number a registration compares with max_players, is
\* the number of registrations, however many are made at once.
CountIsExact == t.count = Cardinality(reg)

\* What the desk reports as invested was charged to the player, wherever the
\* registration, the start and the rebuys added to it.
InvestedWasCharged == \A p \in Players : tp[p].invested <= charged[p]

\* Cancelling a registration and deleting the tournament give a player back
\* no more than the buy-ins the player was charged.
RefundsWithinCharges == \A p \in Players : refunded[p] <= charged[p]

\* A step: whoever gets registered had a place, and is charged no more than they
\* can pay: neither the wallet nor the credit limit is overdrawn by it.
Admits ==
  \A h \in Handlers : At(h, "register") =>
    \A p \in req[h].who : reg' # reg /\ p \in reg' =>
      /\ wallet'[p] >= 0 /\ line'[p] <= Limit
      /\ Cardinality(reg') <= t'.size

\* Prizes are handed out by a step that takes an active tournament to
\* completed, however many requests try to end it at once.
PrizesOnce == [][ends' # ends => t.status = "active" /\ t'.status = "completed"]_vars
=============================================================================
