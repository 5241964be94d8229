--------------------------- MODULE PlayerAccount ---------------------------
(***************************************************************************)
(* The money of one player of one club: the ledger totals the code sums up *)
(* from financial_transactions, the credit facility, the buy-in, buy-out   *)
(* and credit requests, and the chips they stand for (financial-           *)
(* transactions, waitlist-seating, buyin-request, buyout-request and       *)
(* credit-requests services; the facility endpoints of clubs.controller).  *)
(*                                                                         *)
(* Rows are only ever added here, so a sum is kept instead of the rows.    *)
(* Every sum of the code ranges over one player's rows, so one player is   *)
(* enough.  A database transaction that reads a total, or a row it does    *)
(* not lock, before it writes has a reading step, which also takes its     *)
(* locks, and a committing step; one that only tests rows it has locked is *)
(* a single step.  The physical side is the environment: felt, the chips   *)
(* in front of the player; hand, chips counted and taken by staff whose    *)
(* request is still running; till, what the player has brought in and won  *)
(* less what was paid out and lost.                                        *)
(***************************************************************************)
EXTENDS Ledger

CONSTANTS
  Handlers,           \* request slots: how many requests can be in flight
  Ops,                \* the operations this instance lets requests perform
  Amounts, Limits,    \* amounts asked for or paid; credit limits staff grant
  MinBuyIn, MaxBuyIn, \* of the table; MaxBuyIn = 0 when it has no maximum
  PostTypes,          \* row types the cashier posts over the counter
  BuyIns, BuyOuts, Credits,   \* request ids, each inserted at most once
  Cap,                \* bound on the cash and chips the environment brings in
  NoId

\* Over the counter: cash changes hands when the row is posted.
CounterTypes == (AutoComplete \ {"Table Buy In", "Table Buy Out", "Buy In", "Debit"})

ASSUME AccountAssumption ==
  /\ Amounts \subseteq Nat \ {0} /\ Limits \subseteq Nat \ {0}
  /\ MinBuyIn \in Nat /\ MaxBuyIn \in Nat /\ Cap \in Nat
  /\ PostTypes \subseteq CounterTypes
  /\ NoId \notin BuyIns \cup BuyOuts \cup Credits

VARIABLES
  cash,      \* the wallet: WALLET_BALANCE_SQL over the player's rows
  portal,    \* the wallet as getPlayerBalance shows it to the player
  line,      \* CREDIT_BALANCE_SQL: credit drawn and not yet paid back
  book,      \* session table chips: rows since the player was last seated
  seated,    \* the player has a SEATED waitlist entry
  enabled, limit,      \* players.credit_enabled and players.credit_limit
  buyIn, buyOut, credit,   \* the request rows
  felt, hand, till,    \* the environment, see above
  req                  \* req[h]: the request in slot h and what it has read

ledger   == <<cash, portal, line, book>>
facility == <<enabled, limit>>
requests == <<buyIn, buyOut, credit>>
chips    == <<felt, hand, till>>
vars == <<ledger, seated, facility, requests, chips, req>>

PC == {"idle", "readWallet", "postRepay", "seatCommit", "insertBuyIn",
       "insertBuyOut", "readOwed", "exitCommit", "creditCommit",
       "saveCredit", "writeCredit"}

BuyRequest == [status : {"unused", "pending", "approved", "rejected"}, amount : Nat]
CreditRequest == [status : {"unused", "Pending", "Approved", "Denied"},
                  amount : Nat, limit : Nat, visible : BOOLEAN]
NoBuyRequest == [status |-> "unused", amount |-> 0]
NoCredit == [status |-> "unused", amount |-> 0, limit |-> 0, visible |-> TRUE]

Request == [op : Ops \cup {"none"}, pc : PC,
            id : BuyOuts \cup Credits \cup {NoId},
            amount : Nat, draw : Nat, owed : Nat, counted : Nat,
            ent : CreditRequest, base : CreditRequest]

Idle == [op |-> "none", pc |-> "idle", id |-> NoId, amount |-> 0, draw |-> 0,
         owed |-> 0, counted |-> 0, ent |-> NoCredit, base |-> NoCredit]

TypeOK ==
  /\ cash \in Int /\ portal \in Int /\ line \in Int /\ book \in Int
  /\ seated \in BOOLEAN /\ enabled \in BOOLEAN /\ limit \in Nat
  /\ buyIn \in [BuyIns -> BuyRequest]
  /\ buyOut \in [BuyOuts -> BuyRequest]
  /\ credit \in [Credits -> CreditRequest]
  /\ felt \in Nat /\ hand \in Int /\ till \in Int
  /\ req \in [Handlers -> Request]

Init ==
  /\ cash = 0 /\ portal = 0 /\ line = 0 /\ book = 0
  /\ seated = FALSE /\ enabled = FALSE /\ limit = 0
  /\ buyIn = [i \in BuyIns |-> NoBuyRequest]
  /\ buyOut = [i \in BuyOuts |-> NoBuyRequest]
  /\ credit = [c \in Credits |-> NoCredit]
  /\ felt = 0 /\ hand = 0 /\ till = 0
  /\ req = [h \in Handlers |-> Idle]

-----------------------------------------------------------------------------
(* Requests, locks and rows.                                               *)

Free(h, op) == req[h].pc = "idle" /\ op \in Ops
At(h, pc) == req[h].pc = pc
Becomes(h, r) == req' = [req EXCEPT ![h] = r]
Goto(h, pc) == Becomes(h, [req[h] EXCEPT !.pc = pc])
Done(h) == Becomes(h, Idle)

\* SELECT ... FOR UPDATE and pessimistic_write locks held until the commit.
PlayerLocked == \E g \in Handlers : req[g].pc \in {"seatCommit", "creditCommit"}
BuyOutLocked(i) == \E g \in Handlers : At(g, "exitCommit") /\ req[g].id = i
CreditLocked(c) == \E g \in Handlers : At(g, "creditCommit") /\ req[g].id = c

Pending(rows, i) == rows[i].status \in {"pending", "Pending"}
NonePending(rows) == \A i \in DOMAIN rows : ~Pending(rows, i)
Within(n) == -Cap <= n /\ n <= Cap

\* Three rows inserted by one transaction (Nothing for a row it leaves out).
Post(r, s, t) ==
  /\ cash' = cash + WalletEffect(r) + WalletEffect(s) + WalletEffect(t)
  /\ portal' = portal + PortalEffect(r) + PortalEffect(s) + PortalEffect(t)
  /\ line' = line + CreditEffect(r) + CreditEffect(s) + CreditEffect(t)
  /\ book' = book + ChipEffect(r) + ChipEffect(s) + ChipEffect(t)

-----------------------------------------------------------------------------
(* The cashier: FinancialTransactionsService.create.                       *)

\* create inserts the row at once; a club buy-in has more to do.
CreateTransaction(h, type, a) ==
  /\ Free(h, "createTransaction")
  /\ LET row == Row(type, "none", a) IN
       /\ Within(till + WalletEffect(row)) /\ Within(cash + WalletEffect(row))
       /\ Within(line)
       /\ Post(row, Nothing, Nothing)
       /\ till' = till + WalletEffect(row)
  /\ IF type = "Club Buy In"
     THEN Becomes(h, [Idle EXCEPT !.op = "createTransaction",
                                  !.pc = "readWallet", !.amount = a])
     ELSE UNCHANGED req
  /\ UNCHANGED <<seated, facility, requests, felt, hand>>

\* It looks at the player and the new wallet: what part of the payment only
\* filled a hole is to be booked as a repayment.
ReadWallet(h) ==
  /\ At(h, "readWallet")
  /\ LET walletBefore == cash - req[h].amount
         repay == Lesser(req[h].amount, NotNegative(-walletBefore)) IN
       IF enabled /\ repay > 0
       THEN Becomes(h, [req[h] EXCEPT !.pc = "postRepay", !.owed = repay])
       ELSE Done(h)
  /\ UNCHANGED <<ledger, seated, facility, requests, chips>>

PostRepay(h) ==
  /\ At(h, "postRepay")
  /\ Post(Row("Debit", "repay", req[h].owed), Nothing, Nothing)
  /\ Done(h)
  /\ UNCHANGED <<seated, facility, requests, chips>>

-----------------------------------------------------------------------------
(* Sitting down: the money side of assignSeat.                             *)

\* Faults: the room under the table's maximum may be negative; the headroom
\* under the limit is forgotten.
DrawUnclamped(toTable) ==
  LET onLine   == CreditOnLine(enabled, limit, line)
      headroom == NotNegative(limit - NotNegative(line))
      room     == IF MaxBuyIn = 0 THEN onLine ELSE MaxBuyIn - toTable
  IN Lesser(room, Lesser(onLine, headroom))

DrawPastLimit(toTable) ==
  LET onLine == CreditOnLine(enabled, limit, line)
      room   == IF MaxBuyIn = 0 THEN onLine ELSE NotNegative(MaxBuyIn - toTable)
  IN Lesser(room, onLine)

\* Credit drawn on joining: what is already on line, while there is room
\* under the table's maximum and headroom under the limit.
DrawOnJoin(toTable) ==
  LET owing    == IF enabled THEN line ELSE 0
      onLine   == CreditOnLine(enabled, limit, owing)
      headroom == NotNegative(limit - NotNegative(owing))
      room     == IF MaxBuyIn = 0 THEN onLine ELSE NotNegative(MaxBuyIn - toTable)
  IN Lesser(room, Lesser(onLine, headroom))

\* Under the locks of the entry, the table and the player.
AssignSeat(h) ==
  /\ Free(h, "assignSeat")
  /\ ~seated /\ ~PlayerLocked
  /\ cash >= 0
  /\ MeetsMinBuyIn(cash, CreditOnLine(enabled, limit, line), MinBuyIn)
  /\ cash + DrawOnJoin(cash) >= MinBuyIn
  /\ Becomes(h, [Idle EXCEPT !.op = "assignSeat", !.pc = "seatCommit",
                 !.amount = NotNegative(cash), !.draw = DrawOnJoin(cash)])
  /\ UNCHANGED <<ledger, seated, facility, requests, chips>>

SeatCommit(h) ==
  /\ At(h, "seatCommit")
  /\ LET cashRow   == Row("Table Buy In", "none", req[h].amount)
         creditRow == Row("Credit", "none", req[h].draw)
         pairRow   == Row("Table Buy In", "pair", req[h].draw) IN
       /\ cash' = cash + WalletEffect(cashRow) + WalletEffect(creditRow) + WalletEffect(pairRow)
       /\ portal' = portal + PortalEffect(cashRow) + PortalEffect(creditRow) + PortalEffect(pairRow)
       /\ line' = line + CreditEffect(creditRow)
       /\ book' = ChipEffect(cashRow) + ChipEffect(creditRow) + ChipEffect(pairRow)
  /\ felt' = felt + req[h].amount + req[h].draw
  /\ seated' = TRUE
  /\ Done(h)
  /\ UNCHANGED <<facility, requests, hand, till>>

\* unseatPlayer frees the seat and touches no money.
UnseatPlayer ==
  /\ "unseatPlayer" \in Ops
  /\ seated
  /\ seated' = FALSE
  /\ UNCHANGED <<ledger, facility, requests, chips, req>>

\* The environment: hands are won and lost.
Play ==
  /\ "play" \in Ops
  /\ seated /\ felt > 0
  /\ \E n \in 0 .. Cap : felt' = n /\ till' = till + n - felt
  /\ Within(till')
  /\ UNCHANGED <<ledger, seated, facility, requests, hand, req>>

-----------------------------------------------------------------------------
(* Buy-ins at the table.                                                   *)

\* The player asks: neither check is made under a lock.
PlayerTableBuyInRequest(h, a) ==
  /\ Free(h, "buyInRequest")
  /\ seated /\ NonePending(buyIn)
  /\ Becomes(h, [Idle EXCEPT !.op = "buyInRequest", !.pc = "insertBuyIn", !.amount = a])
  /\ UNCHANGED <<ledger, seated, facility, requests, chips>>

InsertBuyIn(h) ==
  /\ At(h, "insertBuyIn")
  /\ \E i \in BuyIns :
       /\ buyIn[i].status = "unused"
       /\ buyIn' = [buyIn EXCEPT ![i] = [status |-> "pending", amount |-> req[h].amount]]
  /\ Done(h)
  /\ UNCHANGED <<ledger, seated, facility, buyOut, credit, chips>>

\* Staff take the cash, hand over the chips and book both rows.
ApproveBuyIn(i, a) ==
  /\ "approveBuyIn" \in Ops
  /\ Pending(buyIn, i)
  /\ buyIn' = [buyIn EXCEPT ![i].status = "approved"]
  /\ Post(Row("Club Buy In", "none", a), Row("Table Buy In", "none", a), Nothing)
  /\ felt' = felt + a
  /\ till' = till + a
  /\ UNCHANGED <<seated, facility, buyOut, credit, hand, req>>

RejectBuyIn(i) ==
  /\ "rejectBuyIn" \in Ops
  /\ Pending(buyIn, i)
  /\ buyIn' = [buyIn EXCEPT ![i].status = "rejected"]
  /\ UNCHANGED <<ledger, seated, facility, buyOut, credit, chips, req>>

-----------------------------------------------------------------------------
(* Leaving the table.                                                      *)

\* The player calls time: the request records the session chips of the books.
StartCallTime(h) ==
  /\ Free(h, "startCallTime")
  /\ seated /\ NonePending(buyOut)
  /\ Becomes(h, [Idle EXCEPT !.op = "startCallTime", !.pc = "insertBuyOut",
                             !.amount = NotNegative(book)])
  /\ UNCHANGED <<ledger, seated, facility, requests, chips>>

InsertBuyOut(h) ==
  /\ At(h, "insertBuyOut")
  /\ \E i \in BuyOuts :
       /\ buyOut[i].status = "unused"
       /\ buyOut' = [buyOut EXCEPT ![i] = [status |-> "pending", amount |-> req[h].amount]]
  /\ Done(h)
  /\ UNCHANGED <<ledger, seated, facility, buyIn, credit, chips>>

\* Staff count the chips in front of the player and take them.
Counting(h, op, pc, i, amount, owed) ==
  /\ Free(h, op)
  /\ Becomes(h, [Idle EXCEPT !.op = op, !.pc = pc, !.id = i, !.amount = amount,
                             !.owed = owed, !.counted = felt])
  /\ felt' = 0 /\ hand' = hand + felt
  /\ UNCHANGED <<ledger, seated, facility, requests, till>>

\* Fault: the whole limit is paid back, not what was drawn.
OwedIsLimit == IF enabled THEN limit ELSE 0

Owed == NotNegative(line)

\* With the amount staff counted, or with none given: the one the request
\* recorded is a string to the driver, and what is not a number counts as 0.
ApproveBuyOut(h, i) ==
  /\ Pending(buyOut, i) /\ ~BuyOutLocked(i)
  /\ \/ Counting(h, "approveBuyOut", "exitCommit", i, felt, Owed)
     \/ Counting(h, "approveByDefault", "exitCommit", i, 0, Owed)

RejectBuyOut(i) ==
  /\ "rejectBuyOut" \in Ops
  /\ Pending(buyOut, i) /\ ~BuyOutLocked(i)
  /\ buyOut' = [buyOut EXCEPT ![i].status = "rejected"]
  /\ UNCHANGED <<ledger, seated, facility, buyIn, credit, chips, req>>

\* Staff buy a player out, or settle the whole table: no request, no lock.
ManualBuyOut(h) == seated /\ Counting(h, "manualBuyOut", "readOwed", NoId, felt, 0)
SettleTable(h) == seated /\ Counting(h, "settleTable", "readOwed", NoId, felt, 0)

ReadOwed(h) ==
  /\ At(h, "readOwed")
  /\ Becomes(h, [req[h] EXCEPT !.pc = "exitCommit", !.owed = Owed])
  /\ UNCHANGED <<ledger, seated, facility, requests, chips>>

\* Chips to the wallet, the credit paid back from it, the seat given up.
ExitCommit(h) ==
  /\ At(h, "exitCommit")
  /\ Post(Row("Table Buy Out", "none", req[h].amount),
          Row("Debit", "none", req[h].owed), Nothing)
  /\ hand' = hand - req[h].counted
  /\ seated' = FALSE
  /\ buyOut' = [i \in BuyOuts |->
       IF i = req[h].id THEN [buyOut[i] EXCEPT !.status = "approved"] ELSE buyOut[i]]
  /\ Done(h)
  /\ UNCHANGED <<facility, buyIn, credit, felt, till>>

-----------------------------------------------------------------------------
(* Credit: the requests.                                                   *)

\* Fault: the open request is not looked for.
RequestCreditUnchecked(c, a) ==
  /\ "requestCredit" \in Ops
  /\ ~PlayerLocked
  /\ enabled
  /\ credit[c].status = "unused"
  /\ credit' = [credit EXCEPT ![c] =
       [status |-> "Pending", amount |-> a, limit |-> a, visible |-> TRUE]]
  /\ UNCHANGED <<ledger, seated, facility, buyIn, buyOut, chips, req>>

\* create, for player and staff alike: the checks hold the player's lock.
RequestCredit(c, a) ==
  /\ "requestCredit" \in Ops
  /\ ~PlayerLocked
  /\ enabled /\ NonePending(credit)
  /\ credit[c].status = "unused"
  /\ credit' = [credit EXCEPT ![c] =
       [status |-> "Pending", amount |-> a, limit |-> a, visible |-> TRUE]]
  /\ UNCHANGED <<ledger, seated, facility, buyIn, buyOut, chips, req>>

\* approve locks the request and the player, then looks for a seat unlocked.
ApproveCredit(h, c, l) ==
  /\ Free(h, "approveCredit")
  /\ Pending(credit, c) /\ ~CreditLocked(c) /\ ~PlayerLocked
  /\ enabled
  /\ Becomes(h, [Idle EXCEPT !.op = "approveCredit", !.pc = "creditCommit",
        !.id = c, !.amount = l,
        !.draw = IF seated THEN Lesser(credit[c].amount, l) ELSE 0])
  /\ UNCHANGED <<ledger, seated, facility, requests, chips>>

CreditCommit(h) ==
  /\ At(h, "creditCommit")
  /\ credit' = [c \in Credits |->
       IF c = req[h].id
       THEN [credit[c] EXCEPT !.status = "Approved", !.limit = req[h].amount,
                              !.visible = TRUE]
       ELSE credit[c]]
  /\ Post(Row("Credit", "none", req[h].draw),
          Row("Table Buy In", "pair", req[h].draw), Nothing)
  /\ felt' = felt + req[h].draw
  /\ Done(h)
  /\ UNCHANGED <<seated, facility, buyIn, buyOut, hand, till>>

\* Fault: an approved request may still be denied.
DenyApproved(c) ==
  /\ "denyCredit" \in Ops
  /\ credit[c].status \in {"Pending", "Approved"} /\ ~CreditLocked(c)
  /\ credit' = [credit EXCEPT ![c].status = "Denied", ![c].limit = 0,
                              ![c].visible = TRUE]
  /\ UNCHANGED <<ledger, seated, facility, buyIn, buyOut, chips, req>>

DenyCredit(c) ==
  /\ "denyCredit" \in Ops
  /\ Pending(credit, c) /\ ~CreditLocked(c)
  /\ credit' = [credit EXCEPT ![c].status = "Denied", ![c].limit = 0,
                              ![c].visible = TRUE]
  /\ UNCHANGED <<ledger, seated, facility, buyIn, buyOut, chips, req>>

\* updateVisibility and updateLimit load the request, change it and save it.
Editing(h, op, c, ent) ==
  /\ Free(h, op)
  /\ credit[c].status # "unused"
  /\ Becomes(h, [Idle EXCEPT !.op = op, !.pc = "saveCredit", !.id = c, !.ent = ent])
  /\ UNCHANGED <<ledger, seated, facility, requests, chips>>

UpdateVisibility(h, c, v) ==
  Editing(h, "updateVisibility", c, [credit[c] EXCEPT !.visible = v])

UpdateLimit(h, c, l) ==
  /\ credit[c].status = "Approved"
  /\ Editing(h, "updateLimit", c, [credit[c] EXCEPT !.limit = l])

\* save reads the row again ...
SaveCredit(h) ==
  /\ At(h, "saveCredit")
  /\ Becomes(h, [req[h] EXCEPT !.pc = "writeCredit", !.base = credit[req[h].id]])
  /\ UNCHANGED <<ledger, seated, facility, requests, chips>>

\* ... and writes the columns in which the loaded entity differs from it.
Changed(db, base, ent) == IF ent # base THEN ent ELSE db
Merged(db, base, ent) ==
  [status  |-> Changed(db.status, base.status, ent.status),
   amount  |-> Changed(db.amount, base.amount, ent.amount),
   limit   |-> Changed(db.limit, base.limit, ent.limit),
   visible |-> Changed(db.visible, base.visible, ent.visible)]

WriteCredit(h) ==
  /\ At(h, "writeCredit")
  /\ ~CreditLocked(req[h].id)
  /\ credit' = [credit EXCEPT ![req[h].id] = Merged(@, req[h].base, req[h].ent)]
  /\ Done(h)
  /\ UNCHANGED <<ledger, seated, facility, buyIn, buyOut, chips>>

-----------------------------------------------------------------------------
(* Credit: the facility, each change under the player's lock.              *)

EnableCredit(l) ==
  /\ "enableCredit" \in Ops
  /\ ~PlayerLocked
  /\ enabled' = TRUE /\ limit' = l
  /\ UNCHANGED <<ledger, seated, requests, chips, req>>

UpdatePlayerCreditLimit(l) ==
  /\ "updateCreditLimit" \in Ops
  /\ ~PlayerLocked
  /\ enabled
  /\ limit' = l
  /\ UNCHANGED <<ledger, seated, enabled, requests, chips, req>>

\* Not while seated, while a request is open, or while the portal shows
\* credit used.
DisableCredit ==
  /\ "disableCredit" \in Ops
  /\ ~PlayerLocked
  /\ enabled /\ ~seated /\ NonePending(credit)
  /\ CreditUsed(enabled, limit, line, portal) = 0
  /\ enabled' = FALSE /\ limit' = 0
  /\ UNCHANGED <<ledger, seated, requests, chips, req>>

\* A connection lost or a process crash between two awaits: an open
\* transaction is rolled back and counted chips go back to the player.
Abandon(h) ==
  /\ "crash" \in Ops
  /\ req[h].pc # "idle"
  /\ felt' = felt + req[h].counted
  /\ hand' = hand - req[h].counted
  /\ Done(h)
  /\ UNCHANGED <<ledger, seated, facility, requests, till>>

-----------------------------------------------------------------------------
CashierStep(h) ==
  \/ \E type \in PostTypes, a \in Amounts : CreateTransaction(h, type, a)
  \/ ReadWallet(h)
  \/ PostRepay(h)

SeatStep(h) == AssignSeat(h) \/ SeatCommit(h)

BuyInStep(h) ==
  \/ \E a \in Amounts : PlayerTableBuyInRequest(h, a)
  \/ InsertBuyIn(h)

BuyOutStep(h) ==
  \/ StartCallTime(h) \/ InsertBuyOut(h)
  \/ \E i \in BuyOuts : ApproveBuyOut(h, i)
  \/ ManualBuyOut(h) \/ SettleTable(h) \/ ReadOwed(h) \/ ExitCommit(h)

CreditStep(h) ==
  \/ \E c \in Credits : \E l \in Limits \cup {credit[c].amount} : ApproveCredit(h, c, l)
  \/ CreditCommit(h)
  \/ \E c \in Credits, v \in BOOLEAN : UpdateVisibility(h, c, v)
  \/ \E c \in Credits, l \in Limits : UpdateLimit(h, c, l)
  \/ SaveCredit(h) \/ WriteCredit(h)

\* Steps that need no slot: one statement, or a transaction of one step.
DirectStep ==
  \/ UnseatPlayer \/ Play
  \/ \E i \in BuyIns : RejectBuyIn(i) \/ (\E a \in Amounts : ApproveBuyIn(i, a))
  \/ \E i \in BuyOuts : RejectBuyOut(i)
  \/ \E c \in Credits : DenyCredit(c) \/ (\E a \in Amounts : RequestCredit(c, a))
  \/ \E l \in Limits : EnableCredit(l) \/ UpdatePlayerCreditLimit(l)
  \/ DisableCredit

Next ==
  \/ DirectStep
  \/ \E h \in Handlers : CashierStep(h) \/ SeatStep(h) \/ BuyInStep(h)
                          \/ BuyOutStep(h) \/ CreditStep(h) \/ Abandon(h)

Spec == Init /\ [][Next]_vars
-----------------------------------------------------------------------------
(* Properties.                                                             *)

\* The wallet the portal shows, the chips on the table and in staff hands,
\* less the credit still owed, is what the player brought in and won: no
\* interleaving of seating, buy-ins, credit, buy-outs and the cashier makes
\* or loses money, as long as buy-outs pay what staff counted.
BooksBalance == portal + felt + hand - line = till

\* However staff and the player overlap, the player has at most one open credit
\* request, and none while credit is locked: create checks for both, and
\* disable-credit for an open request, under the player's lock.
OpenRequestHeld ==
  /\ \A c, d \in Credits : Pending(credit, c) /\ Pending(credit, d) => c = d
  /\ ~enabled => NonePending(credit)

\* approve and deny refuse a decided request: a decision is never changed.
CreditDecisionFinal ==
  [][\A c \in Credits :
       credit[c].status \in {"Approved", "Denied"} =>
         credit'[c].status = credit[c].status]_vars

\* The credit assignSeat draws by itself never takes the player past the
\* limit, whatever was posted since it read the ledger.
JoinWithinFacility ==
  [][~seated /\ seated' /\ line' > line => line' <= limit]_vars

\* Leaving pays back what is owed and no more ("Debit the FULL credit amount
\* owed", approveBuyOutRequest), so the player is never owed credit.
LineNotNegative == line >= 0
=============================================================================
