-------------------------------- MODULE Books --------------------------------
(***************************************************************************)
(* What staff do to ledger rows after they were posted, and the loyalty    *)
(* store that pays in points for what the rows say was played:             *)
(* financial-transactions.service, financial-overrides.service,            *)
(* vip-products.service and player-vip.service.                            *)
(*                                                                         *)
(* Every staff handler loads a row, checks what it loaded and saves: save  *)
(* loads the row again and writes the columns that differ from what it     *)
(* found, two steps.  A purchase reads product and points, then runs a     *)
(* transaction that checks neither again.                                  *)
(* One player; amounts count in the points they earn (Rs 100 are worth     *)
(* 0.6 of a point), time at the tables in the points it earns.             *)
(***************************************************************************)
EXTENDS Ledger, FiniteSets, FiniteSetsExt

CONSTANTS
  Txs,         \* ids of ledger rows
  Products,    \* ids of products
  Handlers,
  Types,       \* transaction types posted
  Amounts,     \* amounts posted and edited in
  Prices,      \* points a product may cost
  Stocks,      \* stock figures staff may enter
  MaxPlayed,   \* bound: points earned by playing time
  MaxSold      \* bound: units sold of one product

VARIABLES
  tx,        \* tx[r]: the row r of financial_transactions
  product,   \* product[v]: the row v of vip_products
  sold,      \* sold[v]: how many rows vip_purchases has for v
  spent,     \* spent[v]: the sum of their points_spent
  played,    \* points earned by playing time
  booked,    \* booked[r]: the amount the row was posted with, if as Completed
  req        \* req[h]: the request in slot h, its row, and the row its save has found

shop == <<product, sold, spent>>
ledgerVars == <<tx, booked>>
vars == <<ledgerVars, shop, played, req>>

Status == {"Pending", "Completed", "Cancelled", "Failed"}
Transaction == [status : Status \cup {"unused"}, type : TransactionType,
                amount : Nat, original : Nat, overridden : BOOLEAN]
NoTx == [status |-> "unused", type |-> "Deposit", amount |-> 0, original |-> 0,
         overridden |-> FALSE]

\* deleted: the row is gone.
Product == [there : BOOLEAN, title : Nat, points : Nat, stock : Int, active : BOOLEAN]
NoProduct == [there |-> FALSE, title |-> 0, points |-> 0, stock |-> 0, active |-> FALSE]

Request == [pc : {"idle", "saveTx", "writeTx", "insertProduct", "saveProduct", "points",
                  "purchase"},
            tx : Txs \cup {"none"}, row : Transaction, base : Transaction,
            product : Products \cup {"none"}, item : Product]
Idle == [pc |-> "idle", tx |-> "none", row |-> NoTx, base |-> NoTx, product |-> "none",
         item |-> NoProduct]

TypeOK ==
  /\ tx \in [Txs -> Transaction] /\ booked \in [Txs -> Nat]
  /\ product \in [Products -> Product] /\ sold \in [Products -> Nat]
  /\ \A v \in Products : product[v].stock >= 0
  /\ spent \in [Products -> Nat] /\ played \in Nat
  /\ req \in [Handlers -> Request]

Init ==
  /\ tx = [r \in Txs |-> NoTx] /\ booked = [r \in Txs |-> 0]
  /\ product = [v \in Products |-> NoProduct] /\ sold = [v \in Products |-> 0]
  /\ spent = [v \in Products |-> 0]
  /\ played = 0
  /\ req = [h \in Handlers |-> Idle]

-----------------------------------------------------------------------------
(* Requests and rows.                                                      *)

At(h, pc) == req[h].pc = pc
Becomes(h, r) == req' = [req EXCEPT ![h] = r]
Done(h) == Becomes(h, Idle)

\* The handler has loaded row r and goes on to save it as `row`.
WillSave(h, r, row) ==
  /\ At(h, "idle")
  /\ Becomes(h, [Idle EXCEPT !.pc = "saveTx", !.tx = r, !.row = row])
  /\ UNCHANGED <<ledgerVars, shop, played>>

\* Faults: every override keeps the amount it replaces; the change is kept.
KeepLast(row, amount) == row.amount
KeepChange(row, amount) == amount - row.amount
\* The first override keeps the amount it replaces.
OriginalAmount(row, amount) == IF row.overridden THEN row.original ELSE row.amount

Overridden(row, amount) ==
  [row EXCEPT !.original = OriginalAmount(row, amount), !.overridden = TRUE, !.amount = amount]

-----------------------------------------------------------------------------
(* financial-transactions.service and financial-overrides.service.         *)

\* Rows of the types the cashier completes at once start as Completed.
CreateTransaction(h, r, type, amount) ==
  /\ At(h, "idle") /\ tx[r].status = "unused"
  /\ LET status == IF type \in AutoComplete THEN "Completed" ELSE "Pending" IN
       /\ tx' = [tx EXCEPT ![r] = [NoTx EXCEPT !.status = status, !.type = type,
                                                !.amount = amount]]
       /\ booked' = [booked EXCEPT ![r] = IF status = "Completed" THEN amount ELSE 0]
  /\ UNCHANGED <<shop, played, req>>

\* Fault: the state of the row is not looked at.
EditableAlways(row, amount, status) == row.status # "unused"
\* update: a cancelled row is closed, of a completed one only the notes may change.
Editable(row, amount, status) ==
  \/ row.status \in {"Pending", "Failed"}
  \/ row.status = "Completed" /\ amount = row.amount /\ status = "Completed"

UpdateTransaction(h, r, amount, status) ==
  /\ Editable(tx[r], amount, status)
  /\ WillSave(h, r, [tx[r] EXCEPT !.amount = amount, !.status = status])

CancelPending(h, r) ==
  /\ tx[r].status \in {"Pending", "Failed"}
  /\ WillSave(h, r, [tx[r] EXCEPT !.status = "Cancelled"])

EditTransaction(h, r, amount) ==
  /\ tx[r].status \in {"Pending", "Completed", "Failed"}
  /\ WillSave(h, r, Overridden(tx[r], amount))

CancelTransaction(h, r) ==
  /\ tx[r].status \in {"Pending", "Completed", "Failed"}
  /\ LET row == IF tx[r].status = "Completed" THEN Overridden(tx[r], tx[r].amount)
                ELSE tx[r]
     IN WillSave(h, r, [row EXCEPT !.status = "Cancelled"])

\* editAnyTransaction looks at no status: a cancelled row is edited too.
EditAnyTransaction(h, r, amount) ==
  /\ tx[r].status # "unused"
  /\ WillSave(h, r, Overridden(tx[r], amount))

\* A column is written if it differs from what the save found.
Column(mine, found, now) == IF mine = found THEN now ELSE mine
TxSaved(mine, found, now) ==
  [status |-> Column(mine.status, found.status, now.status),
   type |-> Column(mine.type, found.type, now.type),
   amount |-> Column(mine.amount, found.amount, now.amount),
   original |-> Column(mine.original, found.original, now.original),
   overridden |-> Column(mine.overridden, found.overridden, now.overridden)]

ReloadTx(h) ==
  /\ At(h, "saveTx")
  /\ Becomes(h, [req[h] EXCEPT !.pc = "writeTx", !.base = tx[req[h].tx]])
  /\ UNCHANGED <<ledgerVars, shop, played>>

SaveTx(h) ==
  /\ At(h, "writeTx")
  /\ tx' = [tx EXCEPT ![req[h].tx] = TxSaved(req[h].row, req[h].base, @)]
  /\ Done(h)
  /\ UNCHANGED <<booked, shop, played>>

-----------------------------------------------------------------------------
(* vip-products.service: the shelf.                                        *)

TitleTaken(v, title) ==
  \E w \in Products \ {v} : product[w].there /\ product[w].title = title

CreateProduct(h, v, title, points, stock) ==
  /\ At(h, "idle") /\ ~product[v].there /\ ~TitleTaken(v, title)
  /\ Becomes(h, [Idle EXCEPT !.pc = "insertProduct", !.product = v,
       !.item = [there |-> TRUE, title |-> title, points |-> points, stock |-> stock,
                 active |-> TRUE]])
  /\ UNCHANGED <<ledgerVars, shop, played>>

InsertProduct(h) ==
  /\ At(h, "insertProduct")
  /\ product' = [product EXCEPT ![req[h].product] = req[h].item]
  /\ Done(h)
  /\ UNCHANGED <<ledgerVars, sold, spent, played>>

\* Price, stock and whether it is on offer; the title only if it stays unique.
UpdateProduct(h, v, title, points, stock, active) ==
  /\ At(h, "idle") /\ product[v].there /\ ~TitleTaken(v, title)
  /\ Becomes(h, [Idle EXCEPT !.pc = "saveProduct", !.product = v,
       !.item = [there |-> TRUE, title |-> title, points |-> points, stock |-> stock,
                 active |-> active]])
  /\ UNCHANGED <<ledgerVars, shop, played>>

\* The stock of the form replaces what purchases made in between have left.
SaveProduct(h) ==
  /\ At(h, "saveProduct")
  /\ product' = [product EXCEPT ![req[h].product] = req[h].item]
  /\ Done(h)
  /\ UNCHANGED <<ledgerVars, sold, spent, played>>

\* vip_purchases references the product with ON DELETE CASCADE: its purchases
\* go with it, and the points spent on them count again.
RemoveProduct(h, v) ==
  /\ At(h, "idle") /\ product[v].there
  /\ product' = [product EXCEPT ![v] = NoProduct]
  /\ sold' = [sold EXCEPT ![v] = 0] /\ spent' = [spent EXCEPT ![v] = 0]
  /\ UNCHANGED <<ledgerVars, played, req>>

-----------------------------------------------------------------------------
(* player-vip.service: points and purchases.                               *)

Play ==
  /\ played < MaxPlayed
  /\ played' = played + 1
  /\ UNCHANGED <<ledgerVars, shop, req>>

EarningTypes == {"Buy In", "Table Buy In", "Club Buy In", "Register"}

\* calculateTotalMoneySpent: completed rows of the types that count.
MoneySpent ==
  MapThenSumSet(LAMBDA r : tx[r].amount,
    {r \in Txs : tx[r].status = "Completed" /\ tx[r].type \in EarningTypes})

EarnedPoints == played + MoneySpent
PointsSpent == MapThenSumSet(LAMBDA v : spent[v], Products)
AvailablePoints == NotNegative(EarnedPoints - PointsSpent)

OnShelf(item) == item.active /\ item.stock > 0
\* Fault: points once spent count again.
AffordableAgain(item) == EarnedPoints >= item.points
Affordable(item) == AvailablePoints >= item.points

PurchaseProduct(h, v) ==
  /\ At(h, "idle") /\ product[v].there /\ OnShelf(product[v])
  /\ Becomes(h, [Idle EXCEPT !.pc = "points", !.product = v, !.item = product[v]])
  /\ UNCHANGED <<ledgerVars, shop, played>>

CheckPoints(h) ==
  /\ At(h, "points")
  /\ IF Affordable(req[h].item) THEN Becomes(h, [req[h] EXCEPT !.pc = "purchase"])
     ELSE Done(h)
  /\ UNCHANGED <<ledgerVars, shop, played>>

\* The purchase at the price read before, one unit off the shelf; the insert
\* fails when the product is gone.
PurchaseTx(h) ==
  /\ At(h, "purchase")
  /\ LET v == req[h].product IN
       IF product[v].there
       THEN /\ sold[v] < MaxSold
            /\ sold' = [sold EXCEPT ![v] = @ + 1]
            /\ spent' = [spent EXCEPT ![v] = @ + req[h].item.points]
            /\ product' = [product EXCEPT ![v].stock = NotNegative(@ - 1)]
       ELSE UNCHANGED <<sold, spent, product>>
  /\ Done(h)
  /\ UNCHANGED <<ledgerVars, played>>

\* The audit row is inserted in the same transaction, and an error there is
\* caught; PostgreSQL has aborted the transaction, so its commit rolls back.
PurchaseLost(h) ==
  /\ At(h, "purchase")
  /\ Done(h)
  /\ UNCHANGED <<ledgerVars, shop, played>>

-----------------------------------------------------------------------------
LedgerStep(h) ==
  \E r \in Txs :
    \/ \E a \in Amounts :
         \/ \E type \in Types : CreateTransaction(h, r, type, a)
         \/ \E s \in Status : UpdateTransaction(h, r, a, s)
         \/ EditTransaction(h, r, a)
         \/ EditAnyTransaction(h, r, a)
    \/ CancelPending(h, r)
    \/ CancelTransaction(h, r)

ShopStep(h) ==
  \E v \in Products :
    \/ \E title \in {1, 2}, p \in Prices, n \in Stocks :
         \/ CreateProduct(h, v, title, p, n)
         \/ \E active \in BOOLEAN : UpdateProduct(h, v, title, p, n, active)
    \/ RemoveProduct(h, v)
    \/ PurchaseProduct(h, v)

WriteStep(h) ==
  \/ ReloadTx(h) \/ SaveTx(h) \/ InsertProduct(h) \/ SaveProduct(h)
  \/ CheckPoints(h) \/ PurchaseTx(h) \/ PurchaseLost(h)

Next ==
  \/ \E h \in Handlers : LedgerStep(h) \/ ShopStep(h) \/ WriteStep(h)
  \/ Play

Spec == Init /\ [][Next]_vars

-----------------------------------------------------------------------------
(* Properties.                                                             *)

\* An override never hides what was first booked: however often a row posted
\* as completed is edited and cancelled, one request after the other,
\* original_amount is the amount it was posted with, and a row that was not
\* overridden still has that amount.
FirstAmountKept ==
  \A r \in Txs : booked[r] > 0 =>
    booked[r] = IF tx[r].overridden THEN tx[r].original ELSE tx[r].amount

\* A cancelled row stays cancelled: no edit brings its money back.
CancelledStays ==
  [][\A r \in Txs : tx[r].status = "Cancelled" => tx'[r].status = "Cancelled"]_vars

\* Points are spent once: a purchase is covered by what the player has earned
\* and not spent, at the moment it is recorded.
PurchaseCovered == [][PointsSpent' > PointsSpent => PointsSpent' <= EarnedPoints]_vars
=============================================================================
