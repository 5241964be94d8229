------------------------------- MODULE Ledger -------------------------------
(***************************************************************************)
(* What a row of financial_transactions is worth: the three SQL sums of    *)
(* financial-transaction.entity.ts, the loop of the player portal, and the *)
(* credit facility arithmetic of credit-used.util.ts.  Amounts are whole   *)
(* rupees; a note matters only through the two markers the sums look for,  *)
(* so a row carries a tag instead.                                         *)
(***************************************************************************)
EXTENDS Integers

NotNegative(n) == IF n > 0 THEN n ELSE 0
Lesser(m, n) == IF m < n THEN m ELSE n

Deposits == {"Deposit", "Club Buy In", "Table Buy Out", "Bonus", "Refund",
             "Tournament Win"}
Outgoings == {"Withdrawal", "Club Buy Out", "Table Buy In", "Cashout", "Debit",
              "Buy In", "Register"}
TransactionType == Deposits \cup Outgoings \cup {"Credit", "Rake", "Tip"}

\* Types that FinancialTransactionsService.create posts as Completed at once;
\* the others stay Pending, and a Pending row counts nowhere.
AutoComplete == {"Deposit", "Buy In", "Withdrawal", "Cashout", "Club Buy In",
                 "Club Buy Out", "Table Buy In", "Table Buy Out", "Debit",
                 "Bonus", "Refund"}

\* "pair": notes contain WBPAIRCL2T; "repay": 'credit line repayment'.
Tag == {"none", "pair", "repay"}
Row(type, tag, amount) == [type |-> type, tag |-> tag, amount |-> amount]

\* Stands for a row that a handler leaves out.
Nothing == Row("none", "none", 0)

IsTableBuyIn(r) == r.type \in {"Table Buy In", "Buy In"}
\* Fault: the marker in the notes is not recognised.
NeverPair(r) == FALSE

IsPair(r) == IsTableBuyIn(r) /\ r.tag = "pair"

\* WALLET_BALANCE_SQL.
WalletEffect(r) ==
  CASE r.type \in Deposits                    -> r.amount
    [] IsPair(r)                              -> 0
    [] r.type = "Debit" /\ r.tag = "repay"    -> 0
    [] r.type \in Outgoings /\ ~IsPair(r) /\ ~(r.type = "Debit" /\ r.tag = "repay")
                                              -> -r.amount
    [] OTHER                                  -> 0

\* getPlayerBalance: the portal adds up the same rows in a loop of its own,
\* which knows the pair marker but not the repayment one.
PortalEffect(r) ==
  CASE r.type \in Deposits                  -> r.amount
    [] IsPair(r)                            -> 0
    [] r.type \in Outgoings /\ ~IsPair(r)    -> -r.amount
    [] OTHER                                -> 0

\* CREDIT_BALANCE_SQL: the credit drawn less the credit paid back.
CreditEffect(r) ==
  CASE r.type = "Credit" -> r.amount
    [] r.type = "Debit"  -> -r.amount
    [] OTHER             -> 0

\* SESSION_TABLE_CHIPS_SUM_CASE_INNER: the chips a row brings to the table.
ChipEffect(r) ==
  CASE r.type = "Credit"                 -> r.amount
    [] IsTableBuyIn(r) /\ ~IsPair(r)     -> r.amount
    [] r.type = "Table Buy Out"          -> -r.amount
    [] OTHER                             -> 0

-----------------------------------------------------------------------------
(* computeCreditFacilityBreakdown: how the limit is spoken for, given the  *)
(* credit sum `line` and the wallet.                                       *)

HasFacility(enabled, limit) == enabled /\ limit > 0

CreditOnLine(enabled, limit, line) ==
  IF HasFacility(enabled, limit) THEN Lesser(NotNegative(line), limit) ELSE 0

CreditUsed(enabled, limit, line, wallet) ==
  IF HasFacility(enabled, limit) /\ line <= 0
  THEN Lesser(limit, NotNegative(-wallet))
  ELSE 0

CreditRemaining(enabled, limit, line, wallet) ==
  IF HasFacility(enabled, limit)
  THEN NotNegative(limit - Lesser(limit, CreditOnLine(enabled, limit, line)
                                         + CreditUsed(enabled, limit, line, wallet)))
  ELSE 0

\* playerMeetsTableMinBuyIn.
MeetsMinBuyIn(wallet, credit, min) ==
  \/ min <= 0
  \/ IF wallet < 0 THEN NotNegative(credit) >= min
                   ELSE wallet + NotNegative(credit) >= min
=============================================================================
