------------------------ MODULE PlayerAccount_proofs ------------------------
(***************************************************************************)
(* Theorems about PlayerAccount, for every value of its constants.         *)
(*                                                                         *)
(*   TypeCorrect         every variable keeps its type (TypeOK)            *)
(*   MoneyIsConserved    BooksBalance, when buy-outs pay what was counted  *)
(*   JoiningIsCovered    JoinWithinFacility, with no further assumption    *)
(*   BreakdownAddsUp     the parts of a credit facility sum to its limit   *)
(*   OneOpenRequest, DecisionsAreFinal    OpenRequestHeld and              *)
(*                       CreditDecisionFinal, where nobody changes whether *)
(*                       a request is shown; ...InModes: as they are run   *)
(*   ExitsPayNoMoreThanOwed               LineInTurn                       *)
(*                                                                         *)
(* The order: what the ledger's rows are worth, types (TypeInv adds which  *)
(* id a waiting request carries), then one lemma per group of actions for  *)
(* each of the four safety arguments.                                      *)
(***************************************************************************)
EXTENDS MCPlayerAccount, TLAPS

(* What rows are worth.                                                    *)

LEMMA ClampedIsNat ==
  /\ \A n \in Int : NotNegative(n) \in Nat
  /\ \A m, n \in Nat : Lesser(m, n) \in Nat
BY SMT DEF NotNegative, Lesser

\* The rows the code posts, by type and tag.
LEMMA RowWorth ==
  ASSUME NEW a \in Int
  PROVE  /\ WalletEffect(Row("Table Buy In", "none", a)) = -a
         /\ PortalEffect(Row("Table Buy In", "none", a)) = -a
         /\ CreditEffect(Row("Table Buy In", "none", a)) = 0
         /\ ChipEffect(Row("Table Buy In", "none", a)) = a
         /\ WalletEffect(Row("Table Buy In", "pair", a)) = 0
         /\ PortalEffect(Row("Table Buy In", "pair", a)) = 0
         /\ CreditEffect(Row("Table Buy In", "pair", a)) = 0
         /\ ChipEffect(Row("Table Buy In", "pair", a)) = 0
         /\ WalletEffect(Row("Credit", "none", a)) = 0
         /\ PortalEffect(Row("Credit", "none", a)) = 0
         /\ CreditEffect(Row("Credit", "none", a)) = a
         /\ ChipEffect(Row("Credit", "none", a)) = a
BY SMT DEF WalletEffect, PortalEffect, CreditEffect, ChipEffect, Row, IsPair,
   IsTableBuyIn, Deposits, Outgoings

LEMMA RowWorthOut ==
  ASSUME NEW a \in Int
  PROVE  /\ WalletEffect(Row("Table Buy Out", "none", a)) = a
         /\ PortalEffect(Row("Table Buy Out", "none", a)) = a
         /\ CreditEffect(Row("Table Buy Out", "none", a)) = 0
         /\ ChipEffect(Row("Table Buy Out", "none", a)) = -a
         /\ WalletEffect(Row("Debit", "none", a)) = -a
         /\ PortalEffect(Row("Debit", "none", a)) = -a
         /\ CreditEffect(Row("Debit", "none", a)) = -a
         /\ ChipEffect(Row("Debit", "none", a)) = 0
         /\ WalletEffect(Row("Debit", "repay", a)) = 0
         /\ PortalEffect(Row("Debit", "repay", a)) = -a
         /\ CreditEffect(Row("Debit", "repay", a)) = -a
         /\ ChipEffect(Row("Debit", "repay", a)) = 0
BY SMT DEF WalletEffect, PortalEffect, CreditEffect, ChipEffect, Row, IsPair,
   IsTableBuyIn, Deposits, Outgoings

LEMMA NothingIsNothing ==
  /\ WalletEffect(Nothing) = 0 /\ PortalEffect(Nothing) = 0
  /\ CreditEffect(Nothing) = 0 /\ ChipEffect(Nothing) = 0
BY SMT DEF WalletEffect, PortalEffect, CreditEffect, ChipEffect, Row, IsPair,
   IsTableBuyIn, Deposits, Outgoings, Nothing

\* Over the counter the portal and the SQL sum agree and no credit moves.
LEMMA CounterRowWorth ==
  ASSUME NEW type \in CounterTypes, NEW a \in Int
  PROVE  /\ WalletEffect(Row(type, "none", a)) \in Int
         /\ PortalEffect(Row(type, "none", a)) = WalletEffect(Row(type, "none", a))
         /\ CreditEffect(Row(type, "none", a)) = 0
         /\ ChipEffect(Row(type, "none", a)) = 0
<1> DEFINE r == Row(type, "none", a)
<1>1. r.type = type /\ r.tag = "none" /\ r.amount = a
  BY DEF Row
<1>2. type \in {"Deposit", "Club Buy In", "Bonus", "Refund", "Withdrawal", "Cashout",
               "Club Buy Out"}
  BY DEF CounterTypes, AutoComplete
<1>3. ~IsPair(r) /\ ~IsTableBuyIn(r)
  BY <1>1, <1>2 DEF IsPair, IsTableBuyIn
<1> HIDE DEF r
<1>4. CreditEffect(r) = 0 /\ ChipEffect(r) = 0
  BY <1>1, <1>2, <1>3 DEF CreditEffect, ChipEffect
<1>5. (type \in Deposits /\ type \notin Outgoings) \/ (type \in Outgoings /\ type \notin Deposits)
  BY <1>2 DEF Deposits, Outgoings
<1>6. type # "Debit"
  BY <1>2
<1>7. PortalEffect(r) = (IF type \in Deposits THEN a ELSE -a)
  BY <1>1, <1>3, <1>5 DEF PortalEffect
<1>8. WalletEffect(r) = (IF type \in Deposits THEN a ELSE -a)
  BY <1>1, <1>3, <1>5, <1>6 DEF WalletEffect
<1> QED
  BY <1>4, <1>7, <1>8 DEF r

\* The breakdown of a credit facility shown to staff and player: what is on
\* line, what is used and what remains add up to the limit ("used (red) + on
\* line + remaining = total limit", credit-used.util.ts), whatever the ledger.
THEOREM BreakdownAddsUp ==
  ASSUME NEW credited \in Int, NEW wallet \in Int, NEW top \in Nat \ {0}
  PROVE  CreditOnLine(TRUE, top, credited) + CreditUsed(TRUE, top, credited, wallet)
           + CreditRemaining(TRUE, top, credited, wallet) = top
BY SMT DEF CreditOnLine, CreditUsed, CreditRemaining, HasFacility, NotNegative, Lesser

LEMMA CreditOnLineBound ==
  ASSUME NEW on \in BOOLEAN, NEW top \in Nat, NEW credited \in Int
  PROVE  /\ CreditOnLine(on, top, credited) \in Nat
         /\ ~on => CreditOnLine(on, top, credited) = 0
BY SMT DEF CreditOnLine, HasFacility, NotNegative, Lesser

-----------------------------------------------------------------------------
(* Types.                                                                  *)

\* A request about to save a credit request names it.
Ready == \A h \in Handlers :
  req[h].pc \in {"saveCredit", "writeCredit"} => req[h].id \in Credits

TypeInv == TypeOK /\ Ready

Worth(r) ==
  /\ WalletEffect(r) \in Int /\ PortalEffect(r) \in Int
  /\ CreditEffect(r) \in Int /\ ChipEffect(r) \in Int

LEMMA ZeroIsInt == 0 \in Int
OBVIOUS

LEMMA RowsHaveWorth ==
  ASSUME NEW a \in Int
  PROVE  /\ Worth(Row("Table Buy In", "none", a)) /\ Worth(Row("Table Buy In", "pair", a))
         /\ Worth(Row("Credit", "none", a)) /\ Worth(Row("Table Buy Out", "none", a))
         /\ Worth(Row("Debit", "none", a)) /\ Worth(Row("Debit", "repay", a))
         /\ Worth(Nothing)
         /\ \A type \in CounterTypes : Worth(Row(type, "none", a))
<1>1. -a \in Int
  OBVIOUS
<1>2. Worth(Row("Table Buy In", "none", a))
  BY <1>1, RowWorth, ZeroIsInt, Zenon DEF Worth
<1>3. Worth(Row("Table Buy In", "pair", a))
  BY RowWorth, ZeroIsInt, Zenon DEF Worth
<1>6. Worth(Row("Credit", "none", a))
  BY RowWorth, ZeroIsInt, Zenon DEF Worth
<1>7. Worth(Row("Table Buy Out", "none", a))
  BY <1>1, RowWorthOut, ZeroIsInt, Zenon DEF Worth
<1>8. Worth(Row("Debit", "none", a)) /\ Worth(Row("Debit", "repay", a))
  BY <1>1, RowWorthOut, ZeroIsInt, Zenon DEF Worth
<1>4. Worth(Nothing)
  BY NothingIsNothing DEF Worth
<1>5. ASSUME NEW type \in CounterTypes PROVE Worth(Row(type, "none", a))
  <2>1. /\ WalletEffect(Row(type, "none", a)) \in Int
        /\ PortalEffect(Row(type, "none", a)) = WalletEffect(Row(type, "none", a))
        /\ CreditEffect(Row(type, "none", a)) = 0
        /\ ChipEffect(Row(type, "none", a)) = 0
    BY CounterRowWorth
  <2> QED
    BY <2>1 DEF Worth
<1> QED
  BY <1>2, <1>3, <1>4, <1>5, <1>6, <1>7, <1>8

LEMMA PostType ==
  ASSUME TypeInv, NEW r, NEW s, NEW t, Worth(r), Worth(s), Worth(t), Post(r, s, t)
  PROVE  cash' \in Int /\ portal' \in Int /\ line' \in Int /\ book' \in Int
BY SMT DEF TypeInv, TypeOK, Worth, Post

LEMMA IdleType == Idle \in Request /\ Idle.pc = "idle"
BY DEF Idle, Request, PC, NoCredit, CreditRequest

LEMMA RequestFacts ==
  ASSUME TypeInv, NEW h \in Handlers
  PROVE  /\ req[h] \in Request
         /\ req[h].amount \in Nat /\ req[h].draw \in Nat /\ req[h].owed \in Nat
         /\ req[h].counted \in Nat
         /\ req[h].ent \in CreditRequest /\ req[h].base \in CreditRequest
BY DEF TypeInv, TypeOK, Request

LEMMA BeginType ==
  ASSUME TypeInv, NEW h \in Handlers, NEW r \in Request, Becomes(h, r),
         r.pc \in {"saveCredit", "writeCredit"} => r.id \in Credits
  PROVE  req' \in [Handlers -> Request] /\ Ready'
BY DEF TypeInv, TypeOK, Becomes, Ready

LEMMA DoneType ==
  ASSUME TypeInv, NEW h \in Handlers, Done(h)
  PROVE  req' \in [Handlers -> Request] /\ Ready'
BY BeginType, IdleType DEF Done

\* A request that only starts or moves on: the rest of the state is as it was.
LEMMA MoveType ==
  ASSUME TypeInv, NEW h \in Handlers, NEW r \in Request, Becomes(h, r),
         r.pc \in {"saveCredit", "writeCredit"} => r.id \in Credits,
         UNCHANGED <<ledger, seated, facility, requests, chips>>
  PROVE  TypeInv'
BY BeginType DEF TypeInv, TypeOK, ledger, facility, requests, chips

LEMMA DrawType ==
  ASSUME TypeInv, NEW toTable \in Nat
  PROVE  DrawOnJoin(toTable) \in Nat
<1> DEFINE owing == IF enabled THEN line ELSE 0
           onLine == CreditOnLine(enabled, limit, owing)
           headroom == NotNegative(limit - NotNegative(owing))
           room == IF MaxBuyIn = 0 THEN onLine ELSE NotNegative(MaxBuyIn - toTable)
<1>1. owing \in Int
  BY DEF TypeInv, TypeOK
<1>2. onLine \in Nat
  BY <1>1, CreditOnLineBound DEF TypeInv, TypeOK
<1>3. headroom \in Nat
  <2>1. limit \in Nat /\ NotNegative(owing) \in Nat
    BY <1>1, ClampedIsNat DEF TypeInv, TypeOK
  <2>2. limit - NotNegative(owing) \in Int
    BY <2>1
  <2> QED
    BY <2>2, ClampedIsNat
<1>4. room \in Nat
  <2>1. MaxBuyIn - toTable \in Int
    BY AccountAssumption DEF AccountAssumption
  <2> QED
    BY <1>2, <2>1, ClampedIsNat
<1>5. DrawOnJoin(toTable) = Lesser(room, Lesser(onLine, headroom))
  BY DEF DrawOnJoin
<1> HIDE DEF room, onLine, headroom
<1> QED
  BY <1>2, <1>3, <1>4, <1>5, ClampedIsNat

LEMMA TypeInit == Init => TypeInv
<1> SUFFICES ASSUME Init PROVE TypeInv
  OBVIOUS
<1>1. buyIn \in [BuyIns -> BuyRequest] /\ buyOut \in [BuyOuts -> BuyRequest]
  BY DEF Init, NoBuyRequest, BuyRequest
<1>2. credit \in [Credits -> CreditRequest]
  BY DEF Init, NoCredit, CreditRequest
<1>3. req \in [Handlers -> Request] /\ Ready
  BY IdleType DEF Init, Ready
<1>4. /\ cash = 0 /\ portal = 0 /\ line = 0 /\ book = 0 /\ limit = 0
      /\ felt = 0 /\ hand = 0 /\ till = 0 /\ seated = FALSE /\ enabled = FALSE
  BY DEF Init
<1>5. /\ cash \in Int /\ portal \in Int /\ line \in Int /\ book \in Int
      /\ limit \in Nat /\ felt \in Nat /\ hand \in Int /\ till \in Int
  <2>1. 0 \in Nat /\ 0 \in Int
    OBVIOUS
  <2> QED
    BY <1>4, <2>1, Zenon
<1>6. seated \in BOOLEAN /\ enabled \in BOOLEAN
  BY <1>4, Zenon
<1> QED
  BY <1>1, <1>2, <1>3, <1>5, <1>6 DEF TypeInv, TypeOK

LEMMA CashierStepType ==
  ASSUME TypeInv, NEW h \in Handlers, CashierStep(h)
  PROVE  TypeInv'
<1>1. ASSUME NEW type \in PostTypes, NEW a \in Amounts, CreateTransaction(h, type, a)
      PROVE  TypeInv'
  <2>1. a \in Nat /\ a \in Int /\ type \in CounterTypes
    BY AccountAssumption DEF AccountAssumption
  <2>2. Worth(Row(type, "none", a)) /\ Worth(Nothing)
    BY <2>1, RowsHaveWorth
  <2>3. cash' \in Int /\ portal' \in Int /\ line' \in Int /\ book' \in Int
    <3>1. Post(Row(type, "none", a), Nothing, Nothing)
      BY <1>1 DEF CreateTransaction
    <3> QED
      BY <3>1, <2>2, PostType
  <2>7. till' \in Int
    <3>1. till' = till + WalletEffect(Row(type, "none", a))
      BY <1>1 DEF CreateTransaction
    <3>2. WalletEffect(Row(type, "none", a)) \in Int /\ till \in Int
      BY <2>2 DEF Worth, TypeInv, TypeOK
    <3> QED
      BY <3>1, <3>2
  <2> DEFINE r == [Idle EXCEPT !.op = "createTransaction", !.pc = "readWallet", !.amount = a]
  <2>4. r \in Request /\ r.pc = "readWallet"
    BY <1>1, <2>1 DEF CreateTransaction, Free, Idle, Request, PC, NoCredit, CreditRequest
  <2>5. Becomes(h, r) \/ req' = req
    BY <1>1 DEF CreateTransaction
  <2> HIDE DEF r
  <2>6. req' \in [Handlers -> Request] /\ Ready'
    BY <2>4, <2>5, BeginType DEF TypeInv, TypeOK, Ready
  <2> QED
    BY <1>1, <2>3, <2>6, <2>7 DEF CreateTransaction, TypeInv, TypeOK, facility, requests
<1>2. CASE ReadWallet(h)
  <2> DEFINE repay == Lesser(req[h].amount, NotNegative(-(cash - req[h].amount)))
             r == [req[h] EXCEPT !.pc = "postRepay", !.owed = repay]
  <2>1. repay \in Nat
    <3>1. cash \in Int /\ req[h].amount \in Nat
      BY RequestFacts DEF TypeInv, TypeOK
    <3>2. -(cash - req[h].amount) \in Int
      BY <3>1
    <3> QED
      BY <3>1, <3>2, ClampedIsNat
  <2> HIDE DEF repay
  <2>2. r \in Request /\ r.pc = "postRepay"
    BY <2>1, RequestFacts DEF Request, PC
  <2>3. Becomes(h, r) \/ Becomes(h, Idle)
    BY <1>2 DEF ReadWallet, Done, repay
  <2> HIDE DEF r
  <2> QED
    BY <1>2, <2>2, <2>3, MoveType, IdleType DEF ReadWallet
<1>3. CASE PostRepay(h)
  <2>1. req[h].owed \in Int
    BY RequestFacts
  <2>2. cash' \in Int /\ portal' \in Int /\ line' \in Int /\ book' \in Int
    BY <1>3, <2>1, RowsHaveWorth, PostType DEF PostRepay
  <2> QED
    BY <1>3, <2>2, DoneType DEF PostRepay, TypeInv, TypeOK, facility, requests, chips
<1> QED
  BY <1>1, <1>2, <1>3 DEF CashierStep

LEMMA SeatStepType ==
  ASSUME TypeInv, NEW h \in Handlers, SeatStep(h)
  PROVE  TypeInv'
<1>1. CASE AssignSeat(h)
  <2> DEFINE r == [Idle EXCEPT !.op = "assignSeat", !.pc = "seatCommit",
                   !.amount = NotNegative(cash), !.draw = DrawOnJoin(cash)]
  <2>1. cash \in Nat /\ "assignSeat" \in Ops
    BY <1>1 DEF AssignSeat, Free, TypeInv, TypeOK
  <2>2. NotNegative(cash) \in Nat /\ DrawOnJoin(cash) \in Nat
    BY <2>1, DrawType, ClampedIsNat
  <2>3. r \in Request /\ r.pc = "seatCommit"
    BY <2>1, <2>2 DEF Idle, Request, PC, NoCredit, CreditRequest
  <2>4. Becomes(h, r) /\ UNCHANGED <<ledger, seated, facility, requests, chips>>
    BY <1>1 DEF AssignSeat
  <2> HIDE DEF r
  <2> QED
    BY <2>3, <2>4, MoveType
<1>2. CASE SeatCommit(h)
  <2> DEFINE a == req[h].amount
             d == req[h].draw
  <2>1. a \in Nat /\ d \in Nat
    BY RequestFacts
  <2>2. /\ cash' = cash + WalletEffect(Row("Table Buy In", "none", a))
                    + WalletEffect(Row("Credit", "none", d))
                    + WalletEffect(Row("Table Buy In", "pair", d))
        /\ portal' = portal + PortalEffect(Row("Table Buy In", "none", a))
                    + PortalEffect(Row("Credit", "none", d))
                    + PortalEffect(Row("Table Buy In", "pair", d))
        /\ line' = line + CreditEffect(Row("Credit", "none", d))
        /\ book' = ChipEffect(Row("Table Buy In", "none", a))
                    + ChipEffect(Row("Credit", "none", d))
                    + ChipEffect(Row("Table Buy In", "pair", d))
        /\ felt' = felt + a + d /\ seated' = TRUE
        /\ Done(h) /\ UNCHANGED <<facility, requests, hand, till>>
    BY <1>2 DEF SeatCommit
  <2> HIDE DEF a, d
  <2>3. cash' = cash - a /\ portal' = portal - a /\ line' = line + d /\ book' = a + d
    <3>1. a \in Int /\ d \in Int /\ cash \in Int /\ portal \in Int /\ line \in Int
      BY <2>1 DEF TypeInv, TypeOK
    <3>2. /\ WalletEffect(Row("Table Buy In", "none", a)) = -a
          /\ PortalEffect(Row("Table Buy In", "none", a)) = -a
          /\ ChipEffect(Row("Table Buy In", "none", a)) = a
      BY <3>1, RowWorth
    <3>3. /\ WalletEffect(Row("Credit", "none", d)) = 0
          /\ PortalEffect(Row("Credit", "none", d)) = 0
          /\ CreditEffect(Row("Credit", "none", d)) = d
          /\ ChipEffect(Row("Credit", "none", d)) = d
          /\ WalletEffect(Row("Table Buy In", "pair", d)) = 0
          /\ PortalEffect(Row("Table Buy In", "pair", d)) = 0
          /\ ChipEffect(Row("Table Buy In", "pair", d)) = 0
      BY <3>1, RowWorth
    <3>4. /\ cash' = cash + (-a) + 0 + 0 /\ portal' = portal + (-a) + 0 + 0
          /\ line' = line + d /\ book' = a + d + 0
      BY <2>2, <3>2, <3>3
    <3> QED
      BY <3>1, <3>4
  <2>4. /\ cash' \in Int /\ portal' \in Int /\ line' \in Int /\ book' \in Int
        /\ felt' \in Nat
    <3>1. /\ a \in Nat /\ d \in Nat /\ felt \in Nat
          /\ cash \in Int /\ portal \in Int /\ line \in Int
      BY <2>1 DEF TypeInv, TypeOK
    <3>2. felt' = felt + a + d
      BY <2>2
    <3> QED
      BY <3>1, <3>2, <2>3
  <2>5. req' \in [Handlers -> Request] /\ Ready'
    BY <2>2, DoneType
  <2> QED
    BY <2>2, <2>4, <2>5 DEF TypeInv, TypeOK, facility, requests
<1> QED
  BY <1>1, <1>2 DEF SeatStep

LEMMA BuyInStepType ==
  ASSUME TypeInv, NEW h \in Handlers, BuyInStep(h)
  PROVE  TypeInv'
<1>1. ASSUME NEW a \in Amounts, PlayerTableBuyInRequest(h, a)
      PROVE  TypeInv'
  <2> DEFINE r == [Idle EXCEPT !.op = "buyInRequest", !.pc = "insertBuyIn", !.amount = a]
  <2>1. a \in Nat /\ "buyInRequest" \in Ops
    BY <1>1, AccountAssumption DEF AccountAssumption, PlayerTableBuyInRequest, Free
  <2>2. r \in Request /\ r.pc = "insertBuyIn"
    BY <2>1 DEF Idle, Request, PC, NoCredit, CreditRequest
  <2>3. Becomes(h, r) /\ UNCHANGED <<ledger, seated, facility, requests, chips>>
    BY <1>1 DEF PlayerTableBuyInRequest
  <2> HIDE DEF r
  <2> QED
    BY <2>2, <2>3, MoveType
<1>2. CASE InsertBuyIn(h)
  <2>1. buyIn' \in [BuyIns -> BuyRequest]
    BY <1>2, RequestFacts DEF InsertBuyIn, TypeInv, TypeOK, BuyRequest
  <2> QED
    BY <1>2, <2>1, DoneType DEF InsertBuyIn, TypeInv, TypeOK, ledger, facility, chips
<1> QED
  BY <1>1, <1>2 DEF BuyInStep

\* Counting the chips is a move of the request that empties the felt.
LEMMA CountingType ==
  ASSUME TypeInv, NEW h \in Handlers, NEW op, NEW pc \in {"exitCommit", "readOwed"},
         NEW i \in BuyOuts \cup {NoId}, NEW amount \in Nat, NEW owed \in Nat,
         Counting(h, op, pc, i, amount, owed)
  PROVE  TypeInv'
<1> DEFINE r == [Idle EXCEPT !.op = op, !.pc = pc, !.id = i, !.amount = amount,
                             !.owed = owed, !.counted = felt]
<1>1. felt \in Nat /\ hand \in Int /\ op \in Ops
  BY DEF Counting, Free, TypeInv, TypeOK
<1>2. r \in Request /\ r.pc = pc
  BY <1>1 DEF Idle, Request, PC, NoCredit, CreditRequest
<1>3. /\ Becomes(h, r) /\ felt' = 0 /\ hand' = hand + felt
      /\ UNCHANGED <<ledger, seated, facility, requests, till>>
  BY DEF Counting
<1> HIDE DEF r
<1>4. felt' \in Nat /\ hand' \in Int
  BY <1>1, <1>3
<1>5. req' \in [Handlers -> Request] /\ Ready'
  BY <1>2, <1>3, BeginType
<1> QED
  BY <1>3, <1>4, <1>5 DEF TypeInv, TypeOK, ledger, facility, requests

LEMMA OwedIsNat == TypeInv => Owed \in Nat
BY ClampedIsNat DEF Owed, TypeInv, TypeOK

LEMMA BuyOutStepType ==
  ASSUME TypeInv, NEW h \in Handlers, BuyOutStep(h)
  PROVE  TypeInv'
<1>1. CASE StartCallTime(h)
  <2> DEFINE r == [Idle EXCEPT !.op = "startCallTime", !.pc = "insertBuyOut",
                               !.amount = NotNegative(book)]
  <2>1. NotNegative(book) \in Nat /\ "startCallTime" \in Ops
    BY <1>1, ClampedIsNat DEF StartCallTime, Free, TypeInv, TypeOK
  <2>2. r \in Request /\ r.pc = "insertBuyOut"
    BY <2>1 DEF Idle, Request, PC, NoCredit, CreditRequest
  <2>3. Becomes(h, r) /\ UNCHANGED <<ledger, seated, facility, requests, chips>>
    BY <1>1 DEF StartCallTime
  <2> HIDE DEF r
  <2> QED
    BY <2>2, <2>3, MoveType
<1>2. CASE InsertBuyOut(h)
  <2>1. buyOut' \in [BuyOuts -> BuyRequest]
    BY <1>2, RequestFacts DEF InsertBuyOut, TypeInv, TypeOK, BuyRequest
  <2> QED
    BY <1>2, <2>1, DoneType DEF InsertBuyOut, TypeInv, TypeOK, ledger, facility, chips
<1>3. ASSUME NEW i \in BuyOuts, ApproveBuyOut(h, i)
      PROVE  TypeInv'
  <2>1. felt \in Nat /\ 0 \in Nat
    BY DEF TypeInv, TypeOK
  <2>2. CASE Counting(h, "approveBuyOut", "exitCommit", i, felt, Owed)
    BY <2>1, <2>2, OwedIsNat, CountingType
  <2>3. CASE Counting(h, "approveByDefault", "exitCommit", i, 0, Owed)
    BY <2>1, <2>3, OwedIsNat, CountingType
  <2> QED
    BY <1>3, <2>2, <2>3 DEF ApproveBuyOut
<1>4. CASE ManualBuyOut(h)
  <2>1. felt \in Nat /\ 0 \in Nat
    BY DEF TypeInv, TypeOK
  <2> QED
    BY <1>4, <2>1, CountingType DEF ManualBuyOut
<1>5. CASE SettleTable(h)
  <2>1. felt \in Nat /\ 0 \in Nat
    BY DEF TypeInv, TypeOK
  <2> QED
    BY <1>5, <2>1, CountingType DEF SettleTable
<1>6. CASE ReadOwed(h)
  <2> DEFINE r == [req[h] EXCEPT !.pc = "exitCommit", !.owed = Owed]
  <2>1. r \in Request /\ r.pc = "exitCommit"
    BY RequestFacts, OwedIsNat DEF Request, PC
  <2>2. Becomes(h, r) /\ UNCHANGED <<ledger, seated, facility, requests, chips>>
    BY <1>6 DEF ReadOwed
  <2> HIDE DEF r
  <2> QED
    BY <2>1, <2>2, MoveType
<1>7. CASE ExitCommit(h)
  <2>1. req[h].amount \in Int /\ req[h].owed \in Int /\ req[h].counted \in Int
    BY RequestFacts
  <2>2. /\ Worth(Row("Table Buy Out", "none", req[h].amount))
        /\ Worth(Row("Debit", "none", req[h].owed)) /\ Worth(Nothing)
    BY <2>1, RowsHaveWorth
  <2>3. cash' \in Int /\ portal' \in Int /\ line' \in Int /\ book' \in Int
    BY <1>7, <2>2, PostType DEF ExitCommit
  <2>4. hand' \in Int
    <3>1. hand' = hand - req[h].counted /\ hand \in Int
      BY <1>7 DEF ExitCommit, TypeInv, TypeOK
    <3> QED
      BY <2>1, <3>1
  <2>5. buyOut' \in [BuyOuts -> BuyRequest]
    <3>1. \A i \in BuyOuts : [buyOut[i] EXCEPT !.status = "approved"] \in BuyRequest
      BY DEF TypeInv, TypeOK, BuyRequest
    <3> QED
      BY <1>7, <3>1 DEF ExitCommit, TypeInv, TypeOK
  <2> QED
    BY <1>7, <2>3, <2>4, <2>5, DoneType DEF ExitCommit, TypeInv, TypeOK, facility
<1> QED
  BY <1>1, <1>2, <1>3, <1>4, <1>5, <1>6, <1>7 DEF BuyOutStep

LEMMA MergedType ==
  ASSUME NEW db \in CreditRequest, NEW base \in CreditRequest, NEW ent \in CreditRequest
  PROVE  Merged(db, base, ent) \in CreditRequest
BY SMT DEF Merged, Changed, CreditRequest

\* Loading a credit request to change it.
LEMMA EditingType ==
  ASSUME TypeInv, NEW h \in Handlers, NEW op, NEW c \in Credits,
         NEW ent \in CreditRequest, Editing(h, op, c, ent)
  PROVE  TypeInv'
<1> DEFINE r == [Idle EXCEPT !.op = op, !.pc = "saveCredit", !.id = c, !.ent = ent]
<1>1. op \in Ops
  BY DEF Editing, Free
<1>2. r \in Request /\ r.pc = "saveCredit" /\ r.id = c
  BY <1>1 DEF Idle, Request, PC, NoCredit, CreditRequest
<1>3. Becomes(h, r) /\ UNCHANGED <<ledger, seated, facility, requests, chips>>
  BY DEF Editing
<1> HIDE DEF r
<1> QED
  BY <1>2, <1>3, MoveType

LEMMA CreditStepType ==
  ASSUME TypeInv, NEW h \in Handlers, CreditStep(h)
  PROVE  TypeInv'
<1>1. ASSUME NEW c \in Credits, NEW l \in Limits \cup {credit[c].amount},
             ApproveCredit(h, c, l)
      PROVE  TypeInv'
  <2> DEFINE draw == IF seated THEN Lesser(credit[c].amount, l) ELSE 0
             r == [Idle EXCEPT !.op = "approveCredit", !.pc = "creditCommit",
                               !.id = c, !.amount = l, !.draw = draw]
  <2>1. credit[c].amount \in Nat /\ "approveCredit" \in Ops
    BY <1>1 DEF TypeInv, TypeOK, CreditRequest, ApproveCredit, Free
  <2>2. l \in Nat
    BY <2>1, AccountAssumption DEF AccountAssumption
  <2>3. draw \in Nat
    BY <2>1, <2>2, ClampedIsNat
  <2>4. Becomes(h, r) /\ UNCHANGED <<ledger, seated, facility, requests, chips>>
    BY <1>1 DEF ApproveCredit
  <2> HIDE DEF draw
  <2>5. r \in Request /\ r.pc = "creditCommit"
    BY <2>1, <2>2, <2>3 DEF Idle, Request, PC, NoCredit, CreditRequest
  <2> HIDE DEF r
  <2> QED
    BY <2>4, <2>5, MoveType
<1>2. CASE CreditCommit(h)
  <2>1. req[h].draw \in Int /\ req[h].draw \in Nat /\ req[h].amount \in Nat
    BY RequestFacts
  <2>2. /\ Worth(Row("Credit", "none", req[h].draw))
        /\ Worth(Row("Table Buy In", "pair", req[h].draw)) /\ Worth(Nothing)
    BY <2>1, RowsHaveWorth
  <2>3. cash' \in Int /\ portal' \in Int /\ line' \in Int /\ book' \in Int
    BY <1>2, <2>2, PostType DEF CreditCommit
  <2>4. felt' \in Nat
    <3>1. felt' = felt + req[h].draw /\ felt \in Nat
      BY <1>2 DEF CreditCommit, TypeInv, TypeOK
    <3> QED
      BY <2>1, <3>1
  <2>5. credit' \in [Credits -> CreditRequest]
    <3>1. \A c \in Credits : [credit[c] EXCEPT !.status = "Approved",
              !.limit = req[h].amount, !.visible = TRUE] \in CreditRequest
      BY <2>1 DEF TypeInv, TypeOK, CreditRequest
    <3>2. credit' = [c \in Credits |-> IF c = req[h].id
             THEN [credit[c] EXCEPT !.status = "Approved",
                                    !.limit = req[h].amount, !.visible = TRUE]
             ELSE credit[c]]
      BY <1>2 DEF CreditCommit
    <3> QED
      BY <3>1, <3>2, Zenon DEF TypeInv, TypeOK
  <2> QED
    BY <1>2, <2>3, <2>4, <2>5, DoneType DEF CreditCommit, TypeInv, TypeOK, facility
<1>3. ASSUME NEW c \in Credits, NEW v \in BOOLEAN, UpdateVisibility(h, c, v)
      PROVE  TypeInv'
  <2>1. [credit[c] EXCEPT !.visible = v] \in CreditRequest
    BY DEF TypeInv, TypeOK, CreditRequest
  <2> QED
    BY <1>3, <2>1, EditingType DEF UpdateVisibility
<1>4. ASSUME NEW c \in Credits, NEW l \in Limits, UpdateLimit(h, c, l)
      PROVE  TypeInv'
  <2>1. [credit[c] EXCEPT !.limit = l] \in CreditRequest
    BY AccountAssumption DEF AccountAssumption, TypeInv, TypeOK, CreditRequest
  <2> QED
    BY <1>4, <2>1, EditingType DEF UpdateLimit
<1>5. CASE SaveCredit(h)
  <2> DEFINE r == [req[h] EXCEPT !.pc = "writeCredit", !.base = credit[req[h].id]]
  <2>1. req[h].id \in Credits
    BY <1>5 DEF SaveCredit, At, TypeInv, Ready
  <2>2. credit[req[h].id] \in CreditRequest
    BY <2>1 DEF TypeInv, TypeOK
  <2>3. r \in Request /\ r.pc = "writeCredit" /\ r.id = req[h].id
    BY <2>2, RequestFacts DEF Request, PC
  <2>4. Becomes(h, r) /\ UNCHANGED <<ledger, seated, facility, requests, chips>>
    BY <1>5 DEF SaveCredit
  <2> HIDE DEF r
  <2> QED
    BY <2>1, <2>3, <2>4, MoveType
<1>6. CASE WriteCredit(h)
  <2>1. req[h].id \in Credits
    BY <1>6 DEF WriteCredit, At, TypeInv, Ready
  <2>2. credit' = [credit EXCEPT ![req[h].id] =
                     Merged(credit[req[h].id], req[h].base, req[h].ent)]
    BY <1>6 DEF WriteCredit
  <2>3. Merged(credit[req[h].id], req[h].base, req[h].ent) \in CreditRequest
    BY <2>1, MergedType, RequestFacts DEF TypeInv, TypeOK
  <2>4. credit' \in [Credits -> CreditRequest]
    BY <2>2, <2>3 DEF TypeInv, TypeOK
  <2> QED
    BY <1>6, <2>4, DoneType DEF WriteCredit, TypeInv, TypeOK, ledger, facility, chips
<1> QED
  BY <1>1, <1>2, <1>3, <1>4, <1>5, <1>6 DEF CreditStep

LEMMA DirectStepType ==
  ASSUME TypeInv, DirectStep
  PROVE  TypeInv'
<1>1. CASE UnseatPlayer
  BY <1>1 DEF UnseatPlayer, TypeInv, TypeOK, Ready, ledger, facility, requests, chips
<1>2. CASE Play
  <2>1. felt' \in Nat /\ till' \in Int
    <3>1. PICK n \in 0 .. Cap : felt' = n /\ till' = till + n - felt
      BY <1>2 DEF Play
    <3>2. n \in Nat /\ till \in Int /\ felt \in Nat
      BY AccountAssumption DEF AccountAssumption, TypeInv, TypeOK
    <3> QED
      BY <3>1, <3>2
  <2> QED
    BY <1>2, <2>1 DEF Play, TypeInv, TypeOK, Ready, ledger, facility, requests
<1>3. ASSUME NEW i \in BuyIns, RejectBuyIn(i)
      PROVE  TypeInv'
  <2>1. buyIn' \in [BuyIns -> BuyRequest]
    BY <1>3 DEF RejectBuyIn, TypeInv, TypeOK, BuyRequest
  <2> QED
    BY <1>3, <2>1 DEF RejectBuyIn, TypeInv, TypeOK, Ready, ledger, facility, chips
<1>4. ASSUME NEW i \in BuyIns, NEW a \in Amounts, ApproveBuyIn(i, a)
      PROVE  TypeInv'
  <2>1. a \in Nat /\ a \in Int
    BY AccountAssumption DEF AccountAssumption
  <2>6. "Club Buy In" \in CounterTypes
    BY DEF CounterTypes, AutoComplete
  <2>2. /\ Worth(Row("Club Buy In", "none", a)) /\ Worth(Row("Table Buy In", "none", a))
        /\ Worth(Nothing)
    BY <2>1, <2>6, RowsHaveWorth
  <2>3. cash' \in Int /\ portal' \in Int /\ line' \in Int /\ book' \in Int
    BY <1>4, <2>2, PostType DEF ApproveBuyIn
  <2>4. felt' \in Nat /\ till' \in Int
    <3>1. felt' = felt + a /\ till' = till + a /\ felt \in Nat /\ till \in Int
      BY <1>4 DEF ApproveBuyIn, TypeInv, TypeOK
    <3> QED
      BY <2>1, <3>1
  <2>5. buyIn' \in [BuyIns -> BuyRequest]
    BY <1>4 DEF ApproveBuyIn, TypeInv, TypeOK, BuyRequest
  <2> QED
    BY <1>4, <2>3, <2>4, <2>5 DEF ApproveBuyIn, TypeInv, TypeOK, Ready, facility
<1>5. ASSUME NEW i \in BuyOuts, RejectBuyOut(i)
      PROVE  TypeInv'
  <2>1. buyOut' \in [BuyOuts -> BuyRequest]
    BY <1>5 DEF RejectBuyOut, TypeInv, TypeOK, BuyRequest
  <2> QED
    BY <1>5, <2>1 DEF RejectBuyOut, TypeInv, TypeOK, Ready, ledger, facility, chips
<1>6. ASSUME NEW c \in Credits, DenyCredit(c)
      PROVE  TypeInv'
  <2>1. credit' \in [Credits -> CreditRequest]
    <3>1. [credit[c] EXCEPT !.status = "Denied", !.limit = 0, !.visible = TRUE]
             \in CreditRequest
      BY DEF TypeInv, TypeOK, CreditRequest
    <3>2. credit' = [credit EXCEPT ![c] =
             [credit[c] EXCEPT !.status = "Denied", !.limit = 0, !.visible = TRUE]]
      BY <1>6 DEF DenyCredit, TypeInv, TypeOK, CreditRequest
    <3> QED
      BY <3>1, <3>2, Zenon DEF TypeInv, TypeOK
  <2> QED
    BY <1>6, <2>1 DEF DenyCredit, TypeInv, TypeOK, Ready, ledger, facility, chips
<1>7. ASSUME NEW c \in Credits, NEW a \in Amounts, RequestCredit(c, a)
      PROVE  TypeInv'
  <2>1. credit' \in [Credits -> CreditRequest]
    BY <1>7, AccountAssumption
    DEF RequestCredit, AccountAssumption, TypeInv, TypeOK, CreditRequest
  <2> QED
    BY <1>7, <2>1 DEF RequestCredit, TypeInv, TypeOK, Ready, ledger, facility, chips
<1>8. ASSUME NEW l \in Limits, EnableCredit(l) \/ UpdatePlayerCreditLimit(l)
      PROVE  TypeInv'
  <2>1. l \in Nat
    BY AccountAssumption DEF AccountAssumption
  <2> QED
    BY <1>8, <2>1 DEF EnableCredit, UpdatePlayerCreditLimit, TypeInv, TypeOK, Ready,
       ledger, requests, chips
<1>9. CASE DisableCredit
  <2>1. enabled' = FALSE /\ limit' = 0
    BY <1>9 DEF DisableCredit
  <2>2. enabled' \in BOOLEAN /\ limit' \in Nat
    BY <2>1
  <2> QED
    BY <1>9, <2>2 DEF DisableCredit, TypeInv, TypeOK, Ready, ledger, requests, chips
<1> QED
  BY <1>1, <1>2, <1>3, <1>4, <1>5, <1>6, <1>7, <1>8, <1>9 DEF DirectStep

LEMMA AbandonType ==
  ASSUME TypeInv, NEW h \in Handlers, Abandon(h)
  PROVE  TypeInv'
<1>1. /\ felt' = felt + req[h].counted /\ hand' = hand - req[h].counted
      /\ Done(h) /\ UNCHANGED <<ledger, seated, facility, requests, till>>
  BY DEF Abandon
<1>2. felt' \in Nat /\ hand' \in Int
  <2>1. felt \in Nat /\ hand \in Int /\ req[h].counted \in Nat
    BY RequestFacts DEF TypeInv, TypeOK
  <2> QED
    BY <1>1, <2>1
<1> QED
  BY <1>1, <1>2, DoneType DEF TypeInv, TypeOK, ledger, facility, requests

LEMMA TypeStep == TypeInv /\ [Next]_vars => TypeInv'
<1> SUFFICES ASSUME TypeInv, [Next]_vars PROVE TypeInv'
  OBVIOUS
<1>1. CASE DirectStep
  BY <1>1, DirectStepType
<1>2. ASSUME NEW h \in Handlers,
             CashierStep(h) \/ SeatStep(h) \/ BuyInStep(h) \/ BuyOutStep(h)
               \/ CreditStep(h) \/ Abandon(h)
      PROVE  TypeInv'
  BY <1>2, CashierStepType, SeatStepType, BuyInStepType, BuyOutStepType,
     CreditStepType, AbandonType
<1>3. CASE UNCHANGED vars
  BY <1>3 DEF vars, ledger, facility, requests, chips, TypeInv, TypeOK, Ready
<1> QED
  BY <1>1, <1>2, <1>3 DEF Next

\* Types: money stays whole rupees and chips never negative, requests hold
\* rows of the right kind, whatever the constants (the sums, rows and request
\* records of the five money services).
THEOREM TypeCorrect == Spec => []TypeOK
<1>1. TypeInv => TypeOK
  BY DEF TypeInv
<1> QED
  BY <1>1, TypeInit, TypeStep, PTL DEF Spec

-----------------------------------------------------------------------------
(* Conservation of money.                                                  *)

\* Every way out books the amount staff counted: no request is approved
\* without one, which books 0 for the chips that were taken.
CountedExits == "approveByDefault" \notin Ops

\* What is in staff hands is what the running request will book.
Counted == \A h \in Handlers :
  req[h].pc \in {"readOwed", "exitCommit"} => req[h].amount = req[h].counted

MoneyInv == TypeInv /\ Counted /\ BooksBalance

LEMMA BeginCounted ==
  ASSUME TypeInv, Counted, NEW h \in Handlers, NEW r \in Request, Becomes(h, r),
         r.pc \in {"readOwed", "exitCommit"} => r.amount = r.counted
  PROVE  Counted'
BY DEF Counted, Becomes, TypeInv, TypeOK

LEMMA DoneCounted ==
  ASSUME TypeInv, Counted, NEW h \in Handlers, Done(h)
  PROVE  Counted'
BY BeginCounted, IdleType DEF Done

\* A step that leaves the portal, the line and the chips alone.
LEMMA StillBalanced ==
  ASSUME BooksBalance, UNCHANGED <<portal, line, felt, hand, till>>
  PROVE  BooksBalance'
BY DEF BooksBalance

\* The books still balance when each quantity moved and the moves balance.
LEMMA BalancedMove ==
  ASSUME TypeInv, BooksBalance,
         NEW dp \in Int, NEW dl \in Int, NEW df \in Int, NEW dh \in Int, NEW dt \in Int,
         portal' = portal + dp, line' = line + dl,
         felt' = felt + df, hand' = hand + dh, till' = till + dt,
         dp + df + dh - dl = dt
  PROVE  BooksBalance'
BY DEF TypeInv, TypeOK, BooksBalance

\* The rows of one transaction, by what they are worth in the portal and on
\* the line.
LEMMA BalancedPost ==
  ASSUME TypeInv, BooksBalance, NEW r, NEW s, NEW t, Post(r, s, t),
         NEW pr \in Int, NEW ps \in Int, NEW pt \in Int,
         NEW lr \in Int, NEW ls \in Int, NEW lt \in Int,
         PortalEffect(r) = pr, PortalEffect(s) = ps, PortalEffect(t) = pt,
         CreditEffect(r) = lr, CreditEffect(s) = ls, CreditEffect(t) = lt,
         NEW df \in Int, NEW dh \in Int, NEW dt \in Int,
         felt' = felt + df, hand' = hand + dh, till' = till + dt,
         pr + ps + pt + df + dh - lr - ls - lt = dt
  PROVE  BooksBalance'
<1>1. portal' = portal + pr + ps + pt /\ line' = line + lr + ls + lt
  BY DEF Post
<1>2. portal \in Int /\ line \in Int
  BY DEF TypeInv, TypeOK
<1> DEFINE dp == pr + ps + pt
           dl == lr + ls + lt
<1>3. portal' = portal + dp /\ line' = line + dl
  BY <1>1, <1>2
<1>4. dp + df + dh - dl = dt /\ dp \in Int /\ dl \in Int
  OBVIOUS
<1> HIDE DEF dp, dl
<1> QED
  BY <1>3, <1>4, BalancedMove

LEMMA CashierStepMoney ==
  ASSUME MoneyInv, NEW h \in Handlers, CashierStep(h)
  PROVE  Counted' /\ BooksBalance'
<1> USE DEF MoneyInv
<1>1. ASSUME NEW type \in PostTypes, NEW a \in Amounts, CreateTransaction(h, type, a)
      PROVE  Counted' /\ BooksBalance'
  <2> DEFINE row == Row(type, "none", a)
             r == [Idle EXCEPT !.op = "createTransaction", !.pc = "readWallet", !.amount = a]
  <2>1. a \in Nat /\ a \in Int /\ type \in CounterTypes
    BY AccountAssumption DEF AccountAssumption
  <2>2. Post(row, Nothing, Nothing) /\ till' = till + WalletEffect(row)
        /\ UNCHANGED <<felt, hand>> /\ (Becomes(h, r) \/ req' = req)
        /\ "createTransaction" \in Ops
    BY <1>1 DEF CreateTransaction, Free
  <2>3. r \in Request /\ r.pc = "readWallet"
    BY <2>1, <2>2 DEF Idle, Request, PC, NoCredit, CreditRequest
  <2>4. /\ WalletEffect(row) \in Int /\ PortalEffect(row) = WalletEffect(row)
        /\ CreditEffect(row) = 0
    BY <2>1, CounterRowWorth
  <2> HIDE DEF row, r
  <2>5. Counted'
    BY <2>2, <2>3, BeginCounted DEF Counted
  <2> DEFINE w == WalletEffect(row)
  <2>6. w + 0 + 0 + 0 + 0 - 0 - 0 - 0 = w /\ felt' = felt + 0 /\ hand' = hand + 0
    BY <2>2, <2>4 DEF TypeInv, TypeOK
  <2> HIDE DEF w
  <2>7. w \in Int /\ 0 \in Int /\ PortalEffect(row) = w /\ till' = till + w
    BY <2>2, <2>4 DEF w
  <2>8. BooksBalance'
    BY <2>2, <2>4, <2>6, <2>7, NothingIsNothing, BalancedPost
  <2> QED
    BY <2>5, <2>8
<1>2. CASE ReadWallet(h)
  <2> DEFINE repay == Lesser(req[h].amount, NotNegative(-(cash - req[h].amount)))
             r == [req[h] EXCEPT !.pc = "postRepay", !.owed = repay]
  <2>1. /\ UNCHANGED <<ledger, chips>>
        /\ Becomes(h, r) \/ Done(h)
    BY <1>2 DEF ReadWallet
  <2>2. BooksBalance'
    BY <2>1, StillBalanced DEF ledger, chips
  <2>3. r.pc = "postRepay"
    BY RequestFacts DEF Request
  <2>4. Becomes(h, r) => Counted'
    BY <2>3 DEF Becomes, Counted, TypeInv, TypeOK
  <2> QED
    BY <2>1, <2>2, <2>4, DoneCounted
<1>3. CASE PostRepay(h)
  <2> DEFINE a == req[h].owed
  <2>1. a \in Int /\ -a \in Int
    BY RequestFacts
  <2>2. /\ Post(Row("Debit", "repay", a), Nothing, Nothing) /\ Done(h)
        /\ UNCHANGED <<felt, hand, till>>
    BY <1>3 DEF PostRepay, chips
  <2> HIDE DEF a
  <2>3. /\ PortalEffect(Row("Debit", "repay", a)) = -a
        /\ CreditEffect(Row("Debit", "repay", a)) = -a
    BY <2>1, RowWorthOut
  <2>4. /\ felt' = felt + 0 /\ hand' = hand + 0 /\ till' = till + 0 /\ 0 \in Int
        /\ (-a) + 0 + 0 + 0 + 0 - (-a) - 0 - 0 = 0
    BY <2>1, <2>2 DEF TypeInv, TypeOK
  <2>5. BooksBalance'
    BY <2>1, <2>2, <2>3, <2>4, NothingIsNothing, BalancedPost
  <2> QED
    BY <2>2, <2>5, DoneCounted
<1> QED
  BY <1>1, <1>2, <1>3 DEF CashierStep

LEMMA SeatStepMoney ==
  ASSUME MoneyInv, NEW h \in Handlers, SeatStep(h)
  PROVE  Counted' /\ BooksBalance'
<1> USE DEF MoneyInv
<1>1. CASE AssignSeat(h)
  <2> DEFINE r == [Idle EXCEPT !.op = "assignSeat", !.pc = "seatCommit",
                   !.amount = NotNegative(cash), !.draw = DrawOnJoin(cash)]
  <2>1. Becomes(h, r) /\ UNCHANGED <<ledger, chips>>
    BY <1>1 DEF AssignSeat
  <2>2. r.pc = "seatCommit"
    BY DEF Idle
  <2> HIDE DEF r
  <2>3. Counted'
    BY <2>1, <2>2 DEF Becomes, Counted, TypeInv, TypeOK
  <2> QED
    BY <2>1, <2>3, StillBalanced DEF ledger, chips
<1>2. CASE SeatCommit(h)
  <2> DEFINE a == req[h].amount
             d == req[h].draw
  <2>1. a \in Int /\ d \in Int
    BY RequestFacts
  <2>2. /\ portal' = portal + PortalEffect(Row("Table Buy In", "none", a))
                    + PortalEffect(Row("Credit", "none", d))
                    + PortalEffect(Row("Table Buy In", "pair", d))
        /\ line' = line + CreditEffect(Row("Credit", "none", d))
        /\ felt' = felt + a + d /\ UNCHANGED <<hand, till>> /\ Done(h)
    BY <1>2 DEF SeatCommit
  <2> HIDE DEF a, d
  <2>3. /\ PortalEffect(Row("Table Buy In", "none", a)) = -a
        /\ PortalEffect(Row("Credit", "none", d)) = 0
        /\ PortalEffect(Row("Table Buy In", "pair", d)) = 0
        /\ CreditEffect(Row("Credit", "none", d)) = d
    BY <2>1, RowWorth
  <2>4. portal' = portal + (-a) + 0 + 0 /\ line' = line + d
    BY <2>2, <2>3
  <2>5. /\ portal \in Int /\ line \in Int /\ felt \in Int /\ hand \in Int /\ till \in Int
    BY DEF TypeInv, TypeOK
  <2>7. felt' = felt + a + d /\ hand' = hand /\ till' = till
    BY <2>2
  <2>8. /\ portal' = portal + (-a) /\ felt' = felt + (a + d)
        /\ hand' = hand + 0 /\ till' = till + 0
    BY <2>1, <2>4, <2>5, <2>7
  <2>9. -a \in Int /\ a + d \in Int /\ 0 \in Int /\ (-a) + (a + d) + 0 - d = 0
    BY <2>1
  <2>6. BooksBalance'
    BY <2>1, <2>4, <2>8, <2>9, BalancedMove
  <2> QED
    BY <2>2, <2>6, DoneCounted
<1> QED
  BY <1>1, <1>2 DEF SeatStep

LEMMA BuyInStepMoney ==
  ASSUME MoneyInv, NEW h \in Handlers, BuyInStep(h)
  PROVE  Counted' /\ BooksBalance'
<1> USE DEF MoneyInv
<1>1. ASSUME NEW a \in Amounts, PlayerTableBuyInRequest(h, a)
      PROVE  Counted' /\ BooksBalance'
  <2> DEFINE r == [Idle EXCEPT !.op = "buyInRequest", !.pc = "insertBuyIn", !.amount = a]
  <2>1. Becomes(h, r) /\ UNCHANGED <<ledger, chips>>
    BY <1>1 DEF PlayerTableBuyInRequest
  <2>2. r.pc = "insertBuyIn"
    BY DEF Idle
  <2> HIDE DEF r
  <2>3. Counted'
    BY <2>1, <2>2 DEF Becomes, Counted, TypeInv, TypeOK
  <2> QED
    BY <2>1, <2>3, StillBalanced DEF ledger, chips
<1>2. CASE InsertBuyIn(h)
  BY <1>2, DoneCounted, StillBalanced DEF InsertBuyIn, ledger, chips
<1> QED
  BY <1>1, <1>2 DEF BuyInStep

\* Chips counted move from the felt to staff hands, with a request that will
\* book that many.
LEMMA CountingMoney ==
  ASSUME MoneyInv, NEW h \in Handlers, NEW op, NEW pc \in {"exitCommit", "readOwed"},
         NEW i \in BuyOuts \cup {NoId}, NEW owed \in Nat,
         Counting(h, op, pc, i, felt, owed)
  PROVE  Counted' /\ BooksBalance'
<1> USE DEF MoneyInv
<1> DEFINE r == [Idle EXCEPT !.op = op, !.pc = pc, !.id = i, !.amount = felt,
                             !.owed = owed, !.counted = felt]
<1>1. /\ Becomes(h, r) /\ felt' = 0 /\ hand' = hand + felt
      /\ UNCHANGED <<ledger, till>>
  BY DEF Counting
<1>2. r.amount = r.counted
  BY DEF Idle
<1> HIDE DEF r
<1>3. Counted'
  BY <1>1, <1>2 DEF Becomes, Counted, TypeInv, TypeOK
<1>4. BooksBalance'
  BY <1>1 DEF BooksBalance, ledger, TypeInv, TypeOK
<1> QED
  BY <1>3, <1>4

LEMMA BuyOutStepMoney ==
  ASSUME MoneyInv, CountedExits, NEW h \in Handlers, BuyOutStep(h)
  PROVE  Counted' /\ BooksBalance'
<1> USE DEF MoneyInv
<1>1. CASE StartCallTime(h)
  <2> DEFINE r == [Idle EXCEPT !.op = "startCallTime", !.pc = "insertBuyOut",
                               !.amount = NotNegative(book)]
  <2>1. Becomes(h, r) /\ UNCHANGED <<ledger, chips>>
    BY <1>1 DEF StartCallTime
  <2>2. r.pc = "insertBuyOut"
    BY DEF Idle
  <2> HIDE DEF r
  <2>3. Counted'
    BY <2>1, <2>2 DEF Becomes, Counted, TypeInv, TypeOK
  <2> QED
    BY <2>1, <2>3, StillBalanced DEF ledger, chips
<1>2. CASE InsertBuyOut(h)
  BY <1>2, DoneCounted, StillBalanced DEF InsertBuyOut, ledger, chips
<1>3. ASSUME NEW i \in BuyOuts, ApproveBuyOut(h, i)
      PROVE  Counted' /\ BooksBalance'
  <2>1. Counting(h, "approveBuyOut", "exitCommit", i, felt, Owed)
    BY <1>3 DEF ApproveBuyOut, Counting, Free, CountedExits
  <2> QED
    BY <2>1, OwedIsNat, CountingMoney
<1>4. CASE ManualBuyOut(h)
  <2>1. 0 \in Nat
    OBVIOUS
  <2> QED
    BY <1>4, <2>1, CountingMoney DEF ManualBuyOut
<1>5. CASE SettleTable(h)
  <2>1. 0 \in Nat
    OBVIOUS
  <2> QED
    BY <1>5, <2>1, CountingMoney DEF SettleTable
<1>6. CASE ReadOwed(h)
  <2> DEFINE r == [req[h] EXCEPT !.pc = "exitCommit", !.owed = Owed]
  <2>1. Becomes(h, r) /\ UNCHANGED <<ledger, chips>>
    BY <1>6 DEF ReadOwed
  <2>2. req[h].amount = req[h].counted
    BY <1>6 DEF ReadOwed, At, Counted
  <2>3. r.amount = r.counted
    BY <2>2, RequestFacts DEF Request
  <2> HIDE DEF r
  <2>4. Counted'
    BY <2>1, <2>3 DEF Becomes, Counted, TypeInv, TypeOK
  <2> QED
    BY <2>1, <2>4, StillBalanced DEF ledger, chips
<1>7. CASE ExitCommit(h)
  <2> DEFINE a == req[h].amount
             o == req[h].owed
  <2>1. a \in Int /\ o \in Int /\ -a \in Int /\ -o \in Int
    BY RequestFacts
  <2>2. a = req[h].counted
    BY <1>7 DEF ExitCommit, At, Counted
  <2>3. /\ Post(Row("Table Buy Out", "none", a), Row("Debit", "none", o), Nothing)
        /\ hand' = hand - a /\ UNCHANGED <<felt, till>> /\ Done(h)
    BY <1>7, <2>2 DEF ExitCommit
  <2> HIDE DEF a, o
  <2>4. /\ PortalEffect(Row("Table Buy Out", "none", a)) = a
        /\ CreditEffect(Row("Table Buy Out", "none", a)) = 0
        /\ PortalEffect(Row("Debit", "none", o)) = -o
        /\ CreditEffect(Row("Debit", "none", o)) = -o
    BY <2>1, RowWorthOut
  <2>5. portal' = portal + a + (-o) + 0 /\ line' = line + 0 + (-o) + 0
    BY <2>3, <2>4, NothingIsNothing DEF Post
  <2>7. hand' = hand - a /\ felt' = felt /\ till' = till
    BY <2>3
  <2>8. /\ portal \in Int /\ line \in Int /\ felt \in Int /\ hand \in Int /\ till \in Int
    BY DEF TypeInv, TypeOK
  <2>9. /\ portal' = portal + (a - o) /\ line' = line + (-o) /\ felt' = felt + 0
        /\ hand' = hand + (-a) /\ till' = till + 0
    BY <2>1, <2>5, <2>7, <2>8
  <2>10. a - o \in Int /\ 0 \in Int /\ (a - o) + 0 + (-a) - (-o) = 0
    BY <2>1
  <2>6. BooksBalance'
    BY <2>1, <2>9, <2>10, BalancedMove
  <2> QED
    BY <2>3, <2>6, DoneCounted
<1> QED
  BY <1>1, <1>2, <1>3, <1>4, <1>5, <1>6, <1>7 DEF BuyOutStep

LEMMA CreditStepMoney ==
  ASSUME MoneyInv, NEW h \in Handlers, CreditStep(h)
  PROVE  Counted' /\ BooksBalance'
<1> USE DEF MoneyInv
<1>1. ASSUME NEW c \in Credits, NEW l \in Limits \cup {credit[c].amount},
             ApproveCredit(h, c, l)
      PROVE  Counted' /\ BooksBalance'
  <2> DEFINE r == [Idle EXCEPT !.op = "approveCredit", !.pc = "creditCommit",
                    !.id = c, !.amount = l,
                    !.draw = IF seated THEN Lesser(credit[c].amount, l) ELSE 0]
  <2>1. Becomes(h, r) /\ UNCHANGED <<ledger, chips>>
    BY <1>1 DEF ApproveCredit
  <2>2. r.pc = "creditCommit"
    BY DEF Idle
  <2> HIDE DEF r
  <2>3. Counted'
    BY <2>1, <2>2 DEF Becomes, Counted, TypeInv, TypeOK
  <2> QED
    BY <2>1, <2>3, StillBalanced DEF ledger, chips
<1>2. CASE CreditCommit(h)
  <2> DEFINE d == req[h].draw
  <2>1. d \in Int
    BY RequestFacts
  <2>2. /\ Post(Row("Credit", "none", d), Row("Table Buy In", "pair", d), Nothing)
        /\ felt' = felt + d /\ UNCHANGED <<hand, till>> /\ Done(h)
    BY <1>2 DEF CreditCommit
  <2> HIDE DEF d
  <2>3. /\ PortalEffect(Row("Credit", "none", d)) = 0
        /\ CreditEffect(Row("Credit", "none", d)) = d
        /\ PortalEffect(Row("Table Buy In", "pair", d)) = 0
        /\ CreditEffect(Row("Table Buy In", "pair", d)) = 0
    BY <2>1, RowWorth
  <2>4. portal' = portal + 0 + 0 + 0 /\ line' = line + d + 0 + 0
    BY <2>2, <2>3, NothingIsNothing DEF Post
  <2>5. hand' = hand /\ till' = till
    BY <2>2
  <2>6. portal \in Int /\ line \in Int /\ hand \in Int /\ till \in Int
    BY DEF TypeInv, TypeOK
  <2>7. /\ portal' = portal + 0 /\ line' = line + d /\ hand' = hand + 0
        /\ till' = till + 0 /\ 0 \in Int /\ 0 + d + 0 - d = 0
    BY <2>1, <2>4, <2>5, <2>6
  <2>8. BooksBalance'
    BY <2>1, <2>2, <2>7, BalancedMove
  <2> QED
    BY <2>2, <2>8, DoneCounted
<1>3. ASSUME NEW op, NEW c \in Credits, NEW ent, Editing(h, op, c, ent)
      PROVE  Counted' /\ BooksBalance'
  <2> DEFINE r == [Idle EXCEPT !.op = op, !.pc = "saveCredit", !.id = c, !.ent = ent]
  <2>1. Becomes(h, r) /\ UNCHANGED <<ledger, chips>>
    BY <1>3 DEF Editing
  <2>2. r.pc = "saveCredit"
    BY DEF Idle
  <2> HIDE DEF r
  <2>3. Counted'
    BY <2>1, <2>2 DEF Becomes, Counted, TypeInv, TypeOK
  <2> QED
    BY <2>1, <2>3, StillBalanced DEF ledger, chips
<1>4. CASE SaveCredit(h)
  <2> DEFINE r == [req[h] EXCEPT !.pc = "writeCredit", !.base = credit[req[h].id]]
  <2>1. Becomes(h, r) /\ UNCHANGED <<ledger, chips>>
    BY <1>4 DEF SaveCredit
  <2>2. r.pc = "writeCredit"
    BY RequestFacts DEF Request
  <2> HIDE DEF r
  <2>3. Counted'
    BY <2>1, <2>2 DEF Becomes, Counted, TypeInv, TypeOK
  <2> QED
    BY <2>1, <2>3, StillBalanced DEF ledger, chips
<1>5. CASE WriteCredit(h)
  BY <1>5, DoneCounted, StillBalanced DEF WriteCredit, ledger, chips
<1> QED
  BY <1>1, <1>2, <1>3, <1>4, <1>5 DEF CreditStep, UpdateVisibility, UpdateLimit

LEMMA DirectStepMoney ==
  ASSUME MoneyInv, DirectStep
  PROVE  Counted' /\ BooksBalance'
<1> USE DEF MoneyInv
<1>1. CASE req' = req /\ UNCHANGED <<ledger, chips>>
  BY <1>1, StillBalanced DEF Counted, ledger, chips
<1>2. CASE Play
  <2>1. PICK n \in 0 .. Cap : felt' = n /\ till' = till + n - felt
    BY <1>2 DEF Play
  <2>2. n \in Int /\ till \in Int /\ felt \in Int /\ portal \in Int /\ line \in Int
        /\ hand \in Int
    BY AccountAssumption DEF AccountAssumption, TypeInv, TypeOK
  <2>3. portal' = portal /\ line' = line /\ hand' = hand /\ req' = req
    BY <1>2 DEF Play, ledger
  <2> DEFINE d == n - felt
  <2>4. /\ portal' = portal + 0 /\ line' = line + 0 /\ felt' = felt + d
        /\ hand' = hand + 0 /\ till' = till + d /\ d \in Int /\ 0 \in Int
        /\ 0 + d + 0 - 0 = d
    BY <2>1, <2>2, <2>3
  <2> HIDE DEF d
  <2> QED
    BY <2>3, <2>4, BalancedMove DEF Counted
<1>3. ASSUME NEW i \in BuyIns, NEW a \in Amounts, ApproveBuyIn(i, a)
      PROVE  Counted' /\ BooksBalance'
  <2>1. a \in Int
    BY AccountAssumption DEF AccountAssumption
  <2>2. /\ Post(Row("Club Buy In", "none", a), Row("Table Buy In", "none", a), Nothing)
        /\ felt' = felt + a /\ till' = till + a /\ hand' = hand /\ req' = req
    BY <1>3 DEF ApproveBuyIn
  <2>3. /\ PortalEffect(Row("Club Buy In", "none", a)) = a
        /\ CreditEffect(Row("Club Buy In", "none", a)) = 0
    BY <2>1, SMT DEF PortalEffect, CreditEffect, Row, IsPair, IsTableBuyIn, Deposits,
       Outgoings
  <2>4. /\ PortalEffect(Row("Table Buy In", "none", a)) = -a
        /\ CreditEffect(Row("Table Buy In", "none", a)) = 0
    BY <2>1, RowWorth
  <2>5. portal' = portal + a + (-a) + 0 /\ line' = line + 0 + 0 + 0
    BY <2>2, <2>3, <2>4, NothingIsNothing DEF Post
  <2>6. portal \in Int /\ line \in Int /\ hand \in Int
    BY DEF TypeInv, TypeOK
  <2>9. hand' = hand
    BY <2>2
  <2>7. /\ portal' = portal + 0 /\ line' = line + 0 /\ hand' = hand + 0
        /\ 0 \in Int /\ 0 + a + 0 - 0 = a
    BY <2>1, <2>5, <2>6, <2>9
  <2>8. BooksBalance'
    BY <2>1, <2>2, <2>7, BalancedMove
  <2> QED
    BY <2>2, <2>8 DEF Counted
<1> QED
  BY <1>1, <1>2, <1>3 DEF DirectStep, UnseatPlayer, RejectBuyIn, RejectBuyOut,
     DenyCredit, RequestCredit, EnableCredit, UpdatePlayerCreditLimit, DisableCredit

LEMMA AbandonMoney ==
  ASSUME MoneyInv, NEW h \in Handlers, Abandon(h)
  PROVE  Counted' /\ BooksBalance'
<1> USE DEF MoneyInv
<1> DEFINE n == req[h].counted
<1>1. n \in Int
  BY RequestFacts
<1>2. /\ felt' = felt + n /\ hand' = hand - n /\ till' = till /\ portal' = portal
      /\ line' = line /\ Done(h)
  BY DEF Abandon, ledger
<1> HIDE DEF n
<1>3. portal \in Int /\ line \in Int /\ hand \in Int /\ till \in Int
  BY DEF TypeInv, TypeOK
<1>4. /\ portal' = portal + 0 /\ line' = line + 0 /\ hand' = hand + (-n)
      /\ till' = till + 0 /\ -n \in Int /\ 0 \in Int /\ 0 + n + (-n) - 0 = 0
  BY <1>1, <1>2, <1>3
<1>5. BooksBalance'
  BY <1>1, <1>2, <1>4, BalancedMove
<1> QED
  BY <1>2, <1>5, DoneCounted

LEMMA MoneyInit == Init => MoneyInv
<1> SUFFICES ASSUME Init PROVE MoneyInv
  OBVIOUS
<1>1. Counted
  BY IdleType DEF Init, Counted
<1>2. portal = 0 /\ felt = 0 /\ hand = 0 /\ line = 0 /\ till = 0
  BY DEF Init
<1>3. BooksBalance
  BY <1>2 DEF BooksBalance
<1> QED
  BY <1>1, <1>3, TypeInit DEF MoneyInv

LEMMA MoneyStep == CountedExits /\ MoneyInv /\ [Next]_vars => MoneyInv'
<1> SUFFICES ASSUME CountedExits, MoneyInv, [Next]_vars PROVE MoneyInv'
  OBVIOUS
<1>1. TypeInv'
  BY TypeStep DEF MoneyInv
<1>2. CASE DirectStep
  BY <1>1, <1>2, DirectStepMoney DEF MoneyInv
<1>3. ASSUME NEW h \in Handlers,
             CashierStep(h) \/ SeatStep(h) \/ BuyInStep(h) \/ BuyOutStep(h)
               \/ CreditStep(h) \/ Abandon(h)
      PROVE  MoneyInv'
  BY <1>1, <1>3, CashierStepMoney, SeatStepMoney, BuyInStepMoney, BuyOutStepMoney,
     CreditStepMoney, AbandonMoney DEF MoneyInv
<1>4. CASE UNCHANGED vars
  BY <1>1, <1>4, StillBalanced DEF vars, ledger, chips, MoneyInv, Counted
<1> QED
  BY <1>2, <1>3, <1>4 DEF Next

\* No interleaving of the cashier, seating, buy-ins, credit, the four ways
\* out, crashes and play makes or loses money, as long as every way out books
\* the chips staff counted (approveBuyOutRequest given an explicit amount).
THEOREM MoneyIsConserved ==
  ASSUME CountedExits
  PROVE  Spec => []BooksBalance
<1>1. MoneyInv /\ [Next]_vars => MoneyInv'
  BY MoneyStep
<1>2. MoneyInv => BooksBalance
  BY DEF MoneyInv
<1> QED
  BY MoneyInit, <1>1, <1>2, PTL DEF Spec

-----------------------------------------------------------------------------
(* Joining a table within the facility.                                    *)

Locking == {"seatCommit", "creditCommit"}

\* The player's row is locked by one request at a time ...
OneLock == \A g, h \in Handlers :
  req[g].pc \in Locking /\ req[h].pc \in Locking => g = h

\* ... and what a join is about to draw still fits under the limit.
Covered == \A h \in Handlers :
  req[h].pc = "seatCommit" /\ req[h].draw > 0 => line + req[h].draw <= limit

FacilityInv == TypeInv /\ OneLock /\ Covered

LEMMA DrawCovered ==
  ASSUME TypeInv, NEW toTable \in Nat
  PROVE  DrawOnJoin(toTable) > 0 => line + DrawOnJoin(toTable) <= limit
<1> DEFINE owing == IF enabled THEN line ELSE 0
           onLine == CreditOnLine(enabled, limit, owing)
           headroom == NotNegative(limit - NotNegative(owing))
           room == IF MaxBuyIn = 0 THEN onLine ELSE NotNegative(MaxBuyIn - toTable)
           draw == Lesser(room, Lesser(onLine, headroom))
<1>1. DrawOnJoin(toTable) = draw
  BY DEF DrawOnJoin
<1>2. line \in Int /\ limit \in Nat /\ enabled \in BOOLEAN
  BY DEF TypeInv, TypeOK
<1>3. onLine \in Nat /\ (~enabled => onLine = 0)
  <2>1. owing \in Int
    BY <1>2
  <2> HIDE DEF owing
  <2> QED
    BY <1>2, <2>1, CreditOnLineBound, Zenon DEF onLine
<1>4. room \in Nat
  <2>1. MaxBuyIn - toTable \in Int
    BY AccountAssumption DEF AccountAssumption
  <2> QED
    BY <1>3, <2>1, ClampedIsNat
<1>5. enabled => headroom \in Nat /\ (headroom > 0 => line + headroom <= limit)
  BY <1>2, SMT DEF NotNegative
<1>6. ~enabled => headroom \in Nat
  BY <1>2, SMT DEF NotNegative
<1> HIDE DEF room, onLine, headroom
<1>7. draw <= onLine /\ draw <= headroom /\ draw \in Nat
  BY <1>2, <1>3, <1>4, <1>5, <1>6, SMT DEF Lesser
<1> HIDE DEF draw
<1> QED
  BY <1>1, <1>2, <1>3, <1>5, <1>6, <1>7

\* Requests that take no lock, while no credit is drawn and the limit stays.
LEMMA QuietMove ==
  ASSUME FacilityInv, NEW h \in Handlers, NEW r, Becomes(h, r) \/ req' = req,
         r.pc \notin Locking, line' \in Int, line' <= line, limit' = limit
  PROVE  OneLock' /\ Covered'
<1> USE DEF FacilityInv
<1>1. \A g \in Handlers : req'[g] = req[g] \/ req'[g].pc \notin Locking
  BY DEF Becomes, TypeInv, TypeOK
<1>2. OneLock'
  BY <1>1 DEF OneLock
<1>3. Covered'
  <2> SUFFICES ASSUME NEW g \in Handlers, req'[g].pc = "seatCommit", req'[g].draw > 0
               PROVE  line' + req'[g].draw <= limit'
    BY DEF Covered
  <2>1. req'[g] = req[g]
    BY <1>1 DEF Locking
  <2>2. line + req[g].draw <= limit
    BY <2>1 DEF Covered
  <2>3. req[g].draw \in Int /\ line \in Int /\ limit \in Int
    BY RequestFacts DEF TypeInv, TypeOK
  <2> QED
    BY <2>1, <2>2, <2>3
<1> QED
  BY <1>2, <1>3

\* The holder of the lock ends: nobody else held it.
LEMMA HolderEnds ==
  ASSUME FacilityInv, NEW h \in Handlers, req[h].pc \in Locking, Done(h)
  PROVE  OneLock' /\ Covered'
<1>1. \A g \in Handlers : req'[g].pc \notin Locking
  BY IdleType DEF FacilityInv, OneLock, Done, Becomes, Locking, TypeInv, TypeOK
<1> QED
  BY <1>1 DEF OneLock, Covered, Locking

\* Nobody holds the lock.
LEMMA Unlocked ==
  ASSUME FacilityInv, ~PlayerLocked, req' = req
  PROVE  OneLock' /\ Covered'
BY DEF FacilityInv, PlayerLocked, OneLock, Covered, Locking

\* What a group of steps must show: the lock facts are kept, and a player is
\* seated by SeatCommit alone.
Safe == OneLock' /\ Covered' /\ (seated' => seated)

LEMMA CashierStepSafe ==
  ASSUME FacilityInv, TypeInv', NEW h \in Handlers, CashierStep(h)
  PROVE  Safe
<1> USE DEF FacilityInv
<1>1. line \in Int /\ line' \in Int
  BY DEF TypeInv, TypeOK
<1>2. ASSUME NEW type \in PostTypes, NEW a \in Amounts, CreateTransaction(h, type, a)
      PROVE  Safe
  <2> DEFINE r == [Idle EXCEPT !.op = "createTransaction", !.pc = "readWallet", !.amount = a]
  <2>1. a \in Int /\ type \in CounterTypes
    BY AccountAssumption DEF AccountAssumption
  <2>2. /\ Post(Row(type, "none", a), Nothing, Nothing)
        /\ Becomes(h, r) \/ req' = req
        /\ limit' = limit /\ seated' = seated
    BY <1>2 DEF CreateTransaction, facility
  <2>3. r.pc \notin Locking
    BY DEF Idle, Locking
  <2> HIDE DEF r
  <2>4. line' = line + 0 + 0 + 0
    BY <2>1, <2>2, CounterRowWorth, NothingIsNothing DEF Post
  <2>5. line' <= line
    BY <1>1, <2>4
  <2> QED
    BY <1>1, <2>2, <2>3, <2>5, QuietMove DEF Safe
<1>3. CASE ReadWallet(h)
  <2> DEFINE repay == Lesser(req[h].amount, NotNegative(-(cash - req[h].amount)))
             r == [req[h] EXCEPT !.pc = "postRepay", !.owed = repay]
  <2>1. /\ Becomes(h, r) \/ Becomes(h, Idle)
        /\ line' = line /\ limit' = limit /\ seated' = seated
    BY <1>3 DEF ReadWallet, Done, ledger, facility
  <2>2. r.pc \notin Locking /\ Idle.pc \notin Locking
    BY RequestFacts, IdleType DEF Request, Locking
  <2> HIDE DEF r
  <2>3. line' <= line
    BY <1>1, <2>1
  <2> QED
    BY <1>1, <2>1, <2>2, <2>3, QuietMove DEF Safe
<1>4. CASE PostRepay(h)
  <2> DEFINE o == req[h].owed
  <2>1. o \in Nat /\ o \in Int
    BY RequestFacts
  <2>2. /\ Post(Row("Debit", "repay", o), Nothing, Nothing)
        /\ Becomes(h, Idle) /\ limit' = limit /\ seated' = seated
    BY <1>4 DEF PostRepay, Done, facility
  <2> HIDE DEF o
  <2>3. line' = line + (-o) + 0 + 0
    BY <2>1, <2>2, RowWorthOut, NothingIsNothing DEF Post
  <2>4. line' <= line
    BY <1>1, <2>1, <2>3
  <2>5. Idle.pc \notin Locking
    BY DEF Idle, Locking
  <2> QED
    BY <1>1, <2>2, <2>4, <2>5, QuietMove DEF Safe
<1> QED
  BY <1>2, <1>3, <1>4 DEF CashierStep

LEMMA BuyInStepSafe ==
  ASSUME FacilityInv, TypeInv', NEW h \in Handlers, BuyInStep(h)
  PROVE  Safe
<1> USE DEF FacilityInv
<1>1. line \in Int /\ line' \in Int
  BY DEF TypeInv, TypeOK
<1>2. ASSUME NEW a \in Amounts, PlayerTableBuyInRequest(h, a)
      PROVE  Safe
  <2> DEFINE r == [Idle EXCEPT !.op = "buyInRequest", !.pc = "insertBuyIn", !.amount = a]
  <2>1. Becomes(h, r) /\ line' = line /\ limit' = limit /\ seated' = seated
    BY <1>2 DEF PlayerTableBuyInRequest, ledger, facility
  <2>2. r.pc \notin Locking /\ line' <= line
    BY <1>1, <2>1 DEF Idle, Locking
  <2> HIDE DEF r
  <2> QED
    BY <1>1, <2>1, <2>2, QuietMove DEF Safe
<1>3. CASE InsertBuyIn(h)
  <2>1. Becomes(h, Idle) /\ line' = line /\ limit' = limit /\ seated' = seated
    BY <1>3 DEF InsertBuyIn, Done, ledger, facility
  <2>2. Idle.pc \notin Locking /\ line' <= line
    BY <1>1, <2>1 DEF Idle, Locking
  <2> QED
    BY <1>1, <2>1, <2>2, QuietMove DEF Safe
<1> QED
  BY <1>2, <1>3 DEF BuyInStep

\* Taking the lock: nobody else has it, and a join is covered.
LEMMA TakesLock ==
  ASSUME FacilityInv, NEW h \in Handlers, NEW r \in Request, Becomes(h, r), ~PlayerLocked,
         line' = line, limit' = limit,
         r.pc = "seatCommit" /\ r.draw > 0 => line + r.draw <= limit
  PROVE  OneLock' /\ Covered'
<1>1. \A g \in Handlers : g # h => req'[g].pc \notin Locking
  BY DEF FacilityInv, PlayerLocked, Locking, Becomes, TypeInv, TypeOK
<1>2. req'[h] = r
  BY DEF FacilityInv, Becomes, TypeInv, TypeOK
<1>3. OneLock'
  BY <1>1 DEF OneLock
<1>4. Covered'
  <2> SUFFICES ASSUME NEW g \in Handlers, req'[g].pc = "seatCommit", req'[g].draw > 0
               PROVE  line' + req'[g].draw <= limit'
    BY DEF Covered
  <2>1. g = h
    BY <1>1 DEF Locking
  <2> QED
    BY <2>1, <1>2
<1> QED
  BY <1>3, <1>4

LEMMA AssignSeatSafe ==
  ASSUME FacilityInv, NEW h \in Handlers, AssignSeat(h)
  PROVE  Safe
<1> USE DEF FacilityInv
<1> DEFINE r == [Idle EXCEPT !.op = "assignSeat", !.pc = "seatCommit",
                 !.amount = NotNegative(cash), !.draw = DrawOnJoin(cash)]
<1>1. cash \in Nat /\ "assignSeat" \in Ops
  BY DEF AssignSeat, Free, TypeInv, TypeOK
<1>2. NotNegative(cash) \in Nat /\ DrawOnJoin(cash) \in Nat
  BY <1>1, DrawType, ClampedIsNat
<1>3. r \in Request /\ r.draw = DrawOnJoin(cash)
  BY <1>1, <1>2 DEF Idle, Request, PC, NoCredit, CreditRequest
<1>4. Becomes(h, r) /\ ~PlayerLocked /\ line' = line /\ limit' = limit /\ seated' = seated
  BY DEF AssignSeat, ledger, facility
<1> HIDE DEF r
<1> QED
  BY <1>1, <1>3, <1>4, DrawCovered, TakesLock DEF Safe

LEMMA SeatCommitSafe ==
  ASSUME FacilityInv, NEW h \in Handlers, SeatCommit(h)
  PROVE  OneLock' /\ Covered' /\ (line' > line => line' <= limit)
<1> USE DEF FacilityInv
<1> DEFINE d == req[h].draw
<1>1. /\ Done(h) /\ line' = line + CreditEffect(Row("Credit", "none", d))
      /\ req[h].pc = "seatCommit"
  BY DEF SeatCommit, At
<1>2. d \in Int /\ line \in Int /\ limit \in Int
  BY RequestFacts DEF TypeInv, TypeOK
<1>3. d > 0 => line + d <= limit
  BY <1>1 DEF Covered
<1> HIDE DEF d
<1>4. line' = line + d
  BY <1>1, <1>2, RowWorth
<1>5. OneLock' /\ Covered'
  BY <1>1, HolderEnds DEF Locking
<1> QED
  BY <1>2, <1>3, <1>4, <1>5

LEMMA BuyOutStepSafe ==
  ASSUME FacilityInv, TypeInv', NEW h \in Handlers, BuyOutStep(h)
  PROVE  Safe
<1> USE DEF FacilityInv
<1>1. line \in Int /\ line' \in Int
  BY DEF TypeInv, TypeOK
<1>2. ASSUME NEW r, Becomes(h, r), r.pc \notin Locking,
             line' = line, limit' = limit, seated' = seated
      PROVE  Safe
  BY <1>1, <1>2, QuietMove DEF Safe
<1>3. CASE StartCallTime(h)
  <2> DEFINE r == [Idle EXCEPT !.op = "startCallTime", !.pc = "insertBuyOut",
                               !.amount = NotNegative(book)]
  <2>1. r.pc \notin Locking
    BY DEF Idle, Locking
  <2>2. Becomes(h, r) /\ line' = line /\ limit' = limit /\ seated' = seated
    BY <1>3 DEF StartCallTime, ledger, facility
  <2> HIDE DEF r
  <2> QED
    BY <1>2, <2>1, <2>2
<1>4. CASE InsertBuyOut(h)
  <2>1. Idle.pc \notin Locking
    BY DEF Idle, Locking
  <2> QED
    BY <1>2, <1>4, <2>1 DEF InsertBuyOut, Done, ledger, facility
<1>5. ASSUME NEW op, NEW pc \in {"exitCommit", "readOwed"}, NEW i, NEW amount, NEW owed,
             Counting(h, op, pc, i, amount, owed)
      PROVE  Safe
  <2> DEFINE r == [Idle EXCEPT !.op = op, !.pc = pc, !.id = i, !.amount = amount,
                               !.owed = owed, !.counted = felt]
  <2>1. r.pc \notin Locking
    BY DEF Idle, Locking
  <2>2. Becomes(h, r) /\ line' = line /\ limit' = limit /\ seated' = seated
    BY <1>5 DEF Counting, ledger, facility
  <2> HIDE DEF r
  <2> QED
    BY <1>2, <2>1, <2>2
<1>6. ASSUME NEW i \in BuyOuts, ApproveBuyOut(h, i)
      PROVE  Safe
  BY <1>5, <1>6 DEF ApproveBuyOut
<1>7. CASE ManualBuyOut(h) \/ SettleTable(h)
  BY <1>5, <1>7 DEF ManualBuyOut, SettleTable
<1>8. CASE ReadOwed(h)
  <2> DEFINE r == [req[h] EXCEPT !.pc = "exitCommit", !.owed = Owed]
  <2>1. r.pc \notin Locking
    BY RequestFacts DEF Request, Locking
  <2>2. Becomes(h, r) /\ line' = line /\ limit' = limit /\ seated' = seated
    BY <1>8 DEF ReadOwed, ledger, facility
  <2> HIDE DEF r
  <2> QED
    BY <1>2, <2>1, <2>2
<1>9. CASE ExitCommit(h)
  <2> DEFINE a == req[h].amount
             o == req[h].owed
  <2>1. a \in Int /\ o \in Nat /\ o \in Int
    BY RequestFacts
  <2>2. /\ Post(Row("Table Buy Out", "none", a), Row("Debit", "none", o), Nothing)
        /\ Becomes(h, Idle) /\ limit' = limit /\ seated' = FALSE
    BY <1>9 DEF ExitCommit, Done, facility
  <2> HIDE DEF a, o
  <2>3. line' = line + 0 + (-o) + 0
    BY <2>1, <2>2, RowWorthOut, NothingIsNothing DEF Post
  <2>4. line' <= line
    BY <1>1, <2>1, <2>3
  <2>5. Idle.pc \notin Locking
    BY DEF Idle, Locking
  <2> QED
    BY <1>1, <2>2, <2>4, <2>5, QuietMove DEF Safe
<1> QED
  BY <1>3, <1>4, <1>6, <1>7, <1>8, <1>9 DEF BuyOutStep

LEMMA CreditStepSafe ==
  ASSUME FacilityInv, TypeInv', NEW h \in Handlers, CreditStep(h)
  PROVE  Safe
<1> USE DEF FacilityInv
<1>1. line \in Int /\ line' \in Int
  BY DEF TypeInv, TypeOK
<1>2. ASSUME NEW r, Becomes(h, r), r.pc \notin Locking,
             line' = line, limit' = limit, seated' = seated
      PROVE  Safe
  BY <1>1, <1>2, QuietMove DEF Safe
<1>3. ASSUME NEW c \in Credits, NEW l \in Limits \cup {credit[c].amount},
             ApproveCredit(h, c, l)
      PROVE  Safe
  <2> DEFINE r == [Idle EXCEPT !.op = "approveCredit", !.pc = "creditCommit",
                    !.id = c, !.amount = l,
                    !.draw = IF seated THEN Lesser(credit[c].amount, l) ELSE 0]
  <2>1. /\ Becomes(h, r) /\ ~PlayerLocked
        /\ line' = line /\ limit' = limit /\ seated' = seated
    BY <1>3 DEF ApproveCredit, ledger, facility
  <2>2. r.pc = "creditCommit"
    BY DEF Idle
  <2> HIDE DEF r
  <2>3. r \in Request
    BY <2>1 DEF Becomes, TypeInv, TypeOK
  <2> QED
    BY <2>1, <2>2, <2>3, TakesLock DEF Safe
<1>4. CASE CreditCommit(h)
  BY <1>4, HolderEnds DEF CreditCommit, At, Locking, Safe
<1>5. ASSUME NEW op, NEW c \in Credits, NEW ent, Editing(h, op, c, ent)
      PROVE  Safe
  <2> DEFINE r == [Idle EXCEPT !.op = op, !.pc = "saveCredit", !.id = c, !.ent = ent]
  <2>1. r.pc \notin Locking
    BY DEF Idle, Locking
  <2>2. Becomes(h, r) /\ line' = line /\ limit' = limit /\ seated' = seated
    BY <1>5 DEF Editing, ledger, facility
  <2> HIDE DEF r
  <2> QED
    BY <1>2, <2>1, <2>2
<1>6. CASE SaveCredit(h)
  <2> DEFINE r == [req[h] EXCEPT !.pc = "writeCredit", !.base = credit[req[h].id]]
  <2>1. r.pc \notin Locking
    BY RequestFacts DEF Request, Locking
  <2>2. Becomes(h, r) /\ line' = line /\ limit' = limit /\ seated' = seated
    BY <1>6 DEF SaveCredit, ledger, facility
  <2> HIDE DEF r
  <2> QED
    BY <1>2, <2>1, <2>2
<1>7. CASE WriteCredit(h)
  <2>1. Idle.pc \notin Locking
    BY DEF Idle, Locking
  <2> QED
    BY <1>2, <1>7, <2>1 DEF WriteCredit, Done, ledger, facility
<1> QED
  BY <1>3, <1>4, <1>5, <1>6, <1>7 DEF CreditStep, UpdateVisibility, UpdateLimit

LEMMA DirectStepSafe ==
  ASSUME FacilityInv, TypeInv', DirectStep
  PROVE  Safe
<1> USE DEF FacilityInv
<1>1. CASE req' = req /\ line' = line /\ limit' = limit /\ (seated' => seated)
  BY <1>1 DEF OneLock, Covered, Safe
<1>2. ASSUME NEW i \in BuyIns, NEW a \in Amounts, ApproveBuyIn(i, a)
      PROVE  Safe
  <2>1. a \in Int
    BY AccountAssumption DEF AccountAssumption
  <2>5. "Club Buy In" \in CounterTypes
    BY DEF CounterTypes, AutoComplete
  <2>2. /\ Post(Row("Club Buy In", "none", a), Row("Table Buy In", "none", a), Nothing)
        /\ req' = req /\ limit' = limit /\ seated' = seated
    BY <1>2 DEF ApproveBuyIn, facility
  <2>3. line' = line + 0 + 0 + 0
    BY <2>1, <2>2, <2>5, CounterRowWorth, RowWorth, NothingIsNothing DEF Post
  <2>4. line' = line
    BY <2>3 DEF TypeInv, TypeOK
  <2> QED
    BY <1>1, <2>2, <2>4
<1>3. CASE ~PlayerLocked /\ req' = req /\ seated' = seated
  BY <1>3, Unlocked DEF Safe
<1>4. CASE UnseatPlayer
  BY <1>1, <1>4 DEF UnseatPlayer, ledger, facility
<1>5. CASE Play
  BY <1>1, <1>5 DEF Play, ledger, facility
<1>6. ASSUME NEW i \in BuyIns, RejectBuyIn(i)
      PROVE  Safe
  BY <1>1, <1>6 DEF RejectBuyIn, ledger, facility
<1>7. ASSUME NEW i \in BuyOuts, RejectBuyOut(i)
      PROVE  Safe
  BY <1>1, <1>7 DEF RejectBuyOut, ledger, facility
<1>8. ASSUME NEW c \in Credits, DenyCredit(c) \/ \E a \in Amounts : RequestCredit(c, a)
      PROVE  Safe
  BY <1>1, <1>8 DEF DenyCredit, RequestCredit, ledger, facility
<1>9. ASSUME NEW l \in Limits, EnableCredit(l) \/ UpdatePlayerCreditLimit(l)
      PROVE  Safe
  BY <1>3, <1>9 DEF EnableCredit, UpdatePlayerCreditLimit
<1>10. CASE DisableCredit
  BY <1>3, <1>10 DEF DisableCredit
<1> QED
  BY <1>2, <1>4, <1>5, <1>6, <1>7, <1>8, <1>9, <1>10 DEF DirectStep

LEMMA AbandonSafe ==
  ASSUME FacilityInv, TypeInv', NEW h \in Handlers, Abandon(h)
  PROVE  Safe
<1>1. Becomes(h, Idle) /\ line' = line /\ limit' = limit /\ seated' = seated
  BY DEF Abandon, Done, ledger, facility
<1>2. Idle.pc \notin Locking
  BY DEF Idle, Locking
<1>3. line' \in Int /\ line' <= line
  BY <1>1 DEF FacilityInv, TypeInv, TypeOK
<1> QED
  BY <1>1, <1>2, <1>3, QuietMove DEF Safe

LEMMA FacilityInit == Init => FacilityInv
BY TypeInit, IdleType DEF Init, FacilityInv, OneLock, Covered, Locking

\* One step: the facts are kept, and whoever sits down is covered.
LEMMA FacilityStep ==
  ASSUME FacilityInv, [Next]_vars
  PROVE  FacilityInv' /\ (~seated /\ seated' /\ line' > line => line' <= limit)
<1>1. TypeInv'
  BY TypeStep DEF FacilityInv
<1>2. CASE Safe
  BY <1>1, <1>2 DEF Safe, FacilityInv
<1>3. ASSUME NEW h \in Handlers, SeatCommit(h)
      PROVE  FacilityInv' /\ (~seated /\ seated' /\ line' > line => line' <= limit)
  BY <1>1, <1>3, SeatCommitSafe DEF FacilityInv
<1>4. CASE DirectStep
  BY <1>1, <1>2, <1>4, DirectStepSafe
<1>5. ASSUME NEW h \in Handlers,
             CashierStep(h) \/ AssignSeat(h) \/ BuyInStep(h) \/ BuyOutStep(h)
               \/ CreditStep(h) \/ Abandon(h)
      PROVE  Safe
  BY <1>1, <1>5, CashierStepSafe, AssignSeatSafe, BuyInStepSafe, BuyOutStepSafe,
     CreditStepSafe, AbandonSafe
<1>6. CASE UNCHANGED vars
  BY <1>2, <1>6 DEF vars, ledger, facility, FacilityInv, OneLock, Covered, Safe
<1> QED
  BY <1>2, <1>3, <1>4, <1>5, <1>6 DEF Next, SeatStep

\* assignSeat draws credit on the strength of what it read before it posts;
\* the player's lock is what keeps approvals, other joins and changes of the
\* limit out, so the line is never taken past the limit by joining a table,
\* even with buy-outs, the cashier and unlocked saves in between.
THEOREM JoiningIsCovered == Spec => JoinWithinFacility
<1>1. FacilityInv /\ [Next]_vars => FacilityInv'
  BY FacilityStep
<1>2. FacilityInv /\ [Next]_vars =>
        [~seated /\ seated' /\ line' > line => line' <= limit]_vars
  BY FacilityStep
<1> QED
  BY FacilityInit, <1>1, <1>2, PTL DEF Spec, JoinWithinFacility

-----------------------------------------------------------------------------
(* Decisions on credit requests.                                           *)

Editor(h) == req[h].pc \in {"saveCredit", "writeCredit"}

\* The request about to be approved is open, and an edit leaves the status as it
\* is: it loaded, and read again, the one the row has.
Own(h) ==
  LET r == req[h] IN
  /\ r.pc = "creditCommit" => r.id \in Credits /\ Pending(credit, r.id)
  /\ Editor(h) =>
       /\ r.id \in Credits /\ credit[r.id].status # "unused" /\ r.ent.status = credit[r.id].status
       /\ r.pc = "writeCredit" => r.base.status = credit[r.id].status

CreditInv == FacilityInv /\ OpenRequestHeld /\ \A h \in Handlers : Own(h)

\* An edit under way is one of an approved request.
EditsApproved(h) == Editor(h) => credit[req[h].id].status = "Approved"

Same(c) == credit'[c].status = credit[c].status

\* What a step of the requests in S may do: nothing to any status, unless it
\* locks credit while none is open; open one while none is; or decide one that
\* no other request holds.
Effect(S) ==
  /\ \A g \in Handlers \ S : req'[g] = req[g]
  /\ \/ /\ \A c \in Credits : Same(c)
        /\ enabled' = enabled \/ enabled' \/ NonePending(credit)
     \/ \E c \in Credits :
          /\ enabled /\ enabled' = enabled /\ NonePending(credit)
          /\ credit[c].status = "unused" /\ credit'[c].status = "Pending"
          /\ \A d \in Credits \ {c} : Same(d)
     \/ \E c \in Credits :
          /\ enabled' = enabled /\ Pending(credit, c)
          /\ credit'[c].status \in {"Approved", "Denied"}
          /\ \A d \in Credits \ {c} : Same(d)
          /\ \A g \in Handlers \ S : At(g, "creditCommit") => req[g].id # c

Final == \A c \in Credits : credit[c].status \in {"Approved", "Denied"} => Same(c)

LEMMA EffectKeeps ==
  ASSUME CreditInv, FacilityInv', NEW S \in SUBSET Handlers, Effect(S),
         \A h \in S : Own(h)', \A g \in Handlers \ S : EditsApproved(g)
  PROVE  CreditInv' /\ Final
<1>1. DOMAIN credit = Credits /\ DOMAIN credit' = Credits
  BY DEF CreditInv, FacilityInv, TypeInv, TypeOK
<1>2. Final
  BY DEF Effect, Final, Same, Pending
<1>3. OpenRequestHeld'
  <2>1. CASE (\A c \in Credits : Same(c)) /\ (enabled' = enabled \/ enabled' \/ NonePending(credit))
    BY <1>1, <2>1 DEF CreditInv, OpenRequestHeld, Same, Pending, NonePending
  <2>2. ASSUME NEW c \in Credits, enabled, enabled' = enabled, NonePending(credit),
               \A d \in Credits \ {c} : Same(d)
        PROVE  OpenRequestHeld'
    BY <1>1, <2>2 DEF OpenRequestHeld, Same, Pending, NonePending
  <2>3. ASSUME NEW c \in Credits, enabled' = enabled, credit'[c].status \in {"Approved", "Denied"},
               \A d \in Credits \ {c} : Same(d)
        PROVE  OpenRequestHeld'
    <3>1. \A d \in Credits : Pending(credit, d)' => Pending(credit, d)
      BY <2>3 DEF Same, Pending
    <3> QED
      BY <1>1, <2>3, <3>1 DEF CreditInv, OpenRequestHeld, NonePending
  <2> QED
    BY <2>1, <2>2, <2>3 DEF Effect
<1>4. ASSUME NEW g \in Handlers \ S
      PROVE  Own(g)'
  <2>1. req'[g] = req[g] /\ Own(g) /\ EditsApproved(g)
    BY DEF Effect, CreditInv
  <2>2. ASSUME Editor(g)
        PROVE  Same(req[g].id)
    BY <1>2, <2>1, <2>2 DEF Own, EditsApproved, Final
  <2>3. ASSUME At(g, "creditCommit")
        PROVE  req[g].id \in Credits /\ Pending(credit, req[g].id)'
    <3>1. req[g].id \in Credits /\ Pending(credit, req[g].id)
      BY <2>1, <2>3 DEF Own, At
    <3> QED
      BY <2>1, <2>3, <3>1 DEF Effect, Same, Pending
  <2> QED
    BY <2>1, <2>2, <2>3 DEF Own, Editor, Same, At
<1> QED
  BY <1>2, <1>3, <1>4 DEF CreditInv

\* A request that has nothing to do with credit requests.
LEMMA PlainEffect ==
  ASSUME TypeInv, NEW h \in Handlers, NEW r, Becomes(h, r), credit' = credit, enabled' = enabled,
         r.pc \notin {"creditCommit", "saveCredit", "writeCredit"}
  PROVE  Effect({h}) /\ Own(h)' /\ ~Editor(h)'
BY DEF TypeInv, TypeOK, Becomes, Effect, Same, Own, Editor

LEMMA PlainSteps ==
  ASSUME TypeInv, NEW h \in Handlers,
         CashierStep(h) \/ SeatStep(h) \/ BuyInStep(h) \/ BuyOutStep(h) \/ Abandon(h)
  PROVE  Effect({h}) /\ Own(h)' /\ ~Editor(h)'
<1> DEFINE other == {"creditCommit", "saveCredit", "writeCredit"}
<1>1. credit' = credit /\ enabled' = enabled
  BY Zenon DEF CashierStep, CreateTransaction, ReadWallet, PostRepay, SeatStep, AssignSeat, SeatCommit,
     BuyInStep, PlayerTableBuyInRequest, InsertBuyIn, BuyOutStep, StartCallTime, InsertBuyOut,
     ApproveBuyOut, Counting, ManualBuyOut, SettleTable, ReadOwed, ExitCommit, Abandon,
     requests, facility
<1>2. Idle.pc \notin other
  BY DEF Idle
<1>3. req[h] \in Request /\ req \in [Handlers -> Request]
  BY DEF TypeInv, TypeOK
<1>4. \E r : Becomes(h, r) /\ r.pc \notin other
  <2>1. ASSUME NEW type, NEW a, CreateTransaction(h, type, a)
        PROVE  \E r : Becomes(h, r) /\ r.pc \notin other
    <3> DEFINE r == [Idle EXCEPT !.op = "createTransaction", !.pc = "readWallet", !.amount = a]
    <3>1. (r.pc \notin other /\ Becomes(h, r)) \/ (req' = req /\ req[h].pc = "idle")
      BY <2>1 DEF CreateTransaction, Free, Idle
    <3>2. req' = req => Becomes(h, req[h])
      BY <1>3 DEF Becomes
    <3> HIDE DEF r
    <3> QED
      BY <3>1, <3>2
  <2>2. CASE ReadWallet(h)
    <3>1. \A n : [req[h] EXCEPT !.pc = "postRepay", !.owed = n].pc \notin other
      BY <1>3 DEF Request
    <3> QED
      BY <1>2, <2>2, <3>1 DEF ReadWallet, Done
  <2>3. CASE PostRepay(h) \/ SeatCommit(h) \/ InsertBuyIn(h) \/ InsertBuyOut(h) \/ ExitCommit(h) \/ Abandon(h)
    BY <1>2, <2>3 DEF PostRepay, SeatCommit, InsertBuyIn, InsertBuyOut, ExitCommit, Abandon, Done
  <2>4. CASE AssignSeat(h)
    <3>1. \A a, d : [Idle EXCEPT !.op = "assignSeat", !.pc = "seatCommit", !.amount = a, !.draw = d].pc
             \notin other
      BY DEF Idle
    <3> QED
      BY <2>4, <3>1 DEF AssignSeat
  <2>5. ASSUME NEW a, PlayerTableBuyInRequest(h, a)
        PROVE  \E r : Becomes(h, r) /\ r.pc \notin other
    <3>1. [Idle EXCEPT !.op = "buyInRequest", !.pc = "insertBuyIn", !.amount = a].pc \notin other
      BY DEF Idle
    <3> QED
      BY <2>5, <3>1 DEF PlayerTableBuyInRequest
  <2>6. CASE StartCallTime(h)
    <3>1. \A a : [Idle EXCEPT !.op = "startCallTime", !.pc = "insertBuyOut", !.amount = a].pc \notin other
      BY DEF Idle
    <3> QED
      BY <2>6, <3>1 DEF StartCallTime
  <2>7. ASSUME NEW op, NEW pc \in {"exitCommit", "readOwed"}, NEW i, NEW a, NEW o,
               Counting(h, op, pc, i, a, o)
        PROVE  \E r : Becomes(h, r) /\ r.pc \notin other
    <3>1. [Idle EXCEPT !.op = op, !.pc = pc, !.id = i, !.amount = a, !.owed = o, !.counted = felt].pc
             \notin other
      BY DEF Idle
    <3> QED
      BY <2>7, <3>1 DEF Counting
  <2>8. CASE ReadOwed(h)
    <3>1. [req[h] EXCEPT !.pc = "exitCommit", !.owed = Owed].pc \notin other
      BY <1>3 DEF Request
    <3> QED
      BY <2>8, <3>1 DEF ReadOwed
  <2> HIDE DEF other
  <2> QED
    BY <2>1, <2>2, <2>3, <2>4, <2>5, <2>6, <2>7, <2>8
       DEF CashierStep, SeatStep, BuyInStep, BuyOutStep, ApproveBuyOut, ManualBuyOut, SettleTable
<1> QED
  BY <1>1, <1>4, PlainEffect

LEMMA CreditEffects ==
  ASSUME CreditInv, NEW h \in Handlers, CreditStep(h)
  PROVE  Effect({h}) /\ Own(h)'
<1>1. /\ req \in [Handlers -> Request] /\ credit \in [Credits -> CreditRequest] /\ Own(h)
      /\ TypeInv
  BY DEF CreditInv, FacilityInv, TypeInv, TypeOK
<1>2. ASSUME credit' = credit, enabled' = enabled, NEW r, Becomes(h, r)
      PROVE  Effect({h}) /\ req'[h] = r
  BY <1>1, <1>2 DEF Effect, Same, Becomes
<1>3. ASSUME NEW c \in Credits, NEW l, ApproveCredit(h, c, l)
      PROVE  Effect({h}) /\ Own(h)'
  <2> DEFINE r == [Idle EXCEPT !.op = "approveCredit", !.pc = "creditCommit", !.id = c, !.amount = l,
                               !.draw = IF seated THEN Lesser(credit[c].amount, l) ELSE 0]
  <2>1. /\ Becomes(h, r) /\ Pending(credit, c) /\ credit' = credit /\ enabled' = enabled
    BY <1>3 DEF ApproveCredit, requests, facility
  <2>2. r.pc = "creditCommit" /\ r.id = c
    BY DEF Idle
  <2> HIDE DEF r
  <2>3. Effect({h}) /\ req'[h] = r
    BY <1>2, <2>1
  <2> QED
    BY <2>1, <2>2, <2>3 DEF Own, Editor, Pending
<1>4. ASSUME CreditCommit(h), NEW c, c = req[h].id
      PROVE  Effect({h}) /\ Own(h)'
  <2>1. c \in Credits /\ Pending(credit, c)
    BY <1>1, <1>4 DEF CreditCommit, At, Own
  <2>2. /\ req' = [req EXCEPT ![h] = Idle] /\ enabled' = enabled
        /\ credit' = [d \in Credits |->
             IF d = c THEN [credit[d] EXCEPT !.status = "Approved", !.limit = req[h].amount,
                                             !.visible = TRUE]
             ELSE credit[d]]
    BY <1>4 DEF CreditCommit, Done, Becomes, facility
  <2>3. credit'[c].status = "Approved" /\ \A d \in Credits \ {c} : Same(d)
    BY <1>1, <2>1, <2>2 DEF CreditRequest, Same
  <2>4. \A g \in Handlers \ {h} : ~At(g, "creditCommit")
    BY <1>4 DEF CreditCommit, At, CreditInv, FacilityInv, OneLock, Locking
  <2>5. req'[h] = Idle /\ \A g \in Handlers \ {h} : req'[g] = req[g]
    BY <1>1, <2>2
  <2>6. Effect({h})
    BY <2>1, <2>2, <2>3, <2>4, <2>5 DEF Effect
  <2> QED
    BY <2>5, <2>6 DEF Own, Editor, Idle
<1>5. ASSUME NEW op, NEW c \in Credits, NEW ent, ent.status = credit[c].status, Editing(h, op, c, ent)
      PROVE  Effect({h}) /\ Own(h)'
  <2> DEFINE r == [Idle EXCEPT !.op = op, !.pc = "saveCredit", !.id = c, !.ent = ent]
  <2>1. Becomes(h, r) /\ credit[c].status # "unused" /\ credit' = credit /\ enabled' = enabled
    BY <1>5 DEF Editing, requests, facility
  <2>2. r.pc = "saveCredit" /\ r.id = c /\ r.ent = ent
    BY DEF Idle
  <2> HIDE DEF r
  <2>3. Effect({h}) /\ req'[h] = r
    BY <1>2, <2>1
  <2> QED
    BY <1>5, <2>1, <2>2, <2>3 DEF Own, Editor
<1>6. ASSUME NEW c \in Credits
      PROVE  /\ \A v : [credit[c] EXCEPT !.visible = v].status = credit[c].status
             /\ \A l : [credit[c] EXCEPT !.limit = l].status = credit[c].status
  BY <1>1 DEF CreditRequest
<1>7. CASE SaveCredit(h)
  <2> DEFINE r == [req[h] EXCEPT !.pc = "writeCredit", !.base = credit[req[h].id]]
  <2>1. Becomes(h, r) /\ credit' = credit /\ enabled' = enabled /\ req[h].pc = "saveCredit"
    BY <1>7 DEF SaveCredit, At, requests, facility
  <2>2. /\ r.pc = "writeCredit" /\ r.id = req[h].id /\ r.ent = req[h].ent
        /\ r.base = credit[req[h].id]
    BY <1>1 DEF Request
  <2> HIDE DEF r
  <2>3. Effect({h}) /\ req'[h] = r
    BY <1>2, <2>1
  <2> QED
    BY <1>1, <2>1, <2>2, <2>3 DEF Own, Editor
<1>8. CASE WriteCredit(h)
  <2> DEFINE c == req[h].id
             m == Merged(credit[c], req[h].base, req[h].ent)
  <2>1. c \in Credits /\ req[h].ent.status = credit[c].status /\ req[h].base.status = credit[c].status
    BY <1>1, <1>8 DEF WriteCredit, At, Own, Editor
  <2>2. credit' = [credit EXCEPT ![c] = m] /\ req' = [req EXCEPT ![h] = Idle] /\ enabled' = enabled
    BY <1>8 DEF WriteCredit, Done, Becomes, facility
  <2>3. m.status = credit[c].status
    BY <2>1 DEF Merged, Changed
  <2> HIDE DEF m
  <2>4. \A d \in Credits : Same(d)
    BY <1>1, <2>1, <2>2, <2>3 DEF Same
  <2>5. req'[h] = Idle /\ \A g \in Handlers \ {h} : req'[g] = req[g]
    BY <1>1, <2>2
  <2> QED
    BY <2>2, <2>4, <2>5 DEF Effect, Own, Editor, Idle
<1> QED
  BY <1>3, <1>4, <1>5, <1>6, <1>7, <1>8 DEF CreditStep, UpdateVisibility, UpdateLimit

LEMMA DirectEffects ==
  ASSUME CreditInv, DirectStep
  PROVE  Effect({})
<1>1. credit \in [Credits -> CreditRequest]
  BY DEF CreditInv, FacilityInv, TypeInv, TypeOK
<1>2. req' = req
  BY Zenon DEF DirectStep, UnseatPlayer, Play, ApproveBuyIn, RejectBuyIn, RejectBuyOut, RequestCredit,
     DenyCredit, EnableCredit, UpdatePlayerCreditLimit, DisableCredit
<1>3. CASE credit' = credit /\ (enabled' = enabled \/ enabled' \/ NonePending(credit))
  BY <1>2, <1>3 DEF Effect, Same
<1>4. ASSUME NEW c \in Credits, NEW a, RequestCredit(c, a)
      PROVE  Effect({})
  <2>1. /\ enabled /\ enabled' = enabled /\ NonePending(credit) /\ credit[c].status = "unused"
        /\ credit' = [credit EXCEPT ![c] =
                        [status |-> "Pending", amount |-> a, limit |-> a, visible |-> TRUE]]
    BY <1>4 DEF RequestCredit, facility
  <2>2. credit'[c].status = "Pending" /\ \A d \in Credits \ {c} : Same(d)
    BY <1>1, <2>1 DEF Same
  <2> QED
    BY <1>2, <2>1, <2>2 DEF Effect
<1>5. ASSUME NEW c \in Credits, DenyCredit(c)
      PROVE  Effect({})
  <2> DEFINE row == [credit[c] EXCEPT !.status = "Denied", !.limit = 0, !.visible = TRUE]
  <2>1. enabled' = enabled /\ Pending(credit, c) /\ ~CreditLocked(c)
    BY <1>5 DEF DenyCredit, facility
  <2>2. credit' = [credit EXCEPT ![c] = row]
    BY <1>1, <1>5 DEF DenyCredit
  <2>3. row.status = "Denied"
    BY <1>1 DEF CreditRequest
  <2> HIDE DEF row
  <2>4. credit'[c].status = "Denied" /\ \A d \in Credits \ {c} : Same(d)
    BY <1>1, <2>2, <2>3 DEF Same
  <2>5. \A g \in Handlers : At(g, "creditCommit") => req[g].id # c
    BY <2>1 DEF CreditLocked
  <2> QED
    BY <1>2, <2>1, <2>4, <2>5 DEF Effect
<1>6. CASE UnseatPlayer \/ Play \/ DisableCredit
  BY <1>3, <1>6 DEF UnseatPlayer, Play, DisableCredit, requests, facility
<1>7. ASSUME NEW i, NEW a, RejectBuyIn(i) \/ ApproveBuyIn(i, a) \/ RejectBuyOut(i)
      PROVE  Effect({})
  BY <1>3, <1>7 DEF RejectBuyIn, ApproveBuyIn, RejectBuyOut, facility
<1>8. ASSUME NEW l, EnableCredit(l) \/ UpdatePlayerCreditLimit(l)
      PROVE  Effect({})
  BY <1>3, <1>8 DEF EnableCredit, UpdatePlayerCreditLimit, requests
<1> QED
  BY <1>4, <1>5, <1>6, <1>7, <1>8 DEF DirectStep

LEMMA CreditInit == Init => CreditInv
<1> SUFFICES ASSUME Init
             PROVE  CreditInv
  OBVIOUS
<1>1. \A h \in Handlers : Own(h)
  BY IdleType DEF Init, Own, Editor
<1>2. OpenRequestHeld
  BY DEF Init, OpenRequestHeld, NonePending, Pending, NoCredit
<1> QED
  BY <1>1, <1>2, FacilityInit DEF CreditInv

\* One step, if the edits of other requests are of approved requests.
LEMMA StepKept ==
  ASSUME CreditInv, NEW h \in Handlers,
         CashierStep(h) \/ SeatStep(h) \/ BuyInStep(h) \/ BuyOutStep(h) \/ CreditStep(h) \/ Abandon(h),
         \A g \in Handlers \ {h} : EditsApproved(g)
  PROVE  CreditInv' /\ Final
<1>1. FacilityInv'
  BY FacilityStep DEF CreditInv, Next
<1>2. Effect({h}) /\ Own(h)'
  BY PlainSteps, CreditEffects DEF CreditInv, FacilityInv
<1> QED
  BY <1>1, <1>2, EffectKeeps

LEMMA CreditStutters ==
  ASSUME CreditInv, UNCHANGED vars
  PROVE  CreditInv' /\ Final
<1>1. FacilityInv'
  BY FacilityStep DEF CreditInv
<1> QED
  BY <1>1 DEF vars, requests, facility, CreditInv, OpenRequestHeld, NonePending, Pending, Own,
     Editor, Final, Same

LEMMA CreditKept ==
  ASSUME CreditInv, [Next]_vars, \A g \in Handlers : EditsApproved(g)
  PROVE  CreditInv' /\ Final
<1>1. CASE DirectStep
  <2>1. FacilityInv'
    BY FacilityStep DEF CreditInv
  <2> QED
    BY <1>1, <2>1, DirectEffects, EffectKeeps
<1> QED
  BY <1>1, StepKept, CreditStutters DEF Next

\* An updateVisibility under way shows in its slot.
LEMMA HidesAreSeen ==
  ASSUME req \in [Handlers -> Request], NEW h \in Handlers, NEW c, NEW v, UpdateVisibility(h, c, v)
  PROVE  req'[h].op = "updateVisibility"
<1> DEFINE r == [Idle EXCEPT !.op = "updateVisibility", !.pc = "saveCredit", !.id = c,
                             !.ent = [credit[c] EXCEPT !.visible = v]]
<1>1. Becomes(h, r)
  BY DEF UpdateVisibility, Editing
<1>2. r.op = "updateVisibility"
  BY DEF Idle
<1> HIDE DEF r
<1> QED
  BY <1>1, <1>2 DEF Becomes

\* Limits are only edited on approved requests, and those stay approved.
LEMMA EditsStayApproved ==
  ASSUME CreditInv, CreditInv', [Next]_vars, Final, \A h \in Handlers : EditsApproved(h),
         \A h \in Handlers, c \in Credits, v \in BOOLEAN : ~UpdateVisibility(h, c, v)
  PROVE  \A h \in Handlers : EditsApproved(h)'
<1>1. /\ req \in [Handlers -> Request] /\ TypeInv
      /\ \A g \in Handlers : Own(g) /\ Own(g)'
  BY DEF CreditInv, FacilityInv, TypeInv, TypeOK
<1>2. ASSUME NEW g \in Handlers, req'[g].id = req[g].id, Editor(g)
      PROVE  EditsApproved(g)'
  BY <1>1, <1>2 DEF Final, Same, EditsApproved, Own
<1>3. ASSUME NEW g \in Handlers, req'[g] = req[g]
      PROVE  EditsApproved(g)'
  <2>1. CASE Editor(g)
    BY <1>2, <1>3, <2>1
  <2> QED
    BY <1>3, <2>1 DEF EditsApproved, Editor
<1>4. CASE DirectStep
  BY <1>3, <1>4, DirectEffects DEF Effect
<1>5. CASE UNCHANGED vars
  BY <1>3, <1>5 DEF vars
<1>6. ASSUME NEW h \in Handlers,
             CashierStep(h) \/ SeatStep(h) \/ BuyInStep(h) \/ BuyOutStep(h) \/ CreditStep(h) \/ Abandon(h)
      PROVE  \A g \in Handlers : EditsApproved(g)'
  <2>1. Effect({h})
    BY <1>1, <1>6, PlainSteps, CreditEffects
  <2>2. \A g \in Handlers \ {h} : EditsApproved(g)'
    BY <1>3, <2>1 DEF Effect
  <2>3. CASE req'[h].pc \notin {"saveCredit", "writeCredit"}
    BY <2>2, <2>3 DEF EditsApproved, Editor
  <2>4. CASE CashierStep(h) \/ SeatStep(h) \/ BuyInStep(h) \/ BuyOutStep(h) \/ Abandon(h)
    BY <1>1, <2>3, <2>4, PlainSteps DEF Editor
  <2>5. ASSUME NEW c \in Credits, NEW l, ApproveCredit(h, c, l)
        PROVE  req'[h].pc \notin {"saveCredit", "writeCredit"}
    <3> DEFINE r == [Idle EXCEPT !.op = "approveCredit", !.pc = "creditCommit", !.id = c, !.amount = l,
                                 !.draw = IF seated THEN Lesser(credit[c].amount, l) ELSE 0]
    <3>1. Becomes(h, r)
      BY <2>5 DEF ApproveCredit
    <3>2. r.pc = "creditCommit"
      BY DEF Idle
    <3> HIDE DEF r
    <3> QED
      BY <1>1, <3>1, <3>2 DEF Becomes
  <2>6. CASE CreditCommit(h) \/ WriteCredit(h)
    <3>1. Becomes(h, Idle)
      BY <2>6 DEF CreditCommit, WriteCredit, Done
    <3> QED
      BY <1>1, <2>3, <3>1 DEF Becomes, Idle
  <2>7. ASSUME NEW c \in Credits, NEW l, UpdateLimit(h, c, l)
        PROVE  EditsApproved(h)'
    <3> DEFINE ent == [credit[c] EXCEPT !.limit = l]
               r   == [Idle EXCEPT !.op = "updateLimit", !.pc = "saveCredit", !.id = c, !.ent = ent]
    <3>1. Becomes(h, r) /\ credit[c].status = "Approved" /\ credit' = credit
      BY <2>7 DEF UpdateLimit, Editing, requests
    <3>2. r.id = c
      BY DEF Idle
    <3> HIDE DEF r
    <3> QED
      BY <1>1, <3>1, <3>2 DEF Becomes, EditsApproved
  <2>8. CASE SaveCredit(h)
    <3> DEFINE r == [req[h] EXCEPT !.pc = "writeCredit", !.base = credit[req[h].id]]
    <3>1. Becomes(h, r) /\ req[h].pc = "saveCredit"
      BY <2>8 DEF SaveCredit, At
    <3>2. r.id = req[h].id
      BY <1>1 DEF Request
    <3> HIDE DEF r
    <3>3. req'[h].id = req[h].id
      BY <1>1, <3>1, <3>2 DEF Becomes
    <3> QED
      BY <1>2, <2>2, <3>1, <3>3 DEF Editor
  <2> QED
    BY <1>6, <2>2, <2>3, <2>4, <2>5, <2>6, <2>7, <2>8 DEF CreditStep
<1> QED
  BY <1>4, <1>5, <1>6 DEF Next

\* Where nobody changes whether a request is shown, any number at once.
EditInv == CreditInv /\ \A h \in Handlers : EditsApproved(h)

LEMMA EditStep ==
  ASSUME EditInv, [Next]_vars,
         \A h \in Handlers, c \in Credits, v \in BOOLEAN : ~UpdateVisibility(h, c, v)
  PROVE  EditInv' /\ Final
<1>1. CreditInv' /\ Final
  BY CreditKept DEF EditInv
<1> QED
  BY <1>1, EditsStayApproved DEF EditInv

LEMMA EditInit == Init => EditInv
BY CreditInit, IdleType DEF Init, EditInv, EditsApproved, Editor

LEMMA NoUpdateVisibility ==
  ASSUME "updateVisibility" \notin Ops
  PROVE  \A h \in Handlers, c \in Credits, v \in BOOLEAN : ~UpdateVisibility(h, c, v)
BY DEF UpdateVisibility, Editing, Free

\* create and disable-credit test for an open request under the player's lock,
\* so however requests overlap there is at most one, and none once credit is
\* locked; updateVisibility, which saves a row it loaded before, is left out.
THEOREM OneOpenRequest ==
  ASSUME "updateVisibility" \notin Ops
  PROVE  Spec => []OpenRequestHeld
<1>1. EditInv /\ [Next]_vars => EditInv'
  BY NoUpdateVisibility, EditStep
<1>2. EditInv => OpenRequestHeld
  BY DEF EditInv, CreditInv
<1> QED
  BY EditInit, <1>1, <1>2, PTL DEF Spec

\* approve, deny and updateLimit leave a decision as it is.
THEOREM DecisionsAreFinal ==
  ASSUME "updateVisibility" \notin Ops
  PROVE  Spec => CreditDecisionFinal
<1>1. EditInv /\ [Next]_vars => EditInv'
  BY NoUpdateVisibility, EditStep
<1>2. EditInv /\ [Next]_vars =>
        [\A c \in Credits : credit[c].status \in {"Approved", "Denied"} =>
           credit'[c].status = credit[c].status]_vars
  BY NoUpdateVisibility, EditStep DEF Final, Same
<1> QED
  BY EditInit, <1>1, <1>2, PTL DEF Spec, CreditDecisionFinal

\* In turn updateVisibility does no harm: nobody decides between its load and
\* its save.
ModeInv ==
  /\ mode \in Modes
  /\ CreditInv
  /\ mode = "credit" => \A h \in Handlers : EditsApproved(h)

LEMMA ModeStep ==
  ASSUME Modes \subseteq {"in turn", "credit"}, ModeInv, [MCNext]_<<vars, mode>>
  PROVE  ModeInv' /\ Final
<1>1. [Next]_vars
  BY DEF MCNext, Next
<1>2. mode' = mode /\ mode \in {"in turn", "credit"}
  BY DEF MCNext, ModeInv
<1>3. ASSUME mode = "in turn"
      PROVE  CreditInv' /\ Final
  <2>1. CASE UNCHANGED <<vars, mode>>
    BY <1>1, <2>1, CreditStutters DEF ModeInv
  <2>2. \A g \in Handlers : At(g, "idle") => EditsApproved(g)
    BY DEF At, EditsApproved, Editor
  <2>3. CASE Turn(Handlers) /\ DirectStep
    <3>1. \A g \in Handlers : EditsApproved(g)
      BY <1>3, <2>2, <2>3 DEF Turn
    <3> QED
      BY <1>1, <3>1, CreditKept DEF ModeInv
  <2>4. ASSUME NEW h \in Handlers, Turn(Handlers \ {h}),
               CashierStep(h) \/ SeatStep(h) \/ BuyInStep(h) \/ BuyOutStep(h) \/ CreditStep(h) \/ Abandon(h)
        PROVE  CreditInv' /\ Final
    BY <1>3, <2>2, <2>4, StepKept DEF Turn, ModeInv
  <2> QED
    BY <2>1, <2>3, <2>4 DEF MCNext
<1>4. ASSUME mode = "credit"
      PROVE  EditInv' /\ Final
  <2>1. EditInv
    BY <1>4 DEF ModeInv, EditInv
  <2>2. \A h \in Handlers, c \in Credits, v \in BOOLEAN : ~(UpdateVisibility(h, c, v) /\ InMode')
    BY <1>2, <1>4, HidesAreSeen DEF InMode, ModeInv, CreditInv, FacilityInv, TypeInv, TypeOK
  <2>3. CASE UNCHANGED <<vars, mode>>
    BY <2>1, <2>3, CreditStutters DEF EditInv, EditsApproved, Editor, vars, requests
  <2>4. CASE MCNext
    BY <1>1, <2>1, <2>2, <2>4, EditStep DEF MCNext
  <2> QED
    BY <2>3, <2>4
<1> QED
  BY <1>2, <1>3, <1>4 DEF ModeInv, EditInv

LEMMA ModeInit == MCInit => ModeInv
BY EditInit DEF MCInit, ModeInv, EditInv

\* What the runs check: with updateVisibility in turn, without it at once.
THEOREM OneOpenRequestInModes ==
  ASSUME Modes \subseteq {"in turn", "credit"}
  PROVE  MCSpec => []OpenRequestHeld
<1>1. ModeInv /\ [MCNext]_<<vars, mode>> => ModeInv'
  BY ModeStep
<1>2. ModeInv => OpenRequestHeld
  BY DEF ModeInv, CreditInv
<1> QED
  BY ModeInit, <1>1, <1>2, PTL DEF MCSpec

THEOREM DecisionsAreFinalInModes ==
  ASSUME Modes \subseteq {"in turn", "credit"}
  PROVE  MCSpec => CreditDecisionFinal
<1>1. ModeInv /\ [MCNext]_<<vars, mode>> => ModeInv'
  BY ModeStep
<1>2. ModeInv /\ [MCNext]_<<vars, mode>> =>
        [\A c \in Credits : credit[c].status \in {"Approved", "Denied"} =>
           credit'[c].status = credit[c].status]_vars
  BY ModeStep DEF Final, Same
<1> QED
  BY ModeInit, <1>1, <1>2, PTL DEF MCSpec, CreditDecisionFinal
-----------------------------------------------------------------------------
(* Paying credit back, one request at a time.                              *)

\* A way out under way pays back no more than is owed.
LineOwn(h) ==
  /\ req[h].pc \notin {"readWallet", "postRepay"}
  /\ req[h].pc = "exitCommit" => req[h].owed <= line

LineInv ==
  /\ TypeInv
  /\ mode = "in turn" => line >= 0 /\ \A h \in Handlers : LineOwn(h)

\* The slots in S have moved; the others are left alone.
Moved(S) == line' >= 0 /\ (\A h \in S : LineOwn(h)') /\ \A g \in Handlers \ S : req'[g] = req[g]

LEMMA IdleOwn ==
  ASSUME NEW h \in Handlers, req[h].pc = "idle"
  PROVE  LineOwn(h)
BY DEF LineOwn

LEMMA LineBegins ==
  ASSUME TypeInv, NEW h \in Handlers, NEW r, Becomes(h, r), line' \in Int, line' >= 0,
         r.pc \notin {"readWallet", "postRepay", "exitCommit"}
  PROVE  Moved({h})
BY DEF TypeInv, TypeOK, Becomes, Moved, LineOwn

\* What is read as owed is what the line says.
LEMMA OwedOwn ==
  ASSUME TypeInv, line >= 0, NEW h \in Handlers, NEW r, Becomes(h, r), line' = line,
         r.pc \in {"exitCommit", "readOwed"},
         r.pc = "exitCommit" => r.owed = Owed
  PROVE  Moved({h})
<1>1. Owed = line /\ line \in Int
  BY DEF Owed, NotNegative, TypeInv, TypeOK
<1> QED
  BY <1>1 DEF TypeInv, TypeOK, Becomes, Moved, LineOwn

LEMMA ExitOwn ==
  ASSUME TypeInv, line >= 0, NEW h \in Handlers, LineOwn(h), BuyOutStep(h)
  PROVE  Moved({h})
<1>1. line \in Int
  BY DEF TypeInv, TypeOK
<1>2. CASE StartCallTime(h)
  <2> DEFINE r == [Idle EXCEPT !.op = "startCallTime", !.pc = "insertBuyOut",
                               !.amount = NotNegative(book)]
  <2>1. r.pc \notin {"readWallet", "postRepay", "exitCommit"}
    BY DEF Idle
  <2>2. Becomes(h, r) /\ line' = line
    BY <1>2 DEF StartCallTime, ledger
  <2> HIDE DEF r
  <2> QED
    BY <1>1, <2>1, <2>2, LineBegins
<1>3. CASE InsertBuyOut(h)
  <2>1. Idle.pc \notin {"readWallet", "postRepay", "exitCommit"}
    BY DEF Idle
  <2>2. Becomes(h, Idle) /\ line' = line
    BY <1>3 DEF InsertBuyOut, Done, ledger
  <2> QED
    BY <1>1, <2>1, <2>2, LineBegins
<1>4. ASSUME NEW op, NEW pc \in {"exitCommit", "readOwed"}, NEW i, NEW a, NEW o,
             pc = "exitCommit" => o = Owed, Counting(h, op, pc, i, a, o)
      PROVE  Moved({h})
  <2> DEFINE r == [Idle EXCEPT !.op = op, !.pc = pc, !.id = i, !.amount = a,
                               !.owed = o, !.counted = felt]
  <2>1. r.pc = pc /\ r.owed = o
    BY DEF Idle
  <2>2. Becomes(h, r) /\ line' = line
    BY <1>4 DEF Counting, ledger
  <2> HIDE DEF r
  <2> QED
    BY <1>4, <2>1, <2>2, OwedOwn
<1>5. ASSUME NEW i \in BuyOuts, ApproveBuyOut(h, i)
      PROVE  Moved({h})
  BY <1>4, <1>5 DEF ApproveBuyOut
<1>6. CASE ManualBuyOut(h) \/ SettleTable(h)
  BY <1>4, <1>6 DEF ManualBuyOut, SettleTable
<1>7. CASE ReadOwed(h)
  <2> DEFINE r == [req[h] EXCEPT !.pc = "exitCommit", !.owed = Owed]
  <2>1. r.pc = "exitCommit" /\ r.owed = Owed
    BY RequestFacts DEF Request
  <2>2. Becomes(h, r) /\ line' = line
    BY <1>7 DEF ReadOwed, ledger
  <2> HIDE DEF r
  <2> QED
    BY <2>1, <2>2, OwedOwn
<1>8. CASE ExitCommit(h)
  <2> DEFINE a == req[h].amount
             o == req[h].owed
  <2>1. a \in Int /\ o \in Int
    BY RequestFacts
  <2>2. o <= line
    BY <1>8 DEF ExitCommit, At, LineOwn
  <2>3. Post(Row("Table Buy Out", "none", a), Row("Debit", "none", o), Nothing) /\ Becomes(h, Idle)
    BY <1>8 DEF ExitCommit, Done
  <2> HIDE DEF a, o
  <2>4. line' = line + 0 + (-o) + 0
    BY <2>1, <2>3, RowWorthOut, NothingIsNothing DEF Post
  <2>5. line' \in Int /\ line' >= 0
    BY <1>1, <2>1, <2>2, <2>4
  <2>6. Idle.pc \notin {"readWallet", "postRepay", "exitCommit"}
    BY DEF Idle
  <2> QED
    BY <2>3, <2>5, <2>6, LineBegins
<1> QED
  BY <1>2, <1>3, <1>5, <1>6, <1>7, <1>8 DEF BuyOutStep

\* Joining a table and an approved request draw; nothing else moves the line.
LEMMA DrawsOwn ==
  ASSUME TypeInv, line >= 0, NEW h \in Handlers,
         SeatStep(h) \/ BuyInStep(h) \/ CreditStep(h) \/ Abandon(h)
  PROVE  Moved({h})
<1> DEFINE apart == {"readWallet", "postRepay", "exitCommit"}
<1>1. line \in Int
  BY DEF TypeInv, TypeOK
<1>2. ASSUME NEW r, Becomes(h, r), r.pc \notin apart, line' = line
      PROVE  Moved({h})
  BY <1>1, <1>2, LineBegins
<1>3. Idle.pc \notin apart
  BY DEF Idle
<1>4. CASE AssignSeat(h)
  <2> DEFINE r == [Idle EXCEPT !.op = "assignSeat", !.pc = "seatCommit",
                               !.amount = NotNegative(cash), !.draw = DrawOnJoin(cash)]
  <2>1. r.pc \notin apart
    BY DEF Idle
  <2>2. Becomes(h, r) /\ line' = line
    BY <1>4 DEF AssignSeat, ledger
  <2> HIDE DEF r, apart
  <2> QED
    BY <1>2, <2>1, <2>2
<1>5. ASSUME SeatCommit(h) \/ CreditCommit(h)
      PROVE  Moved({h})
  <2> DEFINE d == req[h].draw
  <2>1. d \in Int /\ d >= 0
    BY RequestFacts
  <2>2. /\ Becomes(h, Idle)
        /\ \/ line' = line + CreditEffect(Row("Credit", "none", d))
           \/ Post(Row("Credit", "none", d), Row("Table Buy In", "pair", d), Nothing)
    BY <1>5 DEF SeatCommit, CreditCommit, Done
  <2> HIDE DEF d
  <2>3. line' = line + d \/ line' = line + d + 0 + 0
    BY <2>1, <2>2, RowWorth, NothingIsNothing DEF Post
  <2>4. line' \in Int /\ line' >= 0
    BY <1>1, <2>1, <2>3
  <2> QED
    BY <1>3, <2>2, <2>4, LineBegins
<1>6. ASSUME NEW a, PlayerTableBuyInRequest(h, a)
      PROVE  Moved({h})
  <2> DEFINE r == [Idle EXCEPT !.op = "buyInRequest", !.pc = "insertBuyIn", !.amount = a]
  <2>1. r.pc \notin apart
    BY DEF Idle
  <2>2. Becomes(h, r) /\ line' = line
    BY <1>6 DEF PlayerTableBuyInRequest, ledger
  <2> HIDE DEF r, apart
  <2> QED
    BY <1>2, <2>1, <2>2
<1>7. CASE InsertBuyIn(h) \/ WriteCredit(h) \/ Abandon(h)
  <2>1. Becomes(h, Idle) /\ line' = line
    BY <1>7 DEF InsertBuyIn, WriteCredit, Abandon, Done, ledger
  <2> QED
    BY <1>2, <1>3, <2>1
<1>8. ASSUME NEW c \in Credits, NEW l, ApproveCredit(h, c, l)
      PROVE  Moved({h})
  <2> DEFINE r == [Idle EXCEPT !.op = "approveCredit", !.pc = "creditCommit", !.id = c, !.amount = l,
                               !.draw = IF seated THEN Lesser(credit[c].amount, l) ELSE 0]
  <2>1. r.pc \notin apart
    BY DEF Idle
  <2>2. Becomes(h, r) /\ line' = line
    BY <1>8 DEF ApproveCredit, ledger
  <2> HIDE DEF r, apart
  <2> QED
    BY <1>2, <2>1, <2>2
<1>9. ASSUME NEW op, NEW c, NEW ent, Editing(h, op, c, ent)
      PROVE  Moved({h})
  <2> DEFINE r == [Idle EXCEPT !.op = op, !.pc = "saveCredit", !.id = c, !.ent = ent]
  <2>1. r.pc \notin apart
    BY DEF Idle
  <2>2. Becomes(h, r) /\ line' = line
    BY <1>9 DEF Editing, ledger
  <2> HIDE DEF r, apart
  <2> QED
    BY <1>2, <2>1, <2>2
<1>10. CASE SaveCredit(h)
  <2> DEFINE r == [req[h] EXCEPT !.pc = "writeCredit", !.base = credit[req[h].id]]
  <2>1. r.pc \notin apart
    BY RequestFacts DEF Request
  <2>2. Becomes(h, r) /\ line' = line
    BY <1>10 DEF SaveCredit, ledger
  <2> HIDE DEF r, apart
  <2> QED
    BY <1>2, <2>1, <2>2
<1> QED
  BY <1>4, <1>5, <1>6, <1>7, <1>8, <1>9, <1>10
     DEF SeatStep, BuyInStep, CreditStep, UpdateVisibility, UpdateLimit

LEMMA DirectLine ==
  ASSUME TypeInv, DirectStep
  PROVE  line' = line /\ req' = req
<1>1. ASSUME NEW i \in BuyIns, NEW a \in Amounts, ApproveBuyIn(i, a)
      PROVE  line' = line /\ req' = req
  <2>1. a \in Int
    BY AccountAssumption DEF AccountAssumption
  <2>2. "Club Buy In" \in CounterTypes
    BY DEF CounterTypes, AutoComplete
  <2>3. Post(Row("Club Buy In", "none", a), Row("Table Buy In", "none", a), Nothing) /\ req' = req
    BY <1>1 DEF ApproveBuyIn
  <2>4. line' = line + 0 + 0 + 0
    BY <2>1, <2>2, <2>3, CounterRowWorth, RowWorth, NothingIsNothing DEF Post
  <2>5. line' = line
    BY <2>4 DEF TypeInv, TypeOK
  <2> QED
    BY <2>3, <2>5
<1>2. ASSUME \A i \in BuyIns, a \in Amounts : ~ApproveBuyIn(i, a)
      PROVE  line' = line /\ req' = req
  BY <1>2, Zenon DEF DirectStep, UnseatPlayer, Play, RejectBuyIn, RejectBuyOut, RequestCredit,
     DenyCredit, EnableCredit, UpdatePlayerCreditLimit, DisableCredit, ledger
<1> QED
  BY <1>1, <1>2

LEMMA LineStep ==
  ASSUME "createTransaction" \notin Ops, LineInv, [MCNext]_<<vars, mode>>
  PROVE  LineInv'
<1>1. [Next]_vars /\ mode' = mode
  BY DEF MCNext, Next
<1>2. TypeInv'
  BY <1>1, TypeStep DEF LineInv
<1>3. SUFFICES ASSUME mode = "in turn"
               PROVE  line' >= 0 /\ \A h \in Handlers : LineOwn(h)'
  BY <1>1, <1>2 DEF LineInv
<1>4. TypeInv /\ line >= 0 /\ \A h \in Handlers : LineOwn(h)
  BY <1>3 DEF LineInv
<1>5. CASE line' = line /\ req' = req
  BY <1>4, <1>5 DEF LineOwn
<1>6. CASE DirectStep
  BY <1>4, <1>5, <1>6, DirectLine
<1>7. ASSUME NEW h \in Handlers, Turn(Handlers \ {h}),
             CashierStep(h) \/ SeatStep(h) \/ BuyInStep(h) \/ BuyOutStep(h)
               \/ CreditStep(h) \/ Abandon(h)
      PROVE  line' >= 0 /\ \A g \in Handlers : LineOwn(g)'
  <2>1. ~CashierStep(h)
    BY <1>4 DEF CashierStep, CreateTransaction, ReadWallet, PostRepay, Free, At, LineOwn
  <2>2. Moved({h})
    BY <1>4, <1>7, <2>1, ExitOwn, DrawsOwn
  <2>3. \A g \in Handlers \ {h} : req'[g] = req[g] /\ req[g].pc = "idle"
    BY <1>3, <1>7, <2>2 DEF Moved, Turn, At
  <2> QED
    BY <2>2, <2>3 DEF Moved, LineOwn
<1>8. CASE UNCHANGED <<vars, mode>>
  BY <1>5, <1>8 DEF vars, ledger
<1> QED
  BY <1>6, <1>7, <1>8 DEF MCNext

\* "Debit the FULL credit amount owed": one request at a time, every way out
\* pays back what is owed when it posts, so the player is never owed credit.
\* The cashier's own postings, which repay at any time, are left out.
THEOREM ExitsPayNoMoreThanOwed ==
  ASSUME "createTransaction" \notin Ops
  PROVE  MCSpec => []LineInTurn
<1>1. MCInit => LineInv
  <2> SUFFICES ASSUME Init
               PROVE  LineInv
    BY DEF MCInit
  <2>1. line = 0 /\ \A h \in Handlers : req[h].pc = "idle"
    BY IdleType DEF Init
  <2>2. line >= 0
    BY <2>1
  <2> QED
    BY <2>1, <2>2, TypeInit, IdleOwn DEF LineInv
<1>2. LineInv /\ [MCNext]_<<vars, mode>> => LineInv'
  BY LineStep
<1>3. LineInv => LineInTurn
  BY DEF LineInv, LineInTurn, LineNotNegative
<1> QED
  BY <1>1, <1>2, <1>3, PTL DEF MCSpec
=============================================================================
