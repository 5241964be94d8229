------------------------ MODULE TournamentDesk_proofs ------------------------
(***************************************************************************)
(* Theorems about TournamentDesk and its instance with modes.  Of the      *)
(* specification itself: TypeCorrect, PrizesHandedOutOnce and CountKept    *)
(* (when nobody cancels).  Of MCTournamentDesk's modes:                    *)
(* CountKeptInModes, StakesStayInTurn and RegistrationsAreAdmitted.        *)
(*                                                                         *)
(* Held(r) says what a request may carry at each of its steps.  The mode   *)
(* theorems share one inductive invariant: in turn, the one request under  *)
(* way still believes what is true, so that its remaining step writes what *)
(* the rows it read call for; at once, the count follows the registrations *)
(* because each is written together with its row.                          *)
(***************************************************************************)
EXTENDS MCTournamentDesk, FiniteSetTheorems, TLAPS

-----------------------------------------------------------------------------
(* Types.                                                                  *)

\* A request about one player knows which one, an edit holds columns of the
\* table, and an exit a balance.
Held(r) ==
  /\ r.pc \in {"funds", "register", "cancel", "enroll", "exit", "rebuy"}
       => \E p \in Players : r.who = {p}
  /\ r.pc = "edit" => r.seen.status \in {"scheduled", "active", "completed"}
  /\ r.pc \in {"enroll", "exit"} => r.amount \in Nat

IInv == TypeOK /\ \A h \in Handlers : Held(req[h])

\* What the rows the desk posts are worth.
LEMMA Worth ==
  ASSUME NEW a \in Int
  PROVE  /\ WalletEffect(Row("Register", "none", a)) = -a
         /\ WalletEffect(Row("Refund", "none", a)) = a
         /\ WalletEffect(Row("Tournament Win", "none", a)) = a
         /\ WalletEffect(Row("Withdrawal", "none", a)) = -a
         /\ WalletEffect(Row("Buy In", "none", a)) = -a
         /\ WalletEffect(Row("Debit", "none", a)) = -a
         /\ WalletEffect(Row("Credit", "none", a)) = 0
         /\ CreditEffect(Row("Register", "none", a)) = 0
         /\ CreditEffect(Row("Refund", "none", a)) = 0
         /\ CreditEffect(Row("Withdrawal", "none", a)) = 0
         /\ CreditEffect(Row("Buy In", "none", a)) = 0
         /\ CreditEffect(Row("Debit", "none", a)) = -a
         /\ CreditEffect(Row("Credit", "none", a)) = a
BY DEF WalletEffect, CreditEffect, Row, Deposits, Outgoings, IsPair, IsTableBuyIn

LEMMA InitTypes == Init => IInv
BY DeskAssumption DEF Init, IInv, TypeOK, Tournament, Statuses, Unborn, Seat, NoSeat, Request, Idle,
   Held, PC, Kinds

\* A request that knows its player has one.
LEMMA TheIsAPlayer ==
  ASSUME IInv, NEW h \in Handlers,
         req[h].pc \in {"funds", "register", "cancel", "enroll", "exit", "rebuy"}
  PROVE  The(h) \in Players /\ req[h].who = {The(h)}
<1>1. PICK p \in Players : req[h].who = {p}
  BY DEF IInv, Held
<1>2. The(h) = p
  BY <1>1 DEF The
<1> QED
  BY <1>1, <1>2

LEMMA UnbornType ==
  Unborn \in Tournament /\ [Unborn EXCEPT !.status = "deleted"] \in Tournament
BY DEF Unborn, Tournament, Statuses

LEMMA LoadTypes ==
  ASSUME IInv, NEW h \in Handlers, NEW pc \in PC, NEW who \in SUBSET Players, NEW amount \in Int,
         NEW kind \in Kinds, pc # "edit",
         Load(h, pc, who, amount, kind),
         Held([pc |-> pc, who |-> who, seen |-> t, amount |-> amount, kind |-> kind,
               cols |-> {}])
  PROVE  IInv'
<1> DEFINE r == [pc |-> pc, who |-> who, seen |-> t, amount |-> amount, kind |-> kind,
              cols |-> {}]
<1>1. r \in Request /\ Held(r)
  BY DEF IInv, TypeOK, Request
<1>2. req' = [req EXCEPT ![h] = r] /\ UNCHANGED <<t, reg, tp, money, ends>>
  BY DEF Load, Becomes
<1> QED
  BY <1>1, <1>2, Zenon DEF IInv, TypeOK, money

\* A request that is over, or goes on with what it holds, keeps the types.
LEMMA MovesOn ==
  ASSUME IInv, NEW h \in Handlers, NEW r \in Request, Held(r), Becomes(h, r),
         t' \in Tournament, reg' \in SUBSET Players, tp' \in [Players -> Seat],
         wallet' \in [Players -> Int], line' \in [Players -> Int],
         charged' \in [Players -> Nat], refunded' \in [Players -> Nat], ends' \in Nat
  PROVE  IInv'
<1>1. req' = [req EXCEPT ![h] = r]
  BY DEF Becomes
<1>2. req' \in [Handlers -> Request]
  BY <1>1 DEF IInv, TypeOK
<1>3. \A g \in Handlers : Held(req'[g])
  BY <1>1 DEF IInv, TypeOK
<1> QED
  BY <1>2, <1>3, Zenon DEF IInv, TypeOK

LEMMA IdleHeld == Idle \in Request /\ Held(Idle)
BY DEF Idle, Request, PC, Kinds, Held, Unborn, Tournament, Statuses

LEMMA Constants ==
  /\ Limit \in Nat /\ Fund \in Nat /\ Prize \in Nat
  /\ MaxCharges \in Nat /\ MaxEnds \in Nat
BY DeskAssumption

LEMMA WorthNothing == WalletEffect(Nothing) = 0 /\ CreditEffect(Nothing) = 0
BY DEF WalletEffect, CreditEffect, Nothing, Row, Deposits, Outgoings, IsPair, IsTableBuyIn

\* What each posting does to the accounts of the player.
LEMMA PostedRegister ==
  ASSUME IInv, NEW p \in Players, NEW a \in Int, NEW b \in Int,
         Post(p, Row("Register", "none", a), Row("Credit", "none", b))
  PROVE  /\ wallet' = [wallet EXCEPT ![p] = wallet[p] - a]
         /\ line' = [line EXCEPT ![p] = line[p] + b]
<1>1. wallet \in [Players -> Int] /\ line \in [Players -> Int]
  BY DEF IInv, TypeOK
<1>2. /\ WalletEffect(Row("Register", "none", a)) = (-a) /\ WalletEffect(Row("Credit", "none", b)) = 0
      /\ CreditEffect(Row("Register", "none", a)) = 0 /\ CreditEffect(Row("Credit", "none", b)) = b
  BY Worth
<1>3. /\ wallet' = [wallet EXCEPT ![p] = wallet[p] + (-a) + 0]
      /\ line' = [line EXCEPT ![p] = line[p] + 0 + b]
  BY <1>2, Zenon DEF Post
<1>4. wallet[p] + (-a) + 0 = wallet[p] - a /\ line[p] + 0 + b = line[p] + b
  BY <1>1
<1> QED
  BY <1>1, <1>3, <1>4

LEMMA PostedRefund ==
  ASSUME IInv, NEW p \in Players, NEW a \in Int,
         Post(p, Row("Refund", "none", a), Nothing)
  PROVE  /\ wallet' = [wallet EXCEPT ![p] = wallet[p] + a]
         /\ line' = line
<1>1. wallet \in [Players -> Int] /\ line \in [Players -> Int]
  BY DEF IInv, TypeOK
<1>2. /\ WalletEffect(Row("Refund", "none", a)) = a /\ WalletEffect(Nothing) = 0
      /\ CreditEffect(Row("Refund", "none", a)) = 0 /\ CreditEffect(Nothing) = 0
  BY Worth, WorthNothing, Zenon
<1>3. /\ wallet' = [wallet EXCEPT ![p] = wallet[p] + a + 0]
      /\ line' = [line EXCEPT ![p] = line[p] + 0 + 0]
  BY <1>2, Zenon DEF Post
<1>4. wallet[p] + a + 0 = wallet[p] + a /\ line[p] + 0 + 0 = line[p]
  BY <1>1
<1> QED
  BY <1>1, <1>3, <1>4

LEMMA Paying == \A w, l, a \in Int : w + (-a) + 0 = w - a /\ l + 0 + 0 = l
OBVIOUS

LEMMA PostedBuyIn ==
  ASSUME IInv, NEW p \in Players, NEW a \in Int,
         Post(p, Row("Buy In", "none", a), Nothing)
  PROVE  /\ wallet' = [wallet EXCEPT ![p] = wallet[p] - a]
         /\ line' = line
<1>1. wallet \in [Players -> Int] /\ line \in [Players -> Int]
  BY DEF IInv, TypeOK
<1>2. /\ WalletEffect(Row("Buy In", "none", a)) = (-a) /\ WalletEffect(Nothing) = 0
      /\ CreditEffect(Row("Buy In", "none", a)) = 0 /\ CreditEffect(Nothing) = 0
  BY Worth, WorthNothing, Zenon
<1>3. /\ wallet' = [wallet EXCEPT ![p] = wallet[p] + (-a) + 0]
      /\ line' = [line EXCEPT ![p] = line[p] + 0 + 0]
  BY <1>2, Zenon DEF Post
<1>4. wallet[p] \in Int /\ line[p] \in Int
  BY <1>1, Zenon
<1>5. wallet[p] + (-a) + 0 = wallet[p] - a /\ line[p] + 0 + 0 = line[p]
  BY <1>4, Paying, Zenon
<1>6. line = [line EXCEPT ![p] = line[p]]
  BY <1>1, Zenon
<1> QED
  BY <1>3, <1>5, <1>6, Zenon

LEMMA PostedTopUp ==
  ASSUME IInv, NEW p \in Players, NEW a \in Int, NEW b \in Int,
         Post(p, Row("Refund", "none", a), Row("Debit", "none", b))
  PROVE  /\ wallet' = [wallet EXCEPT ![p] = wallet[p] + a - b]
         /\ line' = [line EXCEPT ![p] = line[p] - b]
<1>1. wallet \in [Players -> Int] /\ line \in [Players -> Int]
  BY DEF IInv, TypeOK
<1>2. /\ WalletEffect(Row("Refund", "none", a)) = a /\ WalletEffect(Row("Debit", "none", b)) = (-b)
      /\ CreditEffect(Row("Refund", "none", a)) = 0 /\ CreditEffect(Row("Debit", "none", b)) = (-b)
  BY Worth
<1>3. /\ wallet' = [wallet EXCEPT ![p] = wallet[p] + a + (-b)]
      /\ line' = [line EXCEPT ![p] = line[p] + 0 + (-b)]
  BY <1>2, Zenon DEF Post
<1>4. wallet[p] + a + (-b) = wallet[p] + a - b /\ line[p] + 0 + (-b) = line[p] - b
  BY <1>1
<1> QED
  BY <1>1, <1>3, <1>4

LEMMA PostedPayOut ==
  ASSUME IInv, NEW p \in Players, NEW a \in Int, NEW b \in Int,
         Post(p, Row("Withdrawal", "none", a), Row("Debit", "none", b))
  PROVE  /\ wallet' = [wallet EXCEPT ![p] = wallet[p] - a - b]
         /\ line' = [line EXCEPT ![p] = line[p] - b]
<1>1. wallet \in [Players -> Int] /\ line \in [Players -> Int]
  BY DEF IInv, TypeOK
<1>2. /\ WalletEffect(Row("Withdrawal", "none", a)) = (-a) /\ WalletEffect(Row("Debit", "none", b)) = (-b)
      /\ CreditEffect(Row("Withdrawal", "none", a)) = 0 /\ CreditEffect(Row("Debit", "none", b)) = (-b)
  BY Worth
<1>3. /\ wallet' = [wallet EXCEPT ![p] = wallet[p] + (-a) + (-b)]
      /\ line' = [line EXCEPT ![p] = line[p] + 0 + (-b)]
  BY <1>2, Zenon DEF Post
<1>4. wallet[p] + (-a) + (-b) = wallet[p] - a - b /\ line[p] + 0 + (-b) = line[p] - b
  BY <1>1
<1> QED
  BY <1>1, <1>3, <1>4

LEMMA EnrolledType ==
  ASSUME NEW seat \in Seat, NEW n \in Nat
  PROVE  Enrolled(seat, n) \in Seat
BY DEF Enrolled, Seat

\* The row a request has loaded.
LEMMA SeenTypes ==
  ASSUME IInv, NEW h \in Handlers
  PROVE  /\ req[h] \in Request /\ req[h].seen \in Tournament /\ BuyInOf(h) \in Nat
         /\ BuyInRequired(req[h].seen) \in Nat /\ req[h].seen.fee \in Nat
         /\ Required(req[h].seen) \in Nat
         /\ req[h].amount \in Int /\ req[h].who \in SUBSET Players
BY DEF IInv, TypeOK, Request, Tournament, BuyInOf, BuyInRequired, Required

\* The steps in which a request only reads.
Loading(h) ==
  \/ \E p \in Players : RegisterForTournament(h, p) \/ CancelRegistration(h, p)
  \/ \E cols \in SUBSET Columns : \E new \in Edits(cols) : UpdateTournament(h, cols, new)
  \/ StartTournament(h) \/ StopTournament(h) \/ DeleteTournament(h)
  \/ \E w \in SUBSET Players : EndTournament(h, w)
  \/ \E p \in Players, b \in ExitBalances : ExitTournamentPlayer(h, p, b)
  \/ \E p \in Players, k \in RebuyTypes : RebuyTournamentPlayer(h, p, k)

\* What an edit can ask for is a row of the table.
LEMMA EditTypes ==
  ASSUME t \in Tournament, Exists, NEW cols \in SUBSET Columns, NEW new \in Edits(cols)
  PROVE  new \in Tournament /\ new.status \in {"scheduled", "active", "completed"}
<1>1. /\ new = [status |-> new.status, game |-> new.game, buyIn |-> new.buyIn, fee |-> new.fee,
                size |-> new.size, late |-> new.late, count |-> new.count, ran |-> new.ran]
      /\ new.status \in EditStatuses \cup {t.status} /\ new.game \in Games \cup {t.game}
      /\ new.buyIn \in BuyIns \cup {t.buyIn} /\ new.fee \in Fees \cup {t.fee}
      /\ new.size \in Sizes \cup {t.size} /\ new.late \in Lates \cup {t.late}
      /\ new.count = t.count /\ new.ran = t.ran
  BY DEF Edits
<1> QED
  BY <1>1, DeskAssumption DEF Tournament, Statuses, Exists

\* The row an edit leaves behind.
LEMMA PatchTypes ==
  ASSUME t \in Tournament, NEW new \in Tournament, NEW cols
  PROVE  /\ Patched(t, new, cols) \in Tournament
         /\ Patched(t, new, cols).count = t.count
         /\ Patched(t, new, cols).status \in {t.status, new.status}
BY DEF Patched, Tournament

LEMMA LoadingTypes ==
  ASSUME IInv, NEW h \in Handlers, Loading(h)
  PROVE  IInv'
<1>1. ASSUME NEW p \in Players, RegisterForTournament(h, p)
      PROVE  IInv'
  BY <1>1, LoadTypes DEF Kinds, RegisterForTournament, PC, Held
<1>2. ASSUME NEW p \in Players, CancelRegistration(h, p)
      PROVE  IInv'
  BY <1>2, LoadTypes DEF Kinds, CancelRegistration, PC, Held
<1>3. ASSUME NEW cols \in SUBSET Columns, NEW new \in Edits(cols),
             UpdateTournament(h, cols, new)
      PROVE  IInv'
  <2> DEFINE r == [pc |-> "edit", who |-> {}, seen |-> new, amount |-> 0, kind |-> "none",
                    cols |-> cols]
  <2>1. t \in Tournament /\ Exists /\ req' = [req EXCEPT ![h] = r]
        /\ UNCHANGED <<t, reg, tp, money, ends>>
    BY <1>3 DEF UpdateTournament, Becomes, IInv, TypeOK
  <2>2. new \in Tournament /\ new.status \in {"scheduled", "active", "completed"}
    BY <2>1, EditTypes
  <2>3. r \in Request /\ Held(r)
    BY <2>2 DEF Request, PC, Kinds, Held
  <2> HIDE DEF r
  <2> QED
    BY <2>1, <2>3, Zenon DEF IInv, TypeOK, money
<1>4. CASE StartTournament(h)
  BY <1>4, LoadTypes DEF Kinds, StartTournament, PC, Held
<1>5. CASE StopTournament(h)
  BY <1>5, LoadTypes DEF Kinds, StopTournament, PC, Held
<1>6. CASE DeleteTournament(h)
  BY <1>6, LoadTypes DEF Kinds, DeleteTournament, PC, Held
<1>7. ASSUME NEW w \in SUBSET Players, EndTournament(h, w)
      PROVE  IInv'
  BY <1>7, LoadTypes DEF Kinds, EndTournament, PC, Held
<1>8. ASSUME NEW p \in Players, NEW b \in ExitBalances, ExitTournamentPlayer(h, p, b)
      PROVE  IInv'
  <2>1. b \in Nat /\ b \in Int
    BY DeskAssumption
  <2> QED
    BY <1>8, <2>1, LoadTypes DEF Kinds, ExitTournamentPlayer, LoadSeat, PC, Held
<1>9. ASSUME NEW p \in Players, NEW k \in RebuyTypes, RebuyTournamentPlayer(h, p, k)
      PROVE  IInv'
  BY <1>9, LoadTypes DEF Kinds, RebuyTournamentPlayer, LoadSeat, PC, Held
<1> QED
  BY <1>1, <1>2, <1>3, <1>4, <1>5, <1>6, <1>7, <1>8, <1>9 DEF Loading

\* Every step of Next, the loading ones under one name.
LEMMA Steps ==
  ASSUME Next
  PROVE  \/ Minute
         \/ \E h \in Handlers :
              \/ Loading(h) \/ RegisterFunds(h) \/ RegisterTx(h) \/ CancelTx(h)
              \/ \E new \in NewTournaments : CreateTournament(h, new)
              \/ UpdateTx(h) \/ StartTx(h) \/ StopStatus(h) \/ StopPlayers(h)
              \/ EndTx(h) \/ DeleteTx(h) \/ Enroll(h) \/ ExitTx(h) \/ RebuyTx(h)
BY Zenon DEF Next, PlayerStep, DeskStep, SeatStep, Loading

LEMMA LoadingReads ==
  ASSUME NEW h \in Handlers, Loading(h)
  PROVE  UNCHANGED <<t, reg, tp, money, ends>>
BY Zenon DEF Loading, RegisterForTournament, CancelRegistration, UpdateTournament, StartTournament,
   StopTournament, DeleteTournament, EndTournament, ExitTournamentPlayer,
   RebuyTournamentPlayer, LoadSeat, Load

LEMMA RegisterFundsTypes ==
  ASSUME IInv, NEW h \in Handlers, RegisterFunds(h)
  PROVE  IInv'
<1> DEFINE r == [req[h] EXCEPT !.pc = "register", !.amount = wallet[The(h)]]
<1>1. The(h) \in Players /\ req[h].who = {The(h)}
  BY TheIsAPlayer DEF RegisterFunds, At
<1>2. r \in Request /\ Held(r)
  BY <1>1, SeenTypes DEF IInv, TypeOK, Request, PC, Held
<1>3. Becomes(h, r) \/ Becomes(h, Idle)
  BY DEF RegisterFunds, Done
<1>4. UNCHANGED <<t, reg, tp, wallet, line, charged, refunded, ends>>
  BY DEF RegisterFunds, money
<1> HIDE DEF r
<1> QED
  BY <1>2, <1>3, <1>4, MovesOn, IdleHeld DEF IInv, TypeOK

\* What a registration that goes through does.
LEMMA RegisterBooks ==
  ASSUME IInv, NEW h \in Handlers, RegisterTx(h), The(h) \notin reg, Exists
  PROVE  LET p == The(h)
             buyIn == BuyInRequired(req[h].seen)
             part == Lesser(Required(req[h].seen), req[h].amount)
             drawn == Required(req[h].seen) - part
         IN  /\ p \in Players /\ buyIn \in Nat /\ part \in Int /\ drawn \in Int
             /\ reg' = reg \cup {p} /\ t' = [t EXCEPT !.count = t.count + 1]
             /\ tp' = IF IsLate(h) THEN [tp EXCEPT ![p] = Enrolled(tp[p], buyIn)] ELSE tp
             /\ wallet' = [wallet EXCEPT ![p] = wallet[p] - part]
             /\ line' = [line EXCEPT ![p] = line[p] + drawn]
             /\ charged' = [charged EXCEPT ![p] = charged[p] + buyIn]
<1> DEFINE p == The(h)
           buyIn == BuyInRequired(req[h].seen)
           part == Lesser(Required(req[h].seen), req[h].amount)
           drawn == Required(req[h].seen) - part
<1>1. p \in Players
  BY TheIsAPlayer DEF RegisterTx, At
<1>2. buyIn \in Nat /\ Required(req[h].seen) \in Nat /\ part \in Int
  BY SeenTypes DEF Lesser
<1>3. drawn \in Int
  <2> HIDE DEF buyIn, part
  <2> QED
    BY <1>2
<1>4. /\ reg' = reg \cup {p} /\ t' = [t EXCEPT !.count = t.count + 1]
      /\ tp' = IF IsLate(h) THEN [tp EXCEPT ![p] = Enrolled(tp[p], buyIn)] ELSE tp
      /\ charged' = [charged EXCEPT ![p] = charged[p] + buyIn]
  BY DEF RegisterTx, NewCount
<1>5. Post(p, Row("Register", "none", part), Row("Credit", "none", drawn))
  BY DEF RegisterTx, WalletPart
<1>6. /\ wallet' = [wallet EXCEPT ![p] = wallet[p] - part]
      /\ line' = [line EXCEPT ![p] = line[p] + drawn]
  <2> HIDE DEF p, part, drawn
  <2> QED
    BY <1>1, <1>2, <1>3, <1>5, PostedRegister
<1> QED
  BY <1>1, <1>2, <1>3, <1>4, <1>6

LEMMA RegisterTxTypes ==
  ASSUME IInv, NEW h \in Handlers, RegisterTx(h)
  PROVE  IInv'
<1>1. UNCHANGED <<refunded, ends>> /\ Becomes(h, Idle)
  BY DEF RegisterTx, Done
<1>2. CASE The(h) \notin reg /\ Exists
  <2> DEFINE p == The(h)
             buyIn == BuyInRequired(req[h].seen)
             part == Lesser(Required(req[h].seen), req[h].amount)
             drawn == Required(req[h].seen) - part
  <2>1. /\ p \in Players /\ buyIn \in Nat /\ part \in Int /\ drawn \in Int
        /\ reg' = reg \cup {p} /\ t' = [t EXCEPT !.count = t.count + 1]
        /\ tp' = IF IsLate(h) THEN [tp EXCEPT ![p] = Enrolled(tp[p], buyIn)] ELSE tp
        /\ wallet' = [wallet EXCEPT ![p] = wallet[p] - part]
        /\ line' = [line EXCEPT ![p] = line[p] + drawn]
        /\ charged' = [charged EXCEPT ![p] = charged[p] + buyIn]
    BY <1>2, RegisterBooks
  <2> HIDE DEF p, buyIn, part, drawn
  <2>2. wallet' \in [Players -> Int] /\ line' \in [Players -> Int] /\ charged' \in [Players -> Nat]
    BY <2>1 DEF IInv, TypeOK
  <2>3. t' \in Tournament /\ reg' \in SUBSET Players
    BY <2>1 DEF IInv, TypeOK, Tournament
  <2>4. tp' \in [Players -> Seat]
    BY <2>1, EnrolledType DEF IInv, TypeOK
  <2> QED
    BY <1>1, <2>2, <2>3, <2>4, MovesOn, IdleHeld DEF IInv, TypeOK
<1>3. CASE ~(The(h) \notin reg /\ Exists)
  BY <1>1, <1>3, MovesOn, IdleHeld DEF RegisterTx, IInv, TypeOK
<1> QED
  BY <1>2, <1>3

LEMMA CancelTxTypes ==
  ASSUME IInv, NEW h \in Handlers, CancelTx(h)
  PROVE  IInv'
<1> DEFINE p == The(h)
<1>1. p \in Players /\ BuyInOf(h) \in Nat
  BY TheIsAPlayer, SeenTypes DEF CancelTx, At
<1>2. /\ t' = IF Exists THEN [t EXCEPT !.count = NotNegative(t.count - 1)] ELSE t
      /\ reg' = reg \ {p} /\ UNCHANGED <<tp, charged, ends>> /\ Becomes(h, Idle)
      /\ Post(p, Row("Refund", "none", BuyInOf(h)), Nothing)
      /\ refunded' = [refunded EXCEPT ![p] = refunded[p] + BuyInOf(h)]
  BY DEF CancelTx, Unregistered, Done
<1>3. wallet' \in [Players -> Int] /\ line' \in [Players -> Int]
  <2>1. BuyInOf(h) \in Int
    BY <1>1
  <2>2. wallet' = [wallet EXCEPT ![p] = wallet[p] + BuyInOf(h)] /\ line' = line
    BY <1>1, <1>2, <2>1, PostedRefund, Zenon
  <2> QED
    BY <1>1, <2>1, <2>2 DEF IInv, TypeOK
<1>4. t' \in Tournament
  BY <1>2 DEF NotNegative, IInv, TypeOK, Tournament
<1>5. refunded' \in [Players -> Nat]
  BY <1>1, <1>2 DEF IInv, TypeOK
<1>6. UNCHANGED <<tp, charged, ends>> /\ Becomes(h, Idle) /\ reg' \in SUBSET Players
  BY <1>2 DEF IInv, TypeOK
<1> QED
  BY <1>3, <1>4, <1>5, <1>6, MovesOn, IdleHeld DEF IInv, TypeOK

LEMMA CreateTypes ==
  ASSUME IInv, NEW h \in Handlers, NEW new \in NewTournaments, CreateTournament(h, new)
  PROVE  IInv'
<1>1. t' \in Tournament
  <2>1. new = t' /\ NewTournaments \subseteq Tournament
    <3>1. /\ {0} \subseteq Nat /\ Lates \ {0} \subseteq Nat /\ {"scheduled"} \subseteq Statuses
          /\ Games \subseteq {"poker", "rummy"} /\ BuyIns \subseteq Nat /\ Fees \subseteq Nat
          /\ Sizes \subseteq Nat
      BY DeskAssumption DEF Statuses
    <3> QED
      BY <3>1, ZenonT(30) DEF CreateTournament, NewTournaments, Tournament
  <2> QED
    BY <2>1
<1> QED
  BY <1>1, Zenon DEF CreateTournament, money, IInv, TypeOK

\* The writes that leave the accounts alone.
LEMMA PlainWriteTypes ==
  ASSUME IInv, NEW h \in Handlers,
         UpdateTx(h) \/ StartTx(h) \/ StopStatus(h) \/ StopPlayers(h) \/ Enroll(h)
  PROVE  IInv'
<1> DEFINE there == [req[h] EXCEPT !.pc = "stopPlayers"]
           exit == [req[h] EXCEPT !.pc = "exit"]
           rebuy == [req[h] EXCEPT !.pc = "rebuy"]
<1>1. UNCHANGED <<reg, wallet, line, charged, refunded, ends>>
  BY DEF UpdateTx, StartTx, StopStatus, StopPlayers, Enroll, money
<1>2. t' \in Tournament
  <2>1. CASE UpdateTx(h)
    <3>1. t \in Tournament /\ req[h].seen \in Tournament
      BY SeenTypes DEF IInv, TypeOK
    <3>2. t' = t \/ t' = Patched(t, req[h].seen, req[h].cols)
      BY <2>1 DEF UpdateTx
    <3> QED
      BY <3>1, <3>2, PatchTypes
  <2>2. CASE StartTx(h)
    <3>1. t \in Tournament /\ (t' = t \/ t' = [t EXCEPT !.status = "active", !.ran = 1])
      BY <2>2 DEF StartTx, IInv, TypeOK
    <3> QED
      <4>1. 1 \in Nat /\ "active" \in Statuses
        BY DEF Statuses
      <4> QED
        BY <3>1, <4>1, ZenonT(30) DEF Tournament
  <2>3. CASE StopStatus(h)
    BY <2>3 DEF StopStatus, IInv, TypeOK, Tournament, Statuses
  <2>4. CASE StopPlayers(h) \/ Enroll(h)
    BY <2>4 DEF StopPlayers, Enroll, IInv, TypeOK
  <2> QED
    BY <2>1, <2>2, <2>3, <2>4
<1>3. tp' \in [Players -> Seat]
  <2>1. CASE UpdateTx(h) \/ StopStatus(h)
    BY <2>1 DEF UpdateTx, StopStatus, IInv, TypeOK
  <2>4. CASE StopPlayers(h)
    <3>1. \A p \in Players : [tp[p] EXCEPT !.active = FALSE] \in Seat
      BY DEF IInv, TypeOK, Seat
    <3> QED
      BY <2>4, <3>1 DEF StopPlayers
  <2>2. CASE StartTx(h)
    <3>1. ASSUME NEW p \in Players
          PROVE  Started(tp[p], p, BuyInOf(h)) \in Seat
      <4>1. tp[p] \in Seat /\ BuyInOf(h) \in Nat
        BY SeenTypes DEF IInv, TypeOK
      <4>2. Enrolled(tp[p], BuyInOf(h)) \in Seat /\ [tp[p] EXCEPT !.exited = FALSE] \in Seat
        BY <4>1, EnrolledType DEF Seat
      <4> QED
        BY <4>2 DEF Started
    <3> QED
      BY <2>2, <3>1 DEF StartTx, IInv, TypeOK
  <2>3. CASE Enroll(h)
    <3>1. The(h) \in Players
      BY <2>3, TheIsAPlayer DEF Enroll, At
    <3>2. Enrolled(tp[The(h)], BuyInOf(h)) \in Seat
      BY <3>1, SeenTypes, EnrolledType DEF IInv, TypeOK
    <3> QED
      BY <2>3, <3>1, <3>2 DEF Enroll, IInv, TypeOK
  <2> QED
    BY <2>1, <2>2, <2>3, <2>4
<1>4. \/ Becomes(h, Idle)
      \/ StopStatus(h) /\ Becomes(h, there)
      \/ Enroll(h) /\ (Becomes(h, exit) \/ Becomes(h, rebuy))
  BY DEF UpdateTx, StartTx, StopStatus, StopPlayers, Enroll, Done, Goto
<1>5. there \in Request /\ Held(there)
  BY SeenTypes DEF Request, PC, Held
<1>6. Enroll(h) => exit \in Request /\ Held(exit) /\ rebuy \in Request /\ Held(rebuy)
  <2> SUFFICES ASSUME Enroll(h)
               PROVE  exit \in Request /\ Held(exit) /\ rebuy \in Request /\ Held(rebuy)
    OBVIOUS
  <2>1. req[h].amount \in Nat /\ (\E p \in Players : req[h].who = {p}) /\ req[h] \in Request
    BY SeenTypes DEF Enroll, At, IInv, Held
  <2> QED
    BY <2>1 DEF Request, PC, Held
<1> HIDE DEF there, exit, rebuy
<1> QED
  BY <1>1, <1>2, <1>3, <1>4, <1>5, <1>6, MovesOn, IdleHeld DEF IInv, TypeOK

LEMMA EndTxTypes ==
  ASSUME IInv, NEW h \in Handlers, EndTx(h)
  PROVE  IInv'
<1>1. t' \in Tournament
  BY DEF EndTx, IInv, TypeOK, Tournament, Statuses
<1>2. tp' \in [Players -> Seat]
  <2>1. ASSUME NEW p \in Players
        PROVE  Closed(tp[p], p, h) \in Seat
    BY DEF Closed, IInv, TypeOK, Seat
  <2>2. tp' = tp \/ tp' = [p \in Players |-> Closed(tp[p], p, h)]
    BY DEF EndTx
  <2> QED
    BY <2>1, <2>2 DEF IInv, TypeOK
<1>3. wallet' \in [Players -> Int]
  <2>1. Prize \in Int
    BY Constants
  <2>2. WalletEffect(Row("Tournament Win", "none", Prize)) = Prize
    BY <2>1, Worth, Zenon
  <2>3. \/ wallet' = wallet
        \/ wallet' = [p \in Players |-> wallet[p] + IF p \in req[h].who THEN Prize ELSE 0]
    BY <2>2 DEF EndTx
  <2> QED
    BY <2>1, <2>3 DEF IInv, TypeOK
<1>4. ends' \in Nat
  <2>1. ends' = ends \/ ends' = ends + 1
    BY DEF EndTx
  <2> QED
    BY <2>1 DEF IInv, TypeOK
<1>5. Becomes(h, Idle) /\ UNCHANGED <<reg, line, charged, refunded>>
  BY DEF EndTx, Done
<1> QED
  BY <1>1, <1>2, <1>3, <1>4, <1>5, MovesOn, IdleHeld DEF IInv, TypeOK

LEMMA DeleteTxTypes ==
  ASSUME IInv, NEW h \in Handlers, DeleteTx(h)
  PROVE  IInv'
<1> DEFINE back(p) == IF req[h].seen.status = "scheduled" /\ p \in reg THEN BuyInOf(h) ELSE 0
<1>1. ASSUME NEW p \in Players
      PROVE  back(p) \in Nat /\ WalletEffect(Row("Refund", "none", back(p))) = back(p)
  <2>1. back(p) \in Nat
    BY SeenTypes
  <2>2. back(p) \in Int
    BY <2>1
  <2> HIDE DEF back
  <2> QED
    BY <2>1, <2>2, Worth, Zenon
<1>2. /\ wallet' = [p \in Players |-> wallet[p] + WalletEffect(Row("Refund", "none", back(p)))]
      /\ refunded' = [p \in Players |-> refunded[p] + back(p)]
  BY DEF DeleteTx
<1>3. wallet' \in [Players -> Int] /\ refunded' \in [Players -> Nat]
  <2> HIDE DEF back
  <2> QED
    BY <1>1, <1>2 DEF IInv, TypeOK
<1>4. t' \in Tournament
  <2>1. t' = t \/ t' = [Unborn EXCEPT !.status = "deleted"]
    BY DEF DeleteTx
  <2> QED
    BY <2>1, UnbornType DEF IInv, TypeOK
<1>5. tp' \in [Players -> Seat] /\ reg' \in SUBSET Players
  BY DEF DeleteTx, NoSeat, Seat
<1>6. UNCHANGED <<line, charged, ends>> /\ Becomes(h, Idle)
  BY DEF DeleteTx, Done
<1> QED
  BY <1>3, <1>4, <1>5, <1>6, MovesOn, IdleHeld DEF IInv, TypeOK

\* What an exit does to the accounts: the wallet ends up at the balance entered
\* less what is taken for the credit line.
LEMMA ExitBooks ==
  ASSUME IInv, NEW h \in Handlers, ExitTx(h)
  PROVE  LET p == The(h)
             owed == Lesser(NotNegative(line[p]), req[h].amount)
         IN  /\ p \in Players /\ owed \in Int
             /\ wallet' = [wallet EXCEPT ![p] = req[h].amount - owed]
             /\ line' = [line EXCEPT ![p] = line[p] - owed]
<1> DEFINE p == The(h)
           balance == req[h].amount
           owed == Lesser(NotNegative(line[p]), balance)
           up == balance - wallet[p]
           down == wallet[p] - balance
<1>1. p \in Players /\ balance \in Int
  BY TheIsAPlayer, SeenTypes DEF ExitTx, At
<1>2. wallet[p] \in Int /\ line[p] \in Int
  BY <1>1 DEF IInv, TypeOK
<1>3. owed \in Int
  BY <1>1, <1>2 DEF Lesser, NotNegative
<1>4. up \in Int /\ down \in Int
  BY <1>1, <1>2
<1>5. \/ Post(p, Row("Refund", "none", up), Row("Debit", "none", owed))
      \/ Post(p, Row("Withdrawal", "none", down), Row("Debit", "none", owed))
  BY DEF ExitTx
<1> HIDE DEF p, balance, owed, up, down
<1>6. /\ \/ wallet' = [wallet EXCEPT ![p] = wallet[p] + up - owed]
         \/ wallet' = [wallet EXCEPT ![p] = wallet[p] - down - owed]
      /\ line' = [line EXCEPT ![p] = line[p] - owed]
  <2>1. CASE Post(p, Row("Refund", "none", up), Row("Debit", "none", owed))
    BY <1>1, <1>3, <1>4, <2>1, PostedTopUp
  <2>2. CASE Post(p, Row("Withdrawal", "none", down), Row("Debit", "none", owed))
    BY <1>1, <1>3, <1>4, <2>2, PostedPayOut
  <2> QED
    BY <1>5, <2>1, <2>2
<1>7. wallet[p] + up - owed = balance - owed /\ wallet[p] - down - owed = balance - owed
  BY <1>1, <1>2, <1>3 DEF up, down
<1> QED
  BY <1>1, <1>3, <1>6, <1>7 DEF p, balance, owed

LEMMA ExitTxTypes ==
  ASSUME IInv, NEW h \in Handlers, ExitTx(h)
  PROVE  IInv'
<1> DEFINE p == The(h)
           owed == Lesser(NotNegative(line[p]), req[h].amount)
<1>1. /\ p \in Players /\ owed \in Int /\ req[h].amount \in Int
      /\ wallet' = [wallet EXCEPT ![p] = req[h].amount - owed]
      /\ line' = [line EXCEPT ![p] = line[p] - owed]
  BY ExitBooks, SeenTypes
<1> HIDE DEF owed
<1>2. wallet' \in [Players -> Int] /\ line' \in [Players -> Int]
  BY <1>1 DEF IInv, TypeOK
<1>3. tp' = tp \/ tp' = [tp EXCEPT ![p].exited = TRUE, ![p].active = FALSE]
  BY DEF ExitTx
<1>4. tp' \in [Players -> Seat]
  <2>1. [tp[p] EXCEPT !.exited = TRUE, !.active = FALSE] \in Seat
    BY <1>1 DEF IInv, TypeOK, Seat
  <2>2. tp' = tp \/ tp' = [tp EXCEPT ![p] = [tp[p] EXCEPT !.exited = TRUE, !.active = FALSE]]
    BY <1>3
  <2> QED
    BY <1>1, <2>1, <2>2 DEF IInv, TypeOK
<1>5. UNCHANGED <<t, reg, charged, refunded, ends>> /\ Becomes(h, Idle)
  BY DEF ExitTx, Done
<1> QED
  BY <1>2, <1>4, <1>5, MovesOn, IdleHeld DEF IInv, TypeOK

\* What a rebuy does to the field and the accounts.
LEMMA RebuyBooks ==
  ASSUME IInv, NEW h \in Handlers, RebuyTx(h)
  PROVE  LET p == The(h) IN
         /\ p \in Players
         /\ wallet' = [wallet EXCEPT ![p] = wallet[p] - BuyInOf(h)] /\ line' = line
         /\ charged' = [charged EXCEPT ![p] = charged[p] + BuyInOf(h)]
         /\ \/ tp' = tp
            \/ tp' = [tp EXCEPT ![p].invested = tp[p].invested + BuyInOf(h)]
            \/ tp' = [tp EXCEPT ![p] = Enrolled(tp[p], BuyInOf(h))]
<1> DEFINE p == The(h)
<1>1. p \in Players /\ BuyInOf(h) \in Nat
  BY TheIsAPlayer, SeenTypes DEF RebuyTx, At
<1>2. BuyInOf(h) \in Int
  BY <1>1
<1>3. Post(p, Row("Buy In", "none", BuyInOf(h)), Nothing)
  BY DEF RebuyTx, RebuyAmount
<1>4. wallet' = [wallet EXCEPT ![p] = wallet[p] - BuyInOf(h)] /\ line' = line
  BY <1>1, <1>2, <1>3, PostedBuyIn, Zenon
<1> QED
  BY <1>1, <1>4 DEF RebuyTx, RebuyAmount

LEMMA RebuyTxTypes ==
  ASSUME IInv, NEW h \in Handlers, RebuyTx(h)
  PROVE  IInv'
<1> DEFINE p == The(h)
<1>1. /\ p \in Players /\ BuyInOf(h) \in Nat
      /\ wallet' = [wallet EXCEPT ![p] = wallet[p] - BuyInOf(h)] /\ line' = line
      /\ charged' = [charged EXCEPT ![p] = charged[p] + BuyInOf(h)]
  BY RebuyBooks, SeenTypes
<1>2. /\ wallet' \in [Players -> Int] /\ line' \in [Players -> Int]
      /\ charged' \in [Players -> Nat]
  BY <1>1 DEF IInv, TypeOK
<1>3. tp' \in [Players -> Seat]
  <2>1. tp[p] \in Seat
    BY <1>1 DEF IInv, TypeOK
  <2>2. /\ Enrolled(tp[p], BuyInOf(h)) \in Seat
        /\ [tp[p] EXCEPT !.invested = tp[p].invested + BuyInOf(h)] \in Seat
    BY <1>1, <2>1, EnrolledType DEF Seat
  <2>3. \/ tp' = tp
        \/ tp' = [tp EXCEPT ![p].invested = tp[p].invested + BuyInOf(h)]
        \/ tp' = [tp EXCEPT ![p] = Enrolled(tp[p], BuyInOf(h))]
    BY RebuyBooks
  <2> QED
    BY <1>1, <2>2, <2>3 DEF IInv, TypeOK
<1>4. UNCHANGED <<t, reg, refunded, ends>> /\ Becomes(h, Idle)
  BY DEF RebuyTx, Done
<1> QED
  BY <1>2, <1>3, <1>4, MovesOn, IdleHeld DEF IInv, TypeOK

LEMMA NextTypes == IInv /\ [Next]_vars => IInv'
<1> SUFFICES ASSUME IInv, [Next]_vars
             PROVE  IInv'
  OBVIOUS
<1>1. CASE Minute
  BY <1>1 DEF Minute, money, IInv, TypeOK, Tournament, Held
<1>2. CASE UNCHANGED vars
  BY <1>2 DEF vars, money, IInv, TypeOK, Held
<1> QED
  BY <1>1, <1>2, Steps, LoadingTypes, RegisterFundsTypes, RegisterTxTypes, CancelTxTypes,
     CreateTypes, PlainWriteTypes, EndTxTypes, DeleteTxTypes, ExitTxTypes, RebuyTxTypes, Zenon

\* TypeOK: the tournament's row, the registrations, the field, the accounts and
\* the requests under way keep their types, for any number of requests at once.
THEOREM TypeCorrect == Spec => []TypeOK
<1>1. IInv => TypeOK
  BY DEF IInv
<1> QED
  BY <1>1, InitTypes, NextTypes, PTL DEF Spec

-----------------------------------------------------------------------------
(* Prizes.                                                                 *)

\* PrizesOnce: only the transaction that locks the tournament's row and finds
\* it active hands out prizes, and it completes the tournament.
THEOREM PrizesHandedOutOnce == Spec => PrizesOnce
<1> DEFINE Step == ends' # ends => t.status = "active" /\ t'.status = "completed"
<1>1. TypeOK /\ [Next]_vars => [Step]_vars
  <2> SUFFICES ASSUME TypeOK, [Next]_vars, ends' # ends
               PROVE  t.status = "active" /\ t'.status = "completed"
    BY SMTT(30)
  <2>1. PICK h \in Handlers : EndTx(h)
    <3>1. Next
      BY DEF vars
    <3> QED
      BY <3>1, Steps, LoadingReads, ZenonT(30)
         DEF RegisterFunds, RegisterTx, CancelTx, CreateTournament, UpdateTx, StartTx, StopStatus,
             StopPlayers, DeleteTx, Enroll, ExitTx, RebuyTx, Minute
  <2>2. StillActive(h) /\ t' = [t EXCEPT !.status = "completed"]
    BY <2>1 DEF EndTx
  <2> QED
    BY <2>2 DEF StillActive, TypeOK, Tournament
<1> QED
  BY <1>1, TypeCorrect, PTL DEF Spec, PrizesOnce

-----------------------------------------------------------------------------
(* The counter of registrations.                                           *)

CountInv ==
  /\ IInv
  /\ IsFiniteSet(reg) /\ CountIsExact
  /\ ~Exists => reg = {}

\* What a cancellation has checked still holds when it is carried out.
CancelsStand == \A h \in Handlers : At(h, "cancel") => Exists /\ The(h) \in reg

LEMMA InitCount == Init => CountInv
<1> SUFFICES ASSUME Init
             PROVE  CountInv
  OBVIOUS
<1>1. IInv
  BY InitTypes
<1>2. reg = {} /\ t.count = 0
  BY DEF Init, Unborn
<1> QED
  BY <1>1, <1>2, FS_EmptySet DEF CountInv, CountIsExact

\* A step that leaves the registrations and their number alone.
LEMMA QuietCount ==
  ASSUME CountInv, IInv', reg' = reg, t'.count = t.count, Exists' <=> Exists
  PROVE  CountInv'
BY DEF CountInv, CountIsExact

LEMMA RegisterCount ==
  ASSUME CountInv, IInv', NEW h \in Handlers, RegisterTx(h)
  PROVE  CountInv'
<1>1. CASE The(h) \notin reg /\ Exists
  <2>1. reg' = reg \cup {The(h)} /\ t' = [t EXCEPT !.count = t.count + 1]
    BY <1>1 DEF RegisterTx, NewCount
  <2>2. t'.count = t.count + 1 /\ t'.status = t.status
    BY <2>1 DEF CountInv, IInv, TypeOK, Tournament
  <2>3. IsFiniteSet(reg') /\ Cardinality(reg') = Cardinality(reg) + 1
    BY <1>1, <2>1, FS_AddElement DEF CountInv
  <2>4. Exists'
    BY <1>1, <2>2 DEF Exists
  <2> QED
    BY <2>2, <2>3, <2>4 DEF CountInv, CountIsExact
<1>2. CASE ~(The(h) \notin reg /\ Exists)
  <2>1. reg' = reg /\ t' = t
    BY <1>2 DEF RegisterTx
  <2> QED
    BY <2>1, QuietCount DEF Exists
<1> QED
  BY <1>1, <1>2

LEMMA CancelCount ==
  ASSUME CountInv, IInv', CancelsStand, NEW h \in Handlers, CancelTx(h)
  PROVE  CountInv'
<1>1. Exists /\ The(h) \in reg
  BY DEF CancelTx, CancelsStand
<1>2. reg' = reg \ {The(h)} /\ t' = [t EXCEPT !.count = NotNegative(t.count - 1)]
  BY <1>1 DEF CancelTx, Unregistered
<1>3. t'.count = NotNegative(t.count - 1) /\ t'.status = t.status
  BY <1>2 DEF CountInv, IInv, TypeOK, Tournament
<1>4. IsFiniteSet(reg') /\ Cardinality(reg') = Cardinality(reg) - 1
  BY <1>1, <1>2, FS_RemoveElement DEF CountInv
<1>5. Cardinality(reg) \in Nat /\ Cardinality(reg) # 0
  BY <1>1, FS_CardinalityType, FS_EmptySet DEF CountInv
<1>6. t'.count = Cardinality(reg')
  BY <1>3, <1>4, <1>5 DEF NotNegative, CountInv, CountIsExact
<1> QED
  BY <1>1, <1>3, <1>4, <1>6 DEF CountInv, CountIsExact, Exists

LEMMA BirthAndDeathCount ==
  ASSUME CountInv, IInv', NEW h \in Handlers,
         (\E new \in NewTournaments : CreateTournament(h, new)) \/ DeleteTx(h)
  PROVE  CountInv'
<1>1. ASSUME NEW new \in NewTournaments, CreateTournament(h, new)
      PROVE  reg' = {} /\ t'.count = 0
  BY <1>1 DEF CreateTournament, NewTournaments, CountInv, Exists
<1>2. ASSUME DeleteTx(h)
      PROVE  reg' = {} /\ t'.count = 0
  <2>1. reg' = {}
    BY <1>2 DEF DeleteTx
  <2>2. CASE Exists
    BY <1>2, <2>1, <2>2 DEF DeleteTx, Unborn
  <2>3. CASE ~Exists
    BY <1>2, <2>1, <2>3, FS_EmptySet DEF DeleteTx, CountInv, CountIsExact
  <2> QED
    BY <2>1, <2>2, <2>3
<1>3. reg' = {} /\ t'.count = 0
  BY <1>1, <1>2
<1> QED
  BY <1>3, FS_EmptySet DEF CountInv, CountIsExact

LEMMA OtherCount ==
  ASSUME CountInv, IInv', NEW h \in Handlers,
         \/ Loading(h) \/ RegisterFunds(h) \/ UpdateTx(h) \/ StartTx(h) \/ StopStatus(h)
         \/ StopPlayers(h) \/ EndTx(h) \/ Enroll(h) \/ ExitTx(h) \/ RebuyTx(h)
  PROVE  CountInv'
<1>1. t \in Tournament
  BY DEF CountInv, IInv, TypeOK
<1>2. CASE Loading(h) \/ RegisterFunds(h) \/ StopPlayers(h) \/ Enroll(h) \/ ExitTx(h) \/ RebuyTx(h)
  <2>1. reg' = reg /\ t' = t
    BY <1>2, LoadingReads DEF RegisterFunds, StopPlayers, Enroll, ExitTx, RebuyTx
  <2> QED
    BY <2>1, QuietCount DEF Exists
<1>3. CASE UpdateTx(h)
  <2>1. /\ req[h].seen.status \in {"scheduled", "active", "completed"}
        /\ req[h].seen \in Tournament
    BY <1>3, SeenTypes DEF UpdateTx, At, CountInv, IInv, Held
  <2>2. reg' = reg /\ (t' = t \/ (Exists /\ t' = Patched(t, req[h].seen, req[h].cols)))
    BY <1>3 DEF UpdateTx
  <2>3. t'.count = t.count /\ (Exists => t'.status \in {t.status, req[h].seen.status})
    BY <1>1, <2>1, <2>2, PatchTypes
  <2>4. Exists' <=> Exists
    BY <2>1, <2>2, <2>3 DEF Exists
  <2> QED
    BY <2>2, <2>3, <2>4, QuietCount
<1>4. CASE StartTx(h) \/ StopStatus(h) \/ EndTx(h)
  <2>1. /\ reg' = reg
        /\ \/ t' = t
           \/ t' = [t EXCEPT !.status = "active", !.ran = 1] /\ Exists
           \/ t' = [t EXCEPT !.status = "completed"] /\ Exists
    BY <1>4 DEF StartTx, StopStatus, EndTx, StillActive, Exists
  <2>2. t'.count = t.count /\ (Exists' <=> Exists)
    BY <1>1, <2>1 DEF Tournament, Exists
  <2> QED
    BY <2>1, <2>2, QuietCount
<1> QED
  BY <1>2, <1>3, <1>4

LEMMA NextCount ==
  ASSUME CountInv, CancelsStand, [Next]_vars
  PROVE  CountInv'
<1>1. IInv'
  BY NextTypes DEF CountInv
<1>2. CASE Minute
  <2>1. reg' = reg /\ t'.count = t.count /\ t'.status = t.status
    BY <1>2 DEF Minute, CountInv, IInv, TypeOK, Tournament
  <2> QED
    BY <1>1, <2>1, QuietCount DEF Exists
<1>3. CASE UNCHANGED vars
  <2>1. reg' = reg /\ t' = t
    BY <1>3 DEF vars
  <2> QED
    BY <1>1, <2>1, QuietCount DEF Exists
<1>4. ASSUME NEW h \in Handlers, RegisterTx(h)
      PROVE  CountInv'
  BY <1>1, <1>4, RegisterCount
<1>5. ASSUME NEW h \in Handlers, CancelTx(h)
      PROVE  CountInv'
  BY <1>1, <1>5, CancelCount
<1>6. ASSUME NEW h \in Handlers,
             (\E new \in NewTournaments : CreateTournament(h, new)) \/ DeleteTx(h)
      PROVE  CountInv'
  BY <1>1, <1>6, BirthAndDeathCount
<1>7. ASSUME NEW h \in Handlers,
             \/ Loading(h) \/ RegisterFunds(h) \/ UpdateTx(h) \/ StartTx(h) \/ StopStatus(h)
             \/ StopPlayers(h) \/ EndTx(h) \/ Enroll(h) \/ ExitTx(h) \/ RebuyTx(h)
      PROVE  CountInv'
  BY <1>1, <1>7, OtherCount
<1> QED
  BY <1>2, <1>3, <1>4, <1>5, <1>6, <1>7, Steps, Zenon

\* Where registrations cannot be cancelled no request is about to cancel one.
NoCancels == \A h \in Handlers : ~At(h, "cancel")

LEMMA NoCancelsStays ==
  ASSUME "cancel" \notin Ops, TypeOK, NoCancels, [Next]_vars
  PROVE  NoCancels'
<1>1. ASSUME NEW h \in Handlers, NEW r, req' = [req EXCEPT ![h] = r], r.pc # "cancel"
      PROVE  NoCancels'
  BY <1>1 DEF NoCancels, At, TypeOK
<1>2. ASSUME NEW h \in Handlers, Loading(h)
      PROVE  NoCancels'
  <2>1. \/ \E pc \in PC \ {"cancel"} : \E who, amount, kind : Load(h, pc, who, amount, kind)
        \/ \E cols, new : UpdateTournament(h, cols, new)
    <3>1. Free(h, "cancel") => FALSE
      BY DEF Free
    <3> QED
      BY <1>2, <3>1 DEF Loading, RegisterForTournament, CancelRegistration, StartTournament,
         StopTournament, DeleteTournament, EndTournament, ExitTournamentPlayer,
         RebuyTournamentPlayer, LoadSeat, PC
  <2> QED
    <3>1. ASSUME NEW pc \in PC \ {"cancel"}, NEW who, NEW amount, NEW kind,
                 Load(h, pc, who, amount, kind)
          PROVE  NoCancels'
      <4> DEFINE r == [pc |-> pc, who |-> who, seen |-> t, amount |-> amount, kind |-> kind,
              cols |-> {}]
      <4>1. req' = [req EXCEPT ![h] = r]
        BY <3>1 DEF Load, Becomes
      <4>2. r.pc # "cancel"
        OBVIOUS
      <4> HIDE DEF r
      <4> QED
        BY <1>1, <4>1, <4>2
    <3>2. ASSUME NEW cols, NEW new, UpdateTournament(h, cols, new)
          PROVE  NoCancels'
      <4> DEFINE r == [pc |-> "edit", who |-> {}, seen |-> new, amount |-> 0, kind |-> "none",
                    cols |-> cols]
      <4>1. req' = [req EXCEPT ![h] = r] /\ r.pc # "cancel"
        BY <3>2 DEF UpdateTournament, Becomes
      <4> HIDE DEF r
      <4> QED
        BY <1>1, <4>1
    <3> QED
      BY <2>1, <3>1, <3>2
<1>3. ASSUME NEW h \in Handlers,
             \/ RegisterFunds(h) \/ RegisterTx(h) \/ CancelTx(h) \/ UpdateTx(h) \/ StartTx(h)
             \/ StopStatus(h) \/ StopPlayers(h) \/ EndTx(h) \/ DeleteTx(h) \/ Enroll(h)
             \/ ExitTx(h) \/ RebuyTx(h)
      PROVE  NoCancels'
  <2>1. PICK r : Becomes(h, r) /\ r.pc # "cancel"
    <3>1. Idle.pc # "cancel"
      BY DEF Idle
    <3>2. req[h] \in Request
      BY DEF TypeOK
    <3>3. \A pc \in {"register", "stopPlayers", "exit", "rebuy"} :
            /\ [req[h] EXCEPT !.pc = pc].pc # "cancel"
            /\ \A a : [req[h] EXCEPT !.pc = pc, !.amount = a].pc # "cancel"
      BY <3>2 DEF Request
    <3> QED
      BY <1>3, <3>1, <3>3 DEF RegisterFunds, RegisterTx, CancelTx, UpdateTx, StartTx, StopStatus,
         StopPlayers, EndTx, DeleteTx, Enroll, ExitTx, RebuyTx, Done, Goto
  <2> QED
    BY <1>1, <2>1 DEF Becomes
<1>4. CASE UNCHANGED req
  BY <1>4 DEF NoCancels, At
<1> QED
  BY <1>2, <1>3, <1>4, Steps DEF vars, Minute, CreateTournament

\* CountIsExact: where registrations are not cancelled, current_players is the
\* number of registrations, however many registrations, starts, edits, ends and
\* deletions overlap.
THEOREM CountKept == ASSUME "cancel" \notin Ops PROVE Spec => []CountIsExact
<1> DEFINE I == CountInv /\ NoCancels
<1>1. Init => I
  BY InitCount DEF Init, Idle, NoCancels, At
<1>2. I /\ [Next]_vars => I'
  <2> SUFFICES ASSUME I, [Next]_vars
               PROVE  I'
    OBVIOUS
  <2>1. CountInv'
    BY NextCount DEF CancelsStand, NoCancels
  <2>2. NoCancels'
    BY NoCancelsStays DEF CountInv, IInv
  <2> QED
    BY <2>1, <2>2
<1>3. I => CountIsExact
  BY DEF CountInv
<1> QED
  BY <1>1, <1>2, <1>3, PTL DEF Spec

-----------------------------------------------------------------------------
(* Requests in turn.                                                       *)

Busy(h) == req[h].pc # "idle"
Alone == \A g, h \in Handlers : Busy(g) /\ Busy(h) => g = h

\* What a registration has found out about the player's means.
Affords(h) ==
  LET p == The(h) IN
  /\ req[h].amount = wallet[p] /\ wallet[p] >= 0
  /\ wallet[p] + CreditRemaining(TRUE, Limit, line[p], wallet[p])
       >= Required(req[h].seen)

\* What a request has loaded and checked is still so.
Fresh(h) ==
  LET r == req[h] IN
  /\ Busy(h) => t.status # "unborn"
  /\ r.pc \notin {"idle", "stopPlayers"} => Exists
  /\ r.pc \notin {"idle", "stopPlayers", "edit"} =>
       /\ r.seen.status = t.status /\ r.seen.buyIn = t.buyIn
       /\ r.seen.game = t.game /\ r.seen.fee = t.fee
  /\ r.pc \in {"funds", "register"} => t.count < t.size
  /\ r.pc = "register" => The(h) \notin reg /\ Affords(h)
  /\ r.pc = "cancel" => The(h) \in reg
  /\ r.pc = "start" => t.status = "scheduled"
  /\ r.pc = "enroll" => t.status = "active" /\ The(h) \in reg /\ ~tp[The(h)].row

WithinLimit == \A p \in Players : line[p] <= Limit

\* What requests in turn keep, whatever edits they make.
TurnInv == Alone /\ (\A h \in Handlers : Fresh(h)) /\ WithinLimit

\* Who is registered has paid the buy-in and not been given it back; who is not
\* in the field has invested nothing; and the rest of the properties.
Stakes(p) ==
  /\ refunded[p] <= charged[p]
  /\ p \in reg => refunded[p] + t.buyIn <= charged[p]
  /\ tp[p].invested <= charged[p]
  /\ ~tp[p].row => tp[p].invested = 0
  /\ t.status \in {"unborn", "scheduled"} => ~tp[p].row

\* What they keep besides where edits leave the stakes alone.
StakesInv == t.game = "poker" /\ \A p \in Players : Stakes(p)

MCInv ==
  /\ CountInv /\ InMode
  /\ mode \in Modes
  /\ InTurn => TurnInv
  /\ mode = "stakes kept" => StakesInv

\* Of a finite set with at most one busy member, every two are the same.
LEMMA OneBusy ==
  ASSUME IsFiniteSet(Handlers), NEW r, Cardinality({h \in Handlers : ~(r[h].pc = "idle")}) <= 1,
         NEW g \in Handlers, NEW h \in Handlers, r[g].pc # "idle", r[h].pc # "idle"
  PROVE  g = h
<1> DEFINE B == {k \in Handlers : ~(r[k].pc = "idle")}
<1> SUFFICES ASSUME g # h
             PROVE  FALSE
  OBVIOUS
<1>1. IsFiniteSet(B) /\ {g, h} \in SUBSET B
  BY FS_Subset
<1>2. IsFiniteSet({g}) /\ Cardinality({g}) = 1
  BY FS_Singleton
<1>3. Cardinality({g} \cup {h}) = 2
  <2>1. h \notin {g}
    OBVIOUS
  <2>2. Cardinality({g} \cup {h}) = Cardinality({g}) + 1
    BY <1>2, <2>1, FS_AddElement, Zenon
  <2> QED
    BY <1>2, <2>2
<1>4. {g} \cup {h} = {g, h}
  OBVIOUS
<1>5. Cardinality({g, h}) <= Cardinality(B) /\ Cardinality(B) \in Nat
  BY <1>1, FS_Subset, FS_CardinalityType
<1> QED
  BY <1>3, <1>4, <1>5

LEMMA Chosen == \A p : (CHOOSE q \in {p} : TRUE) = p
OBVIOUS

\* A request that is over asks for nothing.
LEMMA IdleIsFresh ==
  ASSUME NEW h \in Handlers, req'[h].pc = "idle"
  PROVE  Fresh(h)'
BY DEF Fresh, Busy

\* Only the request that moves can be under way afterwards.
LEMMA TurnKept ==
  ASSUME IInv, TurnInv, Alone', NEW h \in Handlers, NEW r,
         req' = [req EXCEPT ![h] = r], Busy(h) \/ r.pc # "idle", Fresh(h)', WithinLimit'
  PROVE  TurnInv'
<1>1. ASSUME NEW g \in Handlers, g # h
      PROVE  Fresh(g)'
  <2>1. req'[g] = req[g] /\ req'[h] = r
    BY <1>1 DEF IInv, TypeOK
  <2>2. req'[g].pc = "idle"
    BY <1>1, <2>1 DEF TurnInv, Alone, Busy
  <2> QED
    BY <2>2, IdleIsFresh
<1>2. \A g \in Handlers : Fresh(g)'
  BY <1>1
<1> QED
  BY <1>2 DEF TurnInv

LEMMA TurnDone ==
  ASSUME IInv, TurnInv, Alone', NEW h \in Handlers, Busy(h), Done(h), WithinLimit'
  PROVE  TurnInv'
<1>1. req' = [req EXCEPT ![h] = Idle]
  BY DEF Done, Becomes
<1>2. req'[h].pc = "idle"
  BY <1>1 DEF IInv, TypeOK, Idle
<1> QED
  BY <1>1, <1>2, IdleIsFresh, TurnKept

\* A step that leaves the accounts, the field and the registrations alone.
LEMMA StakesKept ==
  ASSUME StakesInv, UNCHANGED <<reg, tp, charged, refunded>>, t'.buyIn = t.buyIn,
         t'.status \in {"unborn", "scheduled"} => t.status \in {"unborn", "scheduled"}
  PROVE  \A p \in Players : Stakes(p)'
BY DEF StakesInv, Stakes

LEMMA TurnLoading ==
  ASSUME IInv, TurnInv, Alone', NEW h \in Handlers, Loading(h)
  PROVE  TurnInv'
<1>1. UNCHANGED <<t, reg, tp, wallet, line, charged, refunded, ends>>
  BY LoadingReads DEF money
<1>2. WithinLimit'
  BY <1>1 DEF TurnInv, WithinLimit
<1>3. ASSUME NEW pc, NEW who, NEW amount, NEW kind, Load(h, pc, who, amount, kind), pc # "idle",
             pc \notin {"register", "edit"},
             pc = "funds" => t.count < t.size,
             pc = "cancel" => \E p \in reg : who = {p},
             pc = "start" => t.status = "scheduled",
             pc = "enroll" => t.status = "active" /\ \E p \in reg : who = {p} /\ ~tp[p].row
      PROVE  TurnInv'
  <2> DEFINE r == [pc |-> pc, who |-> who, seen |-> t, amount |-> amount, kind |-> kind,
                   cols |-> {}]
  <2>1. req' = [req EXCEPT ![h] = r] /\ Exists
    BY <1>3 DEF Load, Becomes
  <2>2. req'[h] = r
    BY <2>1 DEF IInv, TypeOK
  <2>3. \A p : who = {p} => The(h)' = p
    BY <2>2, Chosen DEF The
  <2>4. Fresh(h)'
    BY <1>1, <1>3, <2>1, <2>2, <2>3 DEF Fresh, Busy, Exists
  <2>5. r.pc # "idle"
    BY <1>3
  <2> HIDE DEF r
  <2> QED
    BY <1>2, <2>1, <2>4, <2>5, TurnKept
<1>4. ASSUME NEW p \in Players, RegisterForTournament(h, p)
      PROVE  TurnInv'
  BY <1>3, <1>4 DEF RegisterForTournament, HasRoom
<1>5. ASSUME NEW p \in Players, CancelRegistration(h, p)
      PROVE  TurnInv'
  BY <1>3, <1>5 DEF CancelRegistration
<1>6. ASSUME NEW cols, NEW new, UpdateTournament(h, cols, new)
      PROVE  TurnInv'
  <2> DEFINE r == [pc |-> "edit", who |-> {}, seen |-> new, amount |-> 0, kind |-> "none",
                   cols |-> cols]
  <2>1. req' = [req EXCEPT ![h] = r] /\ Exists
    BY <1>6 DEF UpdateTournament, Becomes
  <2>2. req'[h] = r /\ r.pc = "edit"
    BY <2>1 DEF IInv, TypeOK
  <2>3. Fresh(h)'
    BY <1>1, <2>1, <2>2 DEF Fresh, Busy, Exists
  <2> HIDE DEF r
  <2> QED
    BY <1>2, <2>1, <2>2, <2>3, TurnKept
<1>7. CASE StartTournament(h)
  BY <1>3, <1>7 DEF StartTournament
<1>8. CASE StopTournament(h) \/ DeleteTournament(h)
  BY <1>3, <1>8 DEF StopTournament, DeleteTournament
<1>9. ASSUME NEW w, EndTournament(h, w)
      PROVE  TurnInv'
  BY <1>3, <1>9 DEF EndTournament
<1>10. ASSUME NEW p \in Players, NEW b, ExitTournamentPlayer(h, p, b)
       PROVE  TurnInv'
  BY <1>3, <1>10 DEF ExitTournamentPlayer, LoadSeat
<1>11. ASSUME NEW p \in Players, NEW k, RebuyTournamentPlayer(h, p, k)
       PROVE  TurnInv'
  BY <1>3, <1>11 DEF RebuyTournamentPlayer, LoadSeat
<1> QED
  BY <1>4, <1>5, <1>6, <1>7, <1>8, <1>9, <1>10, <1>11 DEF Loading

LEMMA TurnRegisterFunds ==
  ASSUME IInv, TurnInv, Alone', NEW h \in Handlers, RegisterFunds(h)
  PROVE  TurnInv'
<1> DEFINE p == The(h)
           r == [req[h] EXCEPT !.pc = "register", !.amount = wallet[p]]
<1>1. UNCHANGED <<t, reg, tp, wallet, line, charged, refunded, ends>>
  BY DEF RegisterFunds, money
<1>2. WithinLimit'
  BY <1>1 DEF TurnInv, WithinLimit
<1>3. Busy(h) /\ Fresh(h) /\ req[h].pc = "funds"
  BY DEF RegisterFunds, At, Busy, TurnInv
<1>4. CASE Done(h)
  BY <1>2, <1>3, <1>4, TurnDone
<1>5. CASE ~Done(h)
  <2>1. /\ req' = [req EXCEPT ![h] = r]
        /\ wallet[p] >= 0 /\ p \notin reg
        /\ wallet[p] + CreditRemaining(TRUE, Limit, line[p], wallet[p])
             >= Required(req[h].seen)
    BY <1>5 DEF RegisterFunds, Becomes
  <2>2. req[h] \in Request
    BY DEF IInv, TypeOK
  <2>3. r.pc = "register" /\ r.amount = wallet[p] /\ r.who = req[h].who /\ r.seen = req[h].seen
    BY <2>2 DEF Request
  <2>4. req'[h] = r
    BY <2>1 DEF IInv, TypeOK
  <2>5. The(h)' = p
    BY <2>3, <2>4 DEF The
  <2> HIDE DEF r, p
  <2>6. Affords(h)'
    BY <1>1, <2>1, <2>3, <2>4, <2>5 DEF Affords
  <2>7. Fresh(h)'
    BY <1>1, <1>3, <2>1, <2>3, <2>4, <2>5, <2>6 DEF Fresh, Busy, Exists
  <2> QED
    BY <1>2, <1>3, <2>1, <2>3, <2>7, TurnKept
<1> QED
  BY <1>4, <1>5

\* Registering within one's means overdraws neither the wallet nor the limit.
LEMMA PartAndDraw ==
  ASSUME NEW w \in Int, NEW l \in Int, NEW limit \in Nat, NEW n \in Nat,
         w >= 0, l <= limit, w + CreditRemaining(TRUE, limit, l, w) >= n
  PROVE  w - Lesser(n, w) >= 0 /\ l + (n - Lesser(n, w)) <= limit
BY DEF CreditRemaining, CreditOnLine, CreditUsed, HasFacility, Lesser, NotNegative

\* With requests in turn a registration finds what it has checked.
LEMMA TurnRegisterTx ==
  ASSUME IInv, TurnInv, NEW h \in Handlers, RegisterTx(h)
  PROVE  /\ The(h) \notin reg /\ Exists /\ t'.count <= t'.size
         /\ wallet'[The(h)] >= 0 /\ WithinLimit'
<1> DEFINE p == The(h)
           buyIn == BuyInRequired(req[h].seen)
           required == Required(req[h].seen)
           part == Lesser(required, req[h].amount)
           drawn == required - part
<1>1. Fresh(h) /\ req[h].pc = "register"
  BY DEF TurnInv, RegisterTx, At
<1>2. /\ p \notin reg /\ Exists /\ t.count < t.size
      /\ req[h].amount = wallet[p] /\ wallet[p] >= 0
      /\ wallet[p] + CreditRemaining(TRUE, Limit, line[p], wallet[p]) >= required
  BY <1>1 DEF Fresh, Affords, Busy
<1>3. /\ p \in Players /\ part \in Int /\ drawn \in Int
      /\ t' = [t EXCEPT !.count = t.count + 1]
      /\ wallet' = [wallet EXCEPT ![p] = wallet[p] - part]
      /\ line' = [line EXCEPT ![p] = line[p] + drawn]
  BY <1>2, RegisterBooks
<1>4. /\ t \in Tournament /\ wallet \in [Players -> Int] /\ line \in [Players -> Int]
      /\ required \in Nat
  BY SeenTypes DEF IInv, TypeOK
<1>5. \A q \in Players : line[q] <= Limit
  BY DEF TurnInv, WithinLimit
<1>6. wallet[p] - part >= 0 /\ line[p] + drawn <= Limit
  <2>1. part = Lesser(required, wallet[p])
    BY <1>2
  <2>2. wallet[p] \in Int /\ line[p] \in Int /\ line[p] <= Limit
    BY <1>3, <1>4, <1>5
  <2> HIDE DEF p, required, part
  <2>3. /\ wallet[p] - Lesser(required, wallet[p]) >= 0
        /\ line[p] + (required - Lesser(required, wallet[p])) <= Limit
    BY <1>2, <1>4, <2>2, Constants, PartAndDraw
  <2> QED
    BY <2>1, <2>3
<1>7. t'.count <= t'.size
  BY <1>2, <1>3, <1>4 DEF Tournament
<1> HIDE DEF p, part, drawn
<1>8. wallet'[p] >= 0 /\ \A q \in Players : line'[q] <= Limit
  BY <1>3, <1>4, <1>5, <1>6
<1> QED
  BY <1>2, <1>7, <1>8 DEF WithinLimit, p

LEMMA StakesRegisterTx ==
  ASSUME IInv, TurnInv, StakesInv, NEW h \in Handlers, RegisterTx(h)
  PROVE  \A p \in Players : Stakes(p)'
<1> DEFINE p == The(h)
           buyIn == BuyInRequired(req[h].seen)
<1>1. Fresh(h) /\ req[h].pc = "register"
  BY DEF TurnInv, RegisterTx, At
<1>2. /\ p \notin reg /\ Exists /\ buyIn = t.buyIn /\ req[h].seen.status = t.status
  BY <1>1 DEF Fresh, Busy, BuyInRequired, StakesInv
<1>3. /\ p \in Players /\ buyIn \in Nat
      /\ reg' = reg \cup {p} /\ t' = [t EXCEPT !.count = t.count + 1]
      /\ tp' = IF IsLate(h) THEN [tp EXCEPT ![p] = Enrolled(tp[p], buyIn)] ELSE tp
      /\ charged' = [charged EXCEPT ![p] = charged[p] + buyIn]
      /\ refunded' = refunded
  BY <1>2, RegisterBooks DEF RegisterTx
<1>4. /\ t \in Tournament /\ tp \in [Players -> Seat]
      /\ charged \in [Players -> Nat] /\ refunded \in [Players -> Nat]
  BY DEF IInv, TypeOK
<1>5. t'.status = t.status /\ t'.buyIn = t.buyIn
  BY <1>3, <1>4 DEF Tournament
<1>6. IsLate(h) => t.status = "active"
  BY <1>2 DEF IsLate
<1> HIDE DEF p, buyIn
<1>7. /\ Stakes(p)
      /\ reg' = reg \cup {p} /\ charged'[p] = charged[p] + buyIn
      /\ refunded'[p] = refunded[p] /\ charged[p] \in Nat /\ refunded[p] \in Nat
      /\ tp[p] \in Seat
      /\ tp'[p] = IF IsLate(h) THEN Enrolled(tp[p], buyIn) ELSE tp[p]
  BY <1>3, <1>4 DEF StakesInv
<1>8. ASSUME NEW q \in Players, q = p
      PROVE  Stakes(q)'
  <2>1. refunded'[p] <= charged'[p] /\ refunded'[p] + t'.buyIn <= charged'[p]
    BY <1>2, <1>3, <1>5, <1>7 DEF Stakes
  <2>2. tp[p].invested \in Nat /\ tp[p].invested <= charged[p]
    BY <1>7 DEF Stakes, Seat
  <2>3. CASE IsLate(h)
    <3>1. tp'[p].row /\ tp'[p].invested = tp[p].invested + buyIn /\ t'.status = "active"
      BY <1>5, <1>6, <1>7, <2>3 DEF Enrolled
    <3>2. tp'[p].invested <= charged'[p]
      BY <1>3, <1>7, <2>2, <3>1
    <3> QED
      BY <1>8, <2>1, <3>1, <3>2 DEF Stakes
  <2>4. CASE ~IsLate(h)
    <3>1. tp'[p] = tp[p]
      BY <1>7, <2>4
    <3>2. tp'[p].invested <= charged'[p]
      BY <1>3, <1>7, <2>2, <3>1
    <3> QED
      BY <1>5, <1>7, <1>8, <2>1, <3>1, <3>2 DEF Stakes
  <2> QED
    BY <2>3, <2>4
<1>9. ASSUME NEW q \in Players, q # p
      PROVE  Stakes(q)'
  <2>1. /\ Stakes(q) /\ (q \in reg' <=> q \in reg)
        /\ charged'[q] = charged[q] /\ refunded'[q] = refunded[q] /\ tp'[q] = tp[q]
    BY <1>3, <1>4, <1>9 DEF StakesInv
  <2> QED
    BY <1>5, <2>1 DEF Stakes
<1> QED
  BY <1>8, <1>9

\* No other step raises what a player owes beyond the limit.
LEMMA TurnWithin ==
  ASSUME IInv, TurnInv, NEW h \in Handlers,
         \/ CancelTx(h) \/ UpdateTx(h) \/ StartTx(h) \/ StopStatus(h) \/ StopPlayers(h)
         \/ EndTx(h) \/ DeleteTx(h) \/ Enroll(h) \/ ExitTx(h) \/ RebuyTx(h)
  PROVE  WithinLimit'
<1>1. line \in [Players -> Int] /\ \A q \in Players : line[q] <= Limit
  BY DEF TurnInv, WithinLimit, IInv, TypeOK
<1>2. CASE ExitTx(h)
  <2> DEFINE p == The(h)
             owed == Lesser(NotNegative(line[p]), req[h].amount)
  <2>1. p \in Players /\ owed \in Int /\ line' = [line EXCEPT ![p] = line[p] - owed]
    BY <1>2, ExitBooks
  <2>2. req[h].amount \in Nat
    BY <1>2 DEF ExitTx, At, IInv, Held
  <2>3. owed >= 0
    BY <1>1, <2>1, <2>2 DEF Lesser, NotNegative
  <2> HIDE DEF p, owed
  <2>4. \A q \in Players : line'[q] <= Limit
    BY <1>1, <2>1, <2>3, Constants
  <2> QED
    BY <2>4 DEF WithinLimit
<1>3. CASE ~ExitTx(h)
  <2>1. CASE CancelTx(h)
    <3>1. The(h) \in Players /\ BuyInOf(h) \in Int
      BY <2>1, TheIsAPlayer, SeenTypes DEF CancelTx, At
    <3>2. Post(The(h), Row("Refund", "none", BuyInOf(h)), Nothing)
      BY <2>1 DEF CancelTx
    <3> QED
      BY <1>1, <3>1, <3>2, PostedRefund DEF WithinLimit
  <2>2. CASE RebuyTx(h)
    BY <1>1, <2>2, RebuyBooks DEF WithinLimit
  <2>3. CASE ~(CancelTx(h) \/ RebuyTx(h))
    <3>1. line' = line
      BY <1>3, <2>3 DEF UpdateTx, StartTx, StopStatus, StopPlayers, EndTx, DeleteTx, Enroll, money
    <3> QED
      BY <1>1, <3>1 DEF WithinLimit
  <2> QED
    BY <2>1, <2>2, <2>3
<1> QED
  BY <1>2, <1>3

\* An edit in turn that leaves the buy-in, the game and the schedule alone.
LEMMA StakesUpdateTx ==
  ASSUME IInv, StakesInv, NEW h \in Handlers, UpdateTx(h), KeepsStakes(req[h])
  PROVE  \A p \in Players : Stakes(p)'
<1>1. UNCHANGED <<reg, tp, charged, refunded>>
  BY DEF UpdateTx, money
<1>2. CASE t' = t
  BY <1>1, <1>2, StakesKept
<1>3. CASE t' # t
  <2>1. t' = Patched(t, req[h].seen, req[h].cols)
    BY <1>3 DEF UpdateTx
  <2>2. t'.buyIn = t.buyIn
    BY <2>1 DEF Patched, KeepsStakes
  <2>3. req[h].seen.status \in {"scheduled", "active", "completed"}
    BY DEF UpdateTx, At, IInv, Held
  <2>4. t'.status = t.status \/ t'.status \in {"active", "completed"}
    BY <2>1, <2>3 DEF Patched, KeepsStakes
  <2> QED
    BY <1>1, <2>2, <2>4, StakesKept
<1> QED
  BY <1>2, <1>3

LEMMA StakesCancelTx ==
  ASSUME IInv, TurnInv, StakesInv, NEW h \in Handlers, CancelTx(h)
  PROVE  \A p \in Players : Stakes(p)'
<1> DEFINE p == The(h)
<1>1. Fresh(h) /\ req[h].pc = "cancel"
  BY DEF TurnInv, CancelTx, At
<1>2. p \in reg /\ Exists /\ BuyInOf(h) = t.buyIn /\ p \in Players
  BY <1>1, TheIsAPlayer DEF Fresh, Busy, BuyInOf
<1>3. t.buyIn \in Nat /\ t \in Tournament
  BY <1>2 DEF IInv, TypeOK, Tournament
<1>4. /\ t' = [t EXCEPT !.count = NotNegative(t.count - 1)] /\ reg' = reg \ {p}
      /\ UNCHANGED <<tp, charged>>
      /\ refunded' = [refunded EXCEPT ![p] = refunded[p] + t.buyIn]
  BY <1>2 DEF CancelTx, Unregistered
<1>5. t'.status = t.status /\ t'.buyIn = t.buyIn
  BY <1>4, <1>3 DEF Tournament
<1>6. charged \in [Players -> Nat] /\ refunded \in [Players -> Nat]
  BY DEF IInv, TypeOK
<1> HIDE DEF p
<1>7. ASSUME NEW q \in Players
      PROVE  Stakes(q)'
  <2>1. Stakes(q) /\ tp'[q] = tp[q] /\ charged'[q] = charged[q]
    BY <1>4 DEF StakesInv
  <2>2. CASE q = p
    <3>1. refunded'[q] = refunded[q] + t.buyIn /\ q \in reg /\ q \notin reg'
      BY <1>2, <1>4, <1>6, <2>2
    <3> QED
      BY <1>5, <2>1, <3>1 DEF Stakes
  <2>3. CASE q # p
    <3>1. refunded'[q] = refunded[q] /\ (q \in reg' <=> q \in reg)
      BY <1>4, <1>6, <2>3
    <3> QED
      BY <1>5, <2>1, <3>1 DEF Stakes
  <2> QED
    BY <2>2, <2>3
<1> QED
  BY <1>7

LEMMA StakesStartTx ==
  ASSUME IInv, TurnInv, StakesInv, NEW h \in Handlers, StartTx(h)
  PROVE  \A p \in Players : Stakes(p)'
<1>1. Exists /\ BuyInOf(h) = t.buyIn /\ t.status = "scheduled"
  BY DEF TurnInv, StartTx, At, Fresh, Busy, BuyInOf
<1>2. /\ t' = [t EXCEPT !.status = "active", !.ran = 1]
      /\ tp' = [p \in Players |-> Started(tp[p], p, BuyInOf(h))]
      /\ UNCHANGED <<reg, charged, refunded>>
  BY <1>1 DEF StartTx, money
<1>3. t \in Tournament /\ tp \in [Players -> Seat]
  BY DEF IInv, TypeOK
<1>4. t'.status = "active" /\ t'.buyIn = t.buyIn
  BY <1>2, <1>3 DEF Tournament
<1>5. t.buyIn \in Nat
  BY <1>3 DEF Tournament
<1>6. ASSUME NEW p \in Players
      PROVE  Stakes(p)'
  <2>1. tp'[p] = Started(tp[p], p, t.buyIn) /\ Stakes(p) /\ tp[p] \in Seat
    BY <1>1, <1>2, <1>3 DEF StakesInv
  <2>2. ~tp[p].row /\ tp[p].invested = 0
    BY <1>1, <2>1 DEF Stakes
  <2>3. refunded[p] \in Nat /\ charged[p] \in Nat
    BY DEF IInv, TypeOK
  <2>4. CASE p \in reg
    <3>1. tp'[p].row /\ tp'[p].invested = 0 + t.buyIn
      BY <2>1, <2>2, <2>4 DEF Started, Enrolled
    <3> QED
      BY <1>2, <1>4, <1>5, <2>1, <2>3, <2>4, <3>1 DEF Stakes
  <2>5. CASE p \notin reg
    <3>1. tp'[p].row = tp[p].row /\ tp'[p].invested = tp[p].invested
      BY <2>1, <2>5 DEF Started, Seat
    <3> QED
      BY <1>2, <1>4, <2>1, <2>2, <3>1 DEF Stakes
  <2> QED
    BY <2>4, <2>5
<1> QED
  BY <1>6

LEMMA StakesCreate ==
  ASSUME CountInv, StakesInv, NEW h \in Handlers, NEW new \in NewTournaments,
         CreateTournament(h, new)
  PROVE  \A p \in Players : Stakes(p)'
<1>1. t.status = "unborn" /\ reg = {} /\ UNCHANGED <<reg, tp, charged, refunded>>
  BY DEF CreateTournament, CountInv, Exists, money
<1> QED
  BY <1>1 DEF StakesInv, Stakes

LEMMA TurnCreate ==
  ASSUME TurnInv, NEW h \in Handlers, NEW new \in NewTournaments, CreateTournament(h, new)
  PROVE  TurnInv'
<1>1. t.status = "unborn" /\ UNCHANGED <<line, req>>
  BY DEF CreateTournament, money
<1>2. \A k \in Handlers : ~Busy(k) /\ Fresh(k)'
  BY <1>1, IdleIsFresh DEF TurnInv, Fresh, Busy
<1> QED
  BY <1>1, <1>2 DEF TurnInv, Alone, Busy, WithinLimit

LEMMA TurnStopStatus ==
  ASSUME IInv, TurnInv, Alone', NEW h \in Handlers, StopStatus(h)
  PROVE  TurnInv'
<1> DEFINE r == [req[h] EXCEPT !.pc = "stopPlayers"]
<1>1. req[h].pc = "stop" /\ req' = [req EXCEPT ![h] = r] /\ req[h] \in Request
  BY DEF StopStatus, At, Goto, Becomes, IInv, TypeOK
<1>2. r.pc = "stopPlayers" /\ req'[h] = r
  BY <1>1 DEF Request, IInv, TypeOK
<1>3. Exists /\ t \in Tournament
  BY <1>1 DEF TurnInv, Fresh, IInv, TypeOK
<1>4. t'.status = "completed"
  BY <1>3 DEF StopStatus, Tournament
<1>5. Fresh(h)'
  BY <1>2, <1>4 DEF Fresh, Busy
<1>6. WithinLimit'
  BY TurnWithin
<1> HIDE DEF r
<1> QED
  BY <1>1, <1>2, <1>5, <1>6, TurnKept DEF Busy

LEMMA StakesStops ==
  ASSUME IInv, StakesInv, NEW h \in Handlers, StopStatus(h) \/ StopPlayers(h)
  PROVE  \A p \in Players : Stakes(p)'
<1>1. CASE StopStatus(h)
  <2>1. UNCHANGED <<reg, tp, charged, refunded>> /\ t \in Tournament
        /\ (t' = t \/ t' = [t EXCEPT !.status = "completed"])
    BY <1>1 DEF StopStatus, money, IInv, TypeOK
  <2>2. t'.buyIn = t.buyIn /\ t'.status \in {t.status, "completed"}
    BY <2>1 DEF Tournament
  <2> QED
    BY <2>1, <2>2, StakesKept
<1>2. CASE StopPlayers(h)
  <2>1. /\ tp' = [p \in Players |-> [tp[p] EXCEPT !.active = FALSE]]
        /\ UNCHANGED <<t, reg, charged, refunded>>
    BY <1>2 DEF StopPlayers, money
  <2>2. ASSUME NEW p \in Players
        PROVE  tp'[p].row = tp[p].row /\ tp'[p].invested = tp[p].invested /\ Stakes(p)
    BY <2>1 DEF IInv, TypeOK, Seat, StakesInv
  <2> QED
    BY <2>1, <2>2 DEF Stakes
<1> QED
  BY <1>1, <1>2

LEMMA StakesEndTx ==
  ASSUME IInv, StakesInv, NEW h \in Handlers, EndTx(h)
  PROVE  \A p \in Players : Stakes(p)'
<1>1. UNCHANGED <<reg, charged, refunded>> /\ t \in Tournament
  BY DEF EndTx, IInv, TypeOK
<1>2. CASE ~StillActive(h)
  <2>1. UNCHANGED <<t, tp>>
    BY <1>2 DEF EndTx
  <2> QED
    BY <1>1, <2>1, StakesKept
<1>3. CASE StillActive(h)
  <2>1. /\ t' = [t EXCEPT !.status = "completed"] /\ t.status = "active"
        /\ tp' = [p \in Players |-> Closed(tp[p], p, h)]
    BY <1>3 DEF EndTx, StillActive
  <2>2. t'.status = "completed" /\ t'.buyIn = t.buyIn
    BY <1>1, <2>1 DEF Tournament
  <2>3. ASSUME NEW p \in Players
        PROVE  tp'[p].invested = tp[p].invested /\ (tp[p].row => tp'[p].row) /\ Stakes(p)
    BY <2>1 DEF Closed, IInv, TypeOK, Seat, StakesInv
  <2> QED
    BY <1>1, <2>2, <2>3 DEF Stakes
<1> QED
  BY <1>2, <1>3

LEMMA StakesDeleteTx ==
  ASSUME IInv, TurnInv, StakesInv, NEW h \in Handlers, DeleteTx(h)
  PROVE  \A p \in Players : Stakes(p)'
<1> DEFINE back(p) == IF req[h].seen.status = "scheduled" /\ p \in reg THEN BuyInOf(h) ELSE 0
<1>1. Exists /\ BuyInOf(h) = t.buyIn
  BY DEF DeleteTx, At, TurnInv, Fresh, BuyInOf
<1>2. /\ t' = [Unborn EXCEPT !.status = "deleted"] /\ reg' = {}
      /\ tp' = [p \in Players |-> NoSeat] /\ charged' = charged
      /\ refunded' = [p \in Players |-> refunded[p] + back(p)]
  BY <1>1 DEF DeleteTx
<1>3. t'.status = "deleted"
  BY <1>2 DEF Unborn
<1>4. ASSUME NEW p \in Players
      PROVE  Stakes(p)'
  <2>1. /\ refunded'[p] = refunded[p] + back(p) /\ tp'[p] = NoSeat /\ Stakes(p)
        /\ refunded[p] \in Nat /\ charged[p] \in Nat /\ t.buyIn \in Nat
    BY <1>2 DEF StakesInv, IInv, TypeOK, Tournament
  <2>2. refunded'[p] <= charged'[p]
    BY <1>1, <1>2, <2>1 DEF Stakes
  <2> QED
    BY <1>2, <1>3, <2>1, <2>2 DEF Stakes, NoSeat
<1> QED
  BY <1>4

\* Putting in the field a registered player who is not in it.
LEMMA TurnEnroll ==
  ASSUME IInv, TurnInv, Alone', NEW h \in Handlers, Enroll(h)
  PROVE  TurnInv'
<1> DEFINE exit == [req[h] EXCEPT !.pc = "exit"]
           rebuy == [req[h] EXCEPT !.pc = "rebuy"]
<1>1. Fresh(h) /\ req[h].pc = "enroll" /\ req[h] \in Request
  BY DEF TurnInv, Enroll, At, IInv, TypeOK
<1>2. /\ Exists /\ UNCHANGED <<t, reg, wallet, line, charged, refunded>>
      /\ Becomes(h, exit) \/ Becomes(h, rebuy) \/ Done(h)
  BY <1>1 DEF Enroll, money, Goto, Fresh
<1>3. WithinLimit'
  BY TurnWithin
<1>4. ASSUME NEW r \in {exit, rebuy}, req' = [req EXCEPT ![h] = r]
      PROVE  TurnInv'
  <2>1. r.pc \in {"exit", "rebuy"} /\ r.seen = req[h].seen /\ req'[h] = r
    BY <1>1, <1>4 DEF Request, IInv, TypeOK
  <2>2. Fresh(h)'
    BY <1>1, <1>2, <2>1 DEF Fresh, Busy, Exists
  <2> HIDE DEF exit, rebuy
  <2> QED
    BY <1>3, <1>4, <2>1, <2>2, TurnKept
<1>5. CASE Done(h)
  BY <1>1, <1>3, <1>5, TurnDone DEF Busy
<1> HIDE DEF exit, rebuy
<1> QED
  BY <1>2, <1>4, <1>5 DEF Becomes

LEMMA StakesEnroll ==
  ASSUME IInv, TurnInv, StakesInv, NEW h \in Handlers, Enroll(h)
  PROVE  \A p \in Players : Stakes(p)'
<1> DEFINE p == The(h)
<1>1. Fresh(h) /\ req[h].pc = "enroll"
  BY DEF TurnInv, Enroll, At
<1>2. /\ p \in Players /\ p \in reg /\ Exists /\ ~tp[p].row /\ t.status = "active"
      /\ BuyInOf(h) = t.buyIn
  BY <1>1, TheIsAPlayer DEF Fresh, BuyInOf
<1>3. /\ tp' = [tp EXCEPT ![p] = Enrolled(tp[p], t.buyIn)]
      /\ UNCHANGED <<t, reg, charged, refunded>>
  BY <1>2 DEF Enroll, money
<1>4. ASSUME NEW q \in Players
      PROVE  Stakes(q)'
  <2>1. /\ Stakes(q) /\ tp \in [Players -> Seat] /\ t.buyIn \in Nat
        /\ refunded[q] \in Nat /\ charged[q] \in Nat
    BY DEF StakesInv, IInv, TypeOK, Tournament
  <2> HIDE DEF p
  <2>2. CASE q = p
    <3>1. tp'[q].row /\ tp'[q].invested = tp[q].invested + t.buyIn
      BY <1>2, <1>3, <2>1, <2>2 DEF Enrolled
    <3>2. tp[q].invested = 0 /\ refunded[q] + t.buyIn <= charged[q]
      BY <1>2, <2>1, <2>2 DEF Stakes
    <3>3. tp'[q].invested <= charged'[q]
      BY <1>3, <2>1, <3>1, <3>2
    <3> QED
      BY <1>2, <1>3, <2>1, <3>1, <3>3 DEF Stakes
  <2>3. CASE q # p
    <3>1. tp'[q] = tp[q]
      BY <1>3, <2>1, <2>3
    <3> QED
      BY <1>3, <2>1, <3>1 DEF Stakes
  <2> QED
    BY <2>2, <2>3
<1> QED
  BY <1>4

LEMMA StakesExitTx ==
  ASSUME IInv, StakesInv, NEW h \in Handlers, ExitTx(h)
  PROVE  \A p \in Players : Stakes(p)'
<1> DEFINE p == The(h)
<1>1. /\ UNCHANGED <<t, reg, charged, refunded>> /\ tp \in [Players -> Seat]
      /\ tp' = tp \/ tp' = [tp EXCEPT ![p].exited = TRUE, ![p].active = FALSE]
  BY DEF ExitTx, IInv, TypeOK
<1> HIDE DEF p
<1>2. ASSUME NEW q \in Players
      PROVE  Stakes(q)'
  <2>1. Stakes(q) /\ tp'[q].row = tp[q].row /\ tp'[q].invested = tp[q].invested
    BY <1>1 DEF StakesInv, Seat
  <2> QED
    BY <1>1, <2>1 DEF Stakes
<1> QED
  BY <1>2

LEMMA StakesRebuyTx ==
  ASSUME IInv, StakesInv, NEW h \in Handlers, RebuyTx(h)
  PROVE  \A p \in Players : Stakes(p)'
<1> DEFINE p == The(h)
           b == BuyInOf(h)
<1>1. /\ p \in Players
      /\ charged' = [charged EXCEPT ![p] = charged[p] + b]
  BY RebuyBooks
<1>2. /\ b \in Nat /\ charged \in [Players -> Nat] /\ tp \in [Players -> Seat]
      /\ refunded \in [Players -> Nat] /\ t.buyIn \in Nat
  BY SeenTypes DEF IInv, TypeOK, Tournament
<1>3. UNCHANGED <<t, reg, refunded>>
  BY DEF RebuyTx
<1>4. \/ tp' = tp
      \/ tp[p].row /\ tp' = [tp EXCEPT ![p].invested = tp[p].invested + b]
      \/ tp[p].row /\ tp' = [tp EXCEPT ![p] = Enrolled(tp[p], b)]
  BY DEF RebuyTx
<1> HIDE DEF p, b
<1>5. ASSUME NEW q \in Players
      PROVE  Stakes(q)'
  <2>1. Stakes(q) /\ tp[q] \in Seat /\ charged[q] \in Nat /\ refunded[q] \in Nat
    BY <1>2 DEF StakesInv
  <2>2. CASE q = p
    <3>1. charged'[q] = charged[q] + b
      BY <1>1, <1>2, <2>2
    <3>2. /\ tp'[q].row = tp[q].row
          /\ tp'[q].invested = tp[q].invested \/ (tp[q].row /\ tp'[q].invested = tp[q].invested + b)
      <4>1. CASE tp' = tp
        BY <4>1
      <4>2. CASE tp[p].row /\ tp' = [tp EXCEPT ![p].invested = tp[p].invested + b]
        BY <1>1, <1>2, <2>1, <2>2, <4>2 DEF Seat
      <4>3. CASE tp[p].row /\ tp' = [tp EXCEPT ![p] = Enrolled(tp[p], b)]
        BY <1>1, <1>2, <2>2, <4>3 DEF Enrolled
      <4> QED
        BY <1>4, <4>1, <4>2, <4>3
    <3>3. tp[q].invested \in Nat
      BY <2>1 DEF Seat
    <3> QED
      BY <1>1, <1>2, <1>3, <2>1, <3>1, <3>2, <3>3 DEF Stakes
  <2>3. CASE q # p
    <3>1. charged'[q] = charged[q] /\ tp'[q] = tp[q]
      BY <1>1, <1>2, <1>4, <2>3
    <3> QED
      BY <1>1, <1>3, <2>1, <3>1 DEF Stakes
  <2> QED
    BY <2>2, <2>3
<1> QED
  BY <1>5

LEMMA TurnStep ==
  ASSUME CountInv, TurnInv, Alone', [Next]_vars
  PROVE  TurnInv'
<1>1. IInv
  BY DEF CountInv
<1>2. ASSUME NEW h \in Handlers,
             \/ RegisterTx(h) \/ CancelTx(h) \/ UpdateTx(h) \/ StartTx(h) \/ StopPlayers(h)
             \/ EndTx(h) \/ DeleteTx(h) \/ ExitTx(h) \/ RebuyTx(h)
      PROVE  TurnInv'
  <2>1. WithinLimit'
    BY <1>1, <1>2, TurnRegisterTx, TurnWithin
  <2>2. Busy(h) /\ Done(h)
    BY <1>2 DEF Busy, At, RegisterTx, CancelTx, UpdateTx, StartTx, StopPlayers, EndTx, DeleteTx,
       ExitTx, RebuyTx
  <2> QED
    BY <1>1, <2>1, <2>2, TurnDone
<1>3. ASSUME NEW h \in Handlers, NEW new \in NewTournaments, CreateTournament(h, new)
      PROVE  TurnInv'
  BY <1>3, TurnCreate
<1>4. ASSUME NEW h \in Handlers, Loading(h)
      PROVE  TurnInv'
  BY <1>1, <1>4, TurnLoading
<1>5. ASSUME NEW h \in Handlers, RegisterFunds(h) \/ StopStatus(h) \/ Enroll(h)
      PROVE  TurnInv'
  BY <1>1, <1>5, TurnRegisterFunds, TurnStopStatus, TurnEnroll
<1>6. ASSUME Minute \/ UNCHANGED vars
      PROVE  TurnInv'
  <2>1. UNCHANGED <<reg, tp, wallet, line, req>>
    BY <1>6 DEF Minute, vars, money
  <2>2. /\ t'.status = t.status /\ t'.buyIn = t.buyIn /\ t'.count = t.count /\ t'.size = t.size
        /\ t'.game = t.game /\ t'.fee = t.fee
    BY <1>1, <1>6 DEF Minute, vars, IInv, TypeOK, Tournament
  <2>3. ASSUME NEW h \in Handlers
        PROVE  Fresh(h)'
    <3>1. Fresh(h) /\ The(h)' = The(h)
      BY <2>1 DEF TurnInv, The
    <3> QED
      BY <2>1, <2>2, <3>1 DEF Fresh, Affords, Busy, Exists
  <2> QED
    BY <2>1, <2>3 DEF TurnInv, WithinLimit
<1> QED
  BY <1>2, <1>3, <1>4, <1>5, <1>6, Steps, Zenon

LEMMA StakesStep ==
  ASSUME CountInv, TurnInv, StakesInv, t'.game = "poker", [Next]_vars,
         \A h \in Handlers : At(h, "edit") => KeepsStakes(req[h])
  PROVE  StakesInv'
<1>1. IInv
  BY DEF CountInv
<1>2. ASSUME NEW h \in Handlers,
             \/ RegisterTx(h) \/ CancelTx(h) \/ UpdateTx(h) \/ StartTx(h) \/ StopStatus(h)
             \/ StopPlayers(h) \/ EndTx(h) \/ DeleteTx(h) \/ Enroll(h) \/ ExitTx(h) \/ RebuyTx(h)
      PROVE  \A p \in Players : Stakes(p)'
  <2>1. UpdateTx(h) => KeepsStakes(req[h])
    BY DEF UpdateTx
  <2> QED
    BY <1>1, <1>2, <2>1, StakesRegisterTx, StakesCancelTx, StakesUpdateTx, StakesStartTx,
       StakesStops, StakesEndTx, StakesDeleteTx, StakesEnroll, StakesExitTx, StakesRebuyTx, Zenon
<1>3. ASSUME NEW h \in Handlers, NEW new \in NewTournaments, CreateTournament(h, new)
      PROVE  \A p \in Players : Stakes(p)'
  BY <1>3, StakesCreate
<1>4. ASSUME NEW h \in Handlers, Loading(h) \/ RegisterFunds(h)
      PROVE  \A p \in Players : Stakes(p)'
  <2>1. UNCHANGED <<t, reg, tp, charged, refunded>>
    BY <1>4, LoadingReads DEF RegisterFunds, money
  <2> QED
    BY <2>1, StakesKept
<1>5. ASSUME Minute \/ UNCHANGED vars
      PROVE  \A p \in Players : Stakes(p)'
  <2>1. UNCHANGED <<reg, tp, charged, refunded>>
    BY <1>5 DEF Minute, vars, money
  <2>2. t'.status = t.status /\ t'.buyIn = t.buyIn
    BY <1>1, <1>5 DEF Minute, vars, IInv, TypeOK, Tournament
  <2> QED
    BY <2>1, <2>2, StakesKept
<1>6. \A p \in Players : Stakes(p)'
  BY <1>2, <1>3, <1>4, <1>5, Steps, Zenon
<1> QED
  BY <1>6 DEF StakesInv

LEMMA MCInits ==
  ASSUME MCInit
  PROVE  MCInv
<1>1. CountInv /\ mode \in Modes /\ IInv
  BY InitCount, InitTypes DEF MCInit
<1>2. /\ \A h \in Handlers : req[h] = Idle
      /\ t = Unborn /\ reg = {}
      /\ \A p \in Players : tp[p] = NoSeat /\ line[p] = 0 /\ charged[p] = 0 /\ refunded[p] = 0
  BY DEF MCInit, Init
<1>3. \A h \in Handlers : req[h].pc = "idle"
  BY <1>2 DEF Idle
<1>4. t.status = "unborn" /\ t.game = "poker"
  BY <1>2 DEF Unborn
<1>5. {h \in Handlers : ~At(h, "idle")} = {}
  BY <1>3 DEF At
<1>6. Cardinality({h \in Handlers : ~At(h, "idle")}) <= 1
  BY <1>5, FS_EmptySet
<1>7. InMode
  <2>1. \A h \in Handlers : ~At(h, "edit") /\ ~At(h, "cancel")
    BY <1>3 DEF At
  <2> QED
    BY <1>4, <1>6, <2>1, Zenon DEF InMode
<1>8. StakesInv
  BY <1>2, <1>4 DEF StakesInv, Stakes, NoSeat
<1>9. TurnInv
  BY <1>2, <1>3, Constants DEF TurnInv, Alone, Fresh, Busy, WithinLimit
<1> QED
  BY <1>1, <1>7, <1>8, <1>9 DEF MCInv

LEMMA MCSteps ==
  ASSUME IsFiniteSet(Handlers), Modes \subseteq {"in turn", "stakes kept", "at once"}, MCInv,
         [MCNext]_<<vars, mode>>
  PROVE  MCInv'
<1>1. /\ CountInv /\ InMode /\ mode \in Modes
      /\ (InTurn => TurnInv) /\ (mode = "stakes kept" => StakesInv)
  BY DEF MCInv
<1>2. [Next]_vars /\ mode' = mode
  BY DEF MCNext, Next
<1>3. InMode'
  <2>1. CASE MCNext
    BY <2>1 DEF MCNext
  <2>2. CASE UNCHANGED <<vars, mode>>
    <3>1. UNCHANGED <<t, req, mode>>
      BY <2>2 DEF vars
    <3> QED
      BY <1>1, <3>1 DEF InMode, InTurn, At, KeepsStakes
  <2> QED
    BY <2>1, <2>2
<1>4. CancelsStand
  <2>1. CASE InTurn
    BY <1>1, <2>1 DEF TurnInv, Fresh, CancelsStand, At
  <2>2. CASE mode = "at once"
    BY <1>1, <2>2 DEF InMode, CancelsStand
  <2> QED
    BY <1>1, <2>1, <2>2 DEF InTurn
<1>5. CountInv'
  BY <1>1, <1>2, <1>4, NextCount
<1>6. ASSUME InTurn
      PROVE  TurnInv'
  <2>1. Alone'
    <3>1. Cardinality({k \in Handlers : ~(req'[k].pc = "idle")}) <= 1
      BY <1>2, <1>3, <1>6 DEF InMode, InTurn, At
    <3>2. ASSUME NEW g \in Handlers, NEW h \in Handlers, req'[g].pc # "idle", req'[h].pc # "idle"
          PROVE  g = h
      BY <3>1, <3>2, OneBusy
    <3> QED
      BY <3>2 DEF Alone, Busy
  <2> QED
    BY <1>1, <1>2, <1>6, <2>1, TurnStep
<1>7. ASSUME mode = "stakes kept"
      PROVE  StakesInv'
  <2>1. t'.game = "poker" /\ \A h \in Handlers : At(h, "edit") => KeepsStakes(req[h])
    BY <1>1, <1>2, <1>3, <1>7 DEF InMode
  <2> QED
    BY <1>1, <1>2, <1>7, <2>1, StakesStep DEF InTurn
<1> QED
  BY <1>1, <1>2, <1>3, <1>5, <1>6, <1>7 DEF MCInv, InTurn

\* CountIsExact: with requests in turn, cancellations and every edit among them,
\* and with requests at once where nobody cancels, current_players is the number
\* of registrations.
THEOREM CountKeptInModes ==
  ASSUME IsFiniteSet(Handlers), Modes \subseteq {"in turn", "stakes kept", "at once"}
  PROVE  MCSpec => []CountIsExact
<1>1. MCInit => MCInv
  BY MCInits
<1>2. MCInv /\ [MCNext]_<<vars, mode>> => MCInv'
  BY MCSteps
<1>3. MCInv => CountIsExact
  BY DEF MCInv, CountInv
<1> QED
  BY <1>1, <1>2, <1>3, PTL DEF MCSpec

\* StakesInTurn: with requests in turn, and edits that leave the buy-in, the game
\* and the schedule alone, what the desk reports as invested was charged, and
\* cancellations and deletions refund no more than was charged.
THEOREM StakesStayInTurn ==
  ASSUME IsFiniteSet(Handlers), Modes \subseteq {"in turn", "stakes kept", "at once"}
  PROVE  MCSpec => []StakesInTurn
<1>1. MCInit => MCInv
  BY MCInits
<1>2. MCInv /\ [MCNext]_<<vars, mode>> => MCInv'
  BY MCSteps
<1>3. MCInv => StakesInTurn
  BY DEF MCInv, StakesInv, Stakes, StakesInTurn, InvestedWasCharged, RefundsWithinCharges
<1> QED
  BY <1>1, <1>2, <1>3, PTL DEF MCSpec

\* AdmitsInTurn: with requests in turn, whatever edits were made, a registration
\* goes beyond no capacity and overdraws neither the wallet nor the credit limit,
\* whatever the wallet paid and the line was drawn.
THEOREM RegistrationsAreAdmitted ==
  ASSUME IsFiniteSet(Handlers), Modes \subseteq {"in turn", "stakes kept", "at once"}
  PROVE  MCSpec => AdmitsInTurn
<1>1. MCInit => MCInv
  BY MCInits
<1>2. MCInv /\ [MCNext]_<<vars, mode>> => MCInv'
  BY MCSteps
<1>3. MCInv /\ MCInv' /\ [MCNext]_<<vars, mode>> => [InTurn => Admits]_vars
  <2> SUFFICES ASSUME MCInv, MCInv', Next, InTurn
               PROVE  Admits
    BY DEF MCNext, Next
  <2>1. IInv /\ TurnInv /\ CountIsExact'
    BY DEF MCInv, CountInv
  <2> SUFFICES ASSUME NEW h \in Handlers, At(h, "register"), NEW p \in req[h].who,
                      reg' # reg, p \in reg'
               PROVE  /\ wallet'[p] >= 0 /\ line'[p] <= Limit
                      /\ Cardinality(reg') <= t'.size
    BY DEF Admits
  <2>2. p = The(h) /\ p \in Players
    BY <2>1, TheIsAPlayer DEF At
  <2>3. p \notin reg
    BY <2>1, <2>2 DEF TurnInv, Fresh, At
  <2>4. PICK k \in Handlers : RegisterTx(k)
    BY <2>3, Steps, LoadingReads, ZenonT(30)
       DEF Minute, RegisterFunds, CancelTx, Unregistered, CreateTournament, UpdateTx, StartTx,
           StopStatus, StopPlayers, EndTx, DeleteTx, Enroll, ExitTx, RebuyTx
  <2>5. k = h
    BY <2>1, <2>4 DEF TurnInv, Alone, Busy, At, RegisterTx
  <2>6. t'.count <= t'.size /\ wallet'[p] >= 0 /\ WithinLimit'
    BY <2>1, <2>2, <2>4, <2>5, TurnRegisterTx
  <2> QED
    BY <2>1, <2>2, <2>6 DEF WithinLimit, CountIsExact
<1> QED
  BY <1>1, <1>2, <1>3, PTL DEF MCSpec, AdmitsInTurn
=============================================================================
