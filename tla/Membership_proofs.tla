-------------------------- MODULE Membership_proofs --------------------------
(***************************************************************************)
(* Theorems about Membership and Books, for any players, affiliates,       *)
(* papers, ledger rows, products and number of requests under way.         *)
(*                                                                         *)
(*   TypeCorrect         every variable keeps its type (TypeOK)            *)
(*   IdentitiesKept      no two players share an email or a PAN            *)
(*                       (IdentitiesUnique)                                *)
(*   PansKept            a PAN, once set, stays (PanImmutable)             *)
(*   ReviewsAreFinal     a profile change is reviewed once (ReviewIsFinal) *)
(*   CommissionKept      an affiliate is owed the sum of his payments      *)
(*                       (CommissionInSync)                                *)
(*   BooksTypesKept      types of rows, products and purchases, and no     *)
(*                       stock below zero (BooksTypeOK)                    *)
(*   AmountsKept         an override never hides what was first booked     *)
(*                       (FirstAmountKept)                                 *)
(*   CancelledRowsStay   a cancelled row stays cancelled (CancelledStays)  *)
(*   PurchasesAreCovered points are spent once (PurchaseCovered)           *)
(*                                                                         *)
(* The checks that handlers make on what they loaded prove neither that    *)
(* identities are unique nor that PANs stay: what a request writes is      *)
(* compared with the rows that are there when it is written, by the        *)
(* indexes and the trigger.  Only writes of other columns get past these,  *)
(* and they leave email and PAN alone.                                     *)
(*                                                                         *)
(* The five others hold where a desk takes its requests in turn, as the    *)
(* runs do, and their invariants say what the one request under way has    *)
(* loaded: a request that is pending (ReviewInv), an affiliate's books as  *)
(* they are (Carries), a row under which what was booked is kept           *)
(* (BookedInv), a row nobody has cancelled since (Closed), the points      *)
(* there still are (Cleared).  BookedInv is about rows posted as completed *)
(* only: an update gives a pending one another amount.                     *)
(***************************************************************************)
EXTENDS MCMembership, Sums

\* Every payment, and every correction on its way, is some affiliate's.
PaidTo ==
  /\ \A t \in Payments : payment[t] = NoPayment \/ payment[t].to \in Affiliates
  /\ \A h \in Handlers : At(h, "override") => req[h].pay.to \in Affiliates

IInv == TypeOK /\ PaidTo /\ IdentitiesUnique

-----------------------------------------------------------------------------
(* Rows.                                                                   *)

LEMMA BlankRows ==
  /\ NoPlayer \in Player /\ NoChange \in Change /\ NoAffiliate \in Affiliate
  /\ NoPayment \in Payment /\ Idle \in Request
<1>1. NoPlayer \in Player
  BY DEF NoPlayer, Player
<1>2. NoChange \in Change
  BY DEF NoChange, Change
<1>3. NoAffiliate \in Affiliate /\ NoPayment \in Payment
  BY DEF NoAffiliate, Affiliate, NoPayment, Payment
<1> QED
  BY <1>1, <1>2, <1>3 DEF Idle, Request

\* A row the database accepts, put in its place, keeps the players apart.
LEMMA AcceptedApart ==
  ASSUME IInv, NEW p, NEW row \in Player, ~Clash(p, row),
         player' = [player EXCEPT ![p] = row]
  PROVE  IdentitiesUnique'
<1>1. player \in [Players -> Player]
  BY DEF IInv, TypeOK
<1>2. \A q \in Players : player'[q] = IF q = p THEN row ELSE player[q]
  BY <1>1
<1>3. \A q \in Players \ {p} : player[q].there =>
        /\ player[q].email # row.email
        /\ player[q].pan = row.pan => row.pan = "none"
  BY DEF Clash, EmailTaken, PanTaken, Others, There
<1> QED
  BY <1>2, <1>3 DEF IInv, IdentitiesUnique, There

\* Writes of other columns, and removals, keep the players apart.
LEMMA OtherColumnsApart ==
  ASSUME IInv,
         \A p \in Players : player'[p].there =>
           /\ player[p].there
           /\ player'[p].email = player[p].email /\ player'[p].pan = player[p].pan
  PROVE  IdentitiesUnique'
BY DEF IInv, IdentitiesUnique, There

-----------------------------------------------------------------------------
(* Handlers load rows.                                                     *)

LEMMA ReadKeeps ==
  ASSUME IInv, NEW h \in Handlers, NEW r \in Request, Becomes(h, r), Reading,
         r.pc = "override" => r.pay.to \in Affiliates
  PROVE  IInv'
<1>1. TypeOK'
  BY DEF IInv, TypeOK, Becomes, Reading
<1>2. PaidTo'
  BY DEF IInv, TypeOK, PaidTo, At, Becomes, Reading
<1>3. IdentitiesUnique'
  BY DEF IInv, IdentitiesUnique, There, Reading
<1> QED
  BY <1>1, <1>2, <1>3 DEF IInv

LEMMA GoesKeeps ==
  ASSUME IInv, NEW h \in Handlers, NEW p \in Players, NEW row \in Player,
         NEW pc \in {"insert", "verdict", "save", "documents", "remove"}, Goes(h, pc, p, row)
  PROVE  IInv'
<1> DEFINE r == [Idle EXCEPT !.pc = pc, !.p = p, !.row = row]
<1>1. r \in Request /\ r.pc # "override"
  BY BlankRows DEF Request, Idle
<1>2. Becomes(h, r) /\ Reading
  BY DEF Goes
<1> HIDE DEF r
<1> QED
  BY <1>1, <1>2, ReadKeeps

LEMMA Joins ==
  ASSUME IInv, NEW h \in Handlers, JoinStep(h, Affiliates \cup {"none"})
  PROVE  IInv'
<1>1. PICK p \in Players, e \in Emails, t \in Tilts, a \in Affiliates \cup {"none"} :
        \/ PlayerSignup(h, p, e, t, a)
        \/ \E n \in Pans \cup {"none"} : CreatePlayer(h, p, e, t, n, a)
  BY DEF JoinStep
<1>2. InSmallLetters(e) \in Address
  BY DEF InSmallLetters, Address, Spelling
<1>3. CASE PlayerSignup(h, p, e, t, a)
  <2> DEFINE row == [NoPlayer EXCEPT !.there = TRUE, !.email = InSmallLetters(e), !.tilt = t,
                                     !.affiliate = a]
  <2>1. row \in Player
    BY <1>2, BlankRows DEF Player
  <2>2. Goes(h, "insert", p, row)
    BY <1>3 DEF PlayerSignup
  <2> HIDE DEF row
  <2> QED
    BY <2>1, <2>2, GoesKeeps
<1>4. ASSUME NEW n \in Pans \cup {"none"}, CreatePlayer(h, p, e, t, n, a) PROVE IInv'
  <2> DEFINE row == [NoPlayer EXCEPT !.there = TRUE, !.email = InSmallLetters(e), !.tilt = t,
                       !.pan = n, !.kyc = "approved", !.temporary = TRUE, !.affiliate = a]
             books == IF a = "none" THEN NoAffiliate ELSE affiliate[a]
             r == [Idle EXCEPT !.pc = "insert", !.p = p, !.a = a, !.books = books, !.row = row]
  <2>1. row \in Player
    BY <1>2, BlankRows DEF Player
  <2>2. books \in Affiliate
    BY BlankRows DEF IInv, TypeOK
  <2>3. Becomes(h, r) /\ Reading
    BY <1>4, Zenon DEF CreatePlayer
  <2> HIDE DEF row, books
  <2>4. r \in Request /\ r.pc # "override"
    BY <2>1, <2>2, BlankRows DEF Request, Idle
  <2> HIDE DEF r
  <2> QED
    BY <2>3, <2>4, ReadKeeps
<1> QED
  BY <1>1, <1>3, <1>4

LEMMA Standings ==
  ASSUME IInv, NEW h \in Handlers, StandingStep(h)
  PROVE  IInv'
<1>1. PICK p \in Players :
        \/ ApprovePlayer(h, p) \/ RejectPlayer(h, p)
        \/ SuspendPlayer(h, p) \/ UnsuspendPlayer(h, p) \/ ActivatePlayer(h, p)
        \/ ChangePlayerPassword(h, p) \/ ResetPlayerPassword(h, p)
  BY DEF StandingStep
<1>2. player[p] \in Player
  BY DEF IInv, TypeOK
<1>3. \A s \in {"Active", "Inactive", "Suspended", "Rejected"}, k \in {"approved", "rejected"} :
        /\ [player[p] EXCEPT !.status = s] \in Player
        /\ [player[p] EXCEPT !.status = s, !.kyc = k] \in Player
        /\ [player[p] EXCEPT !.temporary = FALSE] \in Player
  BY <1>2 DEF Player
<1>4. \/ \E s \in {"Active", "Rejected"}, k \in {"approved", "rejected"} :
           Goes(h, "verdict", p, [player[p] EXCEPT !.status = s, !.kyc = k])
      \/ \E s \in {"Active", "Suspended"}, pc \in {"verdict", "save"} :
           Goes(h, pc, p, [player[p] EXCEPT !.status = s])
      \/ Goes(h, "save", p, [player[p] EXCEPT !.temporary = FALSE])
  BY <1>1 DEF ApprovePlayer, RejectPlayer, SuspendPlayer, UnsuspendPlayer, ActivatePlayer,
              ChangePlayerPassword, ResetPlayerPassword
<1> QED
  BY <1>3, <1>4, GoesKeeps

LEMMA Edits ==
  ASSUME IInv, NEW h \in Handlers, EditStep(h, {"Active", "Inactive", "Suspended"})
  PROVE  IInv'
<1>1. PICK p \in Players :
        \/ DeletePlayer(h, p)
        \/ \E e \in Emails, t \in Tilts \cup {"none"}, s \in {"Active", "Inactive", "Suspended"} :
             UpdatePlayer(h, p, e, t, s)
  BY DEF EditStep
<1>2. player[p] \in Player
  BY DEF IInv, TypeOK
<1>3. CASE DeletePlayer(h, p)
  BY <1>2, <1>3, GoesKeeps DEF DeletePlayer
<1>4. ASSUME NEW e \in Emails, NEW t \in Tilts \cup {"none"},
             NEW s \in {"Active", "Inactive", "Suspended"}, UpdatePlayer(h, p, e, t, s)
      PROVE  IInv'
  <2> DEFINE row == [player[p] EXCEPT !.email = InSmallLetters(e), !.tilt = t, !.status = s]
  <2>1. Goes(h, "save", p, row)
    BY <1>4 DEF UpdatePlayer
  <2>2. InSmallLetters(e) \in Address
    BY DEF InSmallLetters, Address, Spelling
  <2>3. row \in Player
    BY <1>2, <2>2 DEF Player
  <2> HIDE DEF row
  <2> QED
    BY <2>1, <2>3, GoesKeeps
<1> QED
  BY <1>1, <1>3, <1>4

LEMMA PapersKeep ==
  ASSUME IInv, NEW h \in Handlers, PaperStep(h)
  PROVE  IInv'
<1>1. PICK p \in Players :
        \/ \E n \in Pans : SubmitPanCard(h, p, n)
        \/ \E s \in Slot : UploadDocument(h, p, s) \/ DeleteDocument(h, p, s)
  BY DEF PaperStep
<1>2. player[p] \in Player
  BY DEF IInv, TypeOK
<1>3. ASSUME NEW n \in Pans, SubmitPanCard(h, p, n) PROVE IInv'
  <2>1. Goes(h, "save", p, [player[p] EXCEPT !.pan = n])
    BY <1>3 DEF SubmitPanCard
  <2>2. [player[p] EXCEPT !.pan = n] \in Player
    BY <1>2 DEF Player
  <2> QED
    BY <2>1, <2>2, GoesKeeps
<1>4. ASSUME NEW s \in Slot, UploadDocument(h, p, s) PROVE IInv'
  <2> DEFINE row == [player[p] EXCEPT !.docs = @ \cup {s}]
  <2>1. Goes(h, "documents", p, row)
    BY <1>4 DEF UploadDocument
  <2>2. row \in Player
    BY <1>2 DEF Player
  <2> HIDE DEF row
  <2> QED
    BY <2>1, <2>2, GoesKeeps
<1>5. ASSUME NEW s \in Slot, DeleteDocument(h, p, s) PROVE IInv'
  <2> DEFINE row == [player[p] EXCEPT !.docs = @ \ {s}]
  <2>1. Goes(h, "documents", p, row)
    BY <1>5 DEF DeleteDocument
  <2>2. row \in Player
    BY <1>2 DEF Player
  <2> HIDE DEF row
  <2> QED
    BY <2>1, <2>2, GoesKeeps
<1> QED
  BY <1>1, <1>3, <1>4, <1>5

LEMMA ReviewsKeep ==
  ASSUME IInv, NEW h \in Handlers, ReviewStep(h)
  PROVE  IInv'
<1>1. ASSUME NEW c \in Changes, NEW p \in Players, NEW field \in {"email"} \cup Slot,
             NEW email \in Address \cup {NoAddress}, RequestChange(h, p, c, field, email)
      PROVE  IInv'
  <2> DEFINE new == [status |-> "pending", player |-> p, field |-> field, email |-> email]
  <2>1. new \in Change
    BY DEF Change
  <2>2. change' = [change EXCEPT ![c] = new] /\ UNCHANGED <<player, affiliate, payment, req>>
    BY <1>1 DEF RequestChange
  <2> HIDE DEF new
  <2> QED
    BY <2>1, <2>2 DEF IInv, TypeOK, PaidTo, At, IdentitiesUnique, There
<1>2. ASSUME NEW c \in Changes, DismissChange(c) PROVE IInv'
  BY <1>2, BlankRows DEF DismissChange, IInv, TypeOK, PaidTo, At, IdentitiesUnique, There
<1>3. ASSUME NEW c \in Changes, ApproveRequest(h, c) PROVE IInv'
  <2> DEFINE p == change[c].player
             row == Applied(player[p], change[c])
             r == [Idle EXCEPT !.pc = "approve", !.c = c, !.p = p, !.row = row]
  <2>1. Becomes(h, r) /\ Reading /\ p \in Players
    BY <1>3, Zenon DEF ApproveRequest, There
  <2>2. player[p] \in Player /\ change[c] \in Change
    BY <2>1 DEF IInv, TypeOK
  <2>3. row \in Player
    BY <2>2 DEF Applied, Player, Change
  <2> HIDE DEF row, p
  <2>4. r \in Request /\ r.pc # "override"
    BY <2>1, <2>3, BlankRows DEF Request, Idle
  <2> HIDE DEF r
  <2> QED
    BY <2>1, <2>4, ReadKeeps
<1>4. ASSUME NEW c \in Changes, RejectRequest(h, c) PROVE IInv'
  <2> DEFINE r == [Idle EXCEPT !.pc = "reject", !.c = c]
  <2>1. Becomes(h, r) /\ Reading
    BY <1>4 DEF RejectRequest
  <2>2. r \in Request /\ r.pc # "override"
    BY BlankRows DEF Request, Idle
  <2> HIDE DEF r
  <2> QED
    BY <2>1, <2>2, ReadKeeps
<1> QED
  BY <1>1, <1>2, <1>3, <1>4 DEF ReviewStep

LEMMA AffiliateWork ==
  ASSUME IInv, NEW h \in Handlers, AffiliateStep(h)
  PROVE  IInv'
<1>1. ASSUME NEW a \in Affiliates, CreateAffiliate(a) PROVE IInv'
  <2> DEFINE new == [NoAffiliate EXCEPT !.there = TRUE]
  <2>1. new \in Affiliate
    BY BlankRows DEF Affiliate
  <2>2. affiliate' = [affiliate EXCEPT ![a] = new] /\ UNCHANGED <<player, change, payment, req>>
    BY <1>1 DEF CreateAffiliate
  <2> HIDE DEF new
  <2> QED
    BY <2>1, <2>2 DEF IInv, TypeOK, PaidTo, At, IdentitiesUnique, There
<1>2. ASSUME NEW a \in Affiliates, UpdateAffiliate(h, a) PROVE IInv'
  <2> DEFINE r == [Idle EXCEPT !.pc = "commission", !.a = a, !.books = affiliate[a]]
  <2>1. Becomes(h, r) /\ Reading
    BY <1>2 DEF UpdateAffiliate
  <2>2. affiliate[a] \in Affiliate
    BY DEF IInv, TypeOK
  <2>3. r \in Request /\ r.pc # "override"
    BY <2>2, BlankRows DEF Request, Idle
  <2> HIDE DEF r
  <2> QED
    BY <2>1, <2>3, ReadKeeps
<1>3. ASSUME NEW a \in Affiliates, NEW t \in Payments, NEW m \in Amounts,
             ProcessPayment(h, a, t, m)
      PROVE  IInv'
  <2> DEFINE pay == [NoPayment EXCEPT !.to = a, !.amount = m]
             books == [affiliate[a] EXCEPT !.commission = @ + m]
             r == [Idle EXCEPT !.pc = "commission", !.a = a, !.books = books]
  <2>1. payment' = [payment EXCEPT ![t] = pay] /\ Becomes(h, r)
        /\ UNCHANGED <<player, change, affiliate>>
    BY <1>3, Zenon DEF ProcessPayment
  <2>2. m \in Nat
    BY MembershipAssumption
  <2>3. pay \in Payment /\ pay.to = a
    BY <2>2, BlankRows DEF Payment
  <2>4. affiliate[a] \in Affiliate
    BY DEF IInv, TypeOK
  <2>5. books \in Affiliate
    BY <2>2, <2>4 DEF Affiliate
  <2> HIDE DEF pay, books
  <2>6. r \in Request /\ r.pc # "override"
    BY <2>5, BlankRows DEF Request, Idle
  <2> HIDE DEF r
  <2>7. TypeOK'
    BY <2>1, <2>3, <2>6 DEF IInv, TypeOK, Becomes
  <2>8. PaidTo'
    BY <2>1, <2>3, <2>6 DEF IInv, TypeOK, PaidTo, At, Becomes
  <2> QED
    BY <2>1, <2>7, <2>8 DEF IInv, IdentitiesUnique, There
<1>4. ASSUME NEW t \in Payments, NEW m \in Amounts, OverridePayment(h, t, m) PROVE IInv'
  <2> DEFINE a == payment[t].to
             pay == [payment[t] EXCEPT
                       !.original = IF payment[t].overridden THEN @ ELSE payment[t].amount,
                       !.overridden = TRUE, !.amount = m]
             books == [affiliate[a] EXCEPT !.commission = @ + Delta(payment[t], m)]
             r == [Idle EXCEPT !.pc = "override", !.t = t, !.a = a, !.pay = pay, !.books = books]
  <2>1. Becomes(h, r) /\ Reading /\ payment[t] # NoPayment
    BY <1>4, Zenon DEF OverridePayment
  <2>2. a \in Affiliates /\ payment[t] \in Payment /\ m \in Nat
    BY <2>1, MembershipAssumption DEF IInv, TypeOK, PaidTo
  <2>3. pay \in Payment /\ pay.to = a
    BY <2>2 DEF Payment
  <2>4. affiliate[a] \in Affiliate
    BY <2>2 DEF IInv, TypeOK
  <2>5. Delta(payment[t], m) \in Int
    BY <2>2 DEF Payment, Delta
  <2>6. books \in Affiliate
    BY <2>4, <2>5 DEF Affiliate
  <2> HIDE DEF pay, books, a
  <2>7. r \in Request /\ r.pay = pay
    BY <2>2, <2>3, <2>6, BlankRows DEF Request, Idle
  <2> HIDE DEF r
  <2> QED
    BY <2>1, <2>2, <2>3, <2>7, ReadKeeps
<1> QED
  BY <1>1, <1>2, <1>3, <1>4 DEF AffiliateStep

-----------------------------------------------------------------------------
(* Handlers write rows.                                                    *)

\* What a request writes is of the right type.
LEMMA Holds ==
  ASSUME IInv, NEW h \in Handlers
  PROVE  /\ req[h] \in Request /\ req[h].row \in Player /\ req[h].books \in Affiliate
         /\ req[h].pay \in Payment
BY DEF IInv, TypeOK, Request

\* A request that is done leaves the payments as they are.
LEMMA DoneKeeps ==
  ASSUME IInv, NEW h \in Handlers, Done(h), payment' = payment
  PROVE  PaidTo' /\ req' \in [Handlers -> Request] /\ payment' \in [Payments -> Payment]
<1>1. req' = [req EXCEPT ![h] = Idle]
  BY DEF Done, Becomes
<1>2. req' \in [Handlers -> Request]
  BY <1>1, BlankRows DEF IInv, TypeOK
<1>3. PaidTo'
  BY <1>1 DEF IInv, TypeOK, PaidTo, At, Idle
<1> QED
  BY <1>2, <1>3 DEF IInv, TypeOK

LEMMA Inserted ==
  ASSUME IInv, NEW h \in Handlers, InsertPlayer(h)
  PROVE  IInv'
<1> DEFINE r == [req[h] EXCEPT !.pc = "refer"]
<1>1. UNCHANGED <<change, affiliate, payment>>
  BY DEF InsertPlayer, WritesPlayers
<1>2. Becomes(h, Idle) \/ Becomes(h, r)
  BY DEF InsertPlayer, Done
<1>3. \/ player' = player
      \/ ~Clash(req[h].p, req[h].row) /\ player' = [player EXCEPT ![req[h].p] = req[h].row]
  BY DEF InsertPlayer
<1>4. r \in Request /\ r.pc # "override"
  BY Holds DEF Request
<1> HIDE DEF r
<1>5. req' \in [Handlers -> Request] /\ PaidTo'
  BY <1>1, <1>2, <1>4, BlankRows DEF Becomes, IInv, TypeOK, PaidTo, At, Idle
<1>6. player' \in [Players -> Player]
  BY <1>3, Holds DEF IInv, TypeOK
<1>7. IdentitiesUnique'
  BY <1>3, Holds, AcceptedApart, OtherColumnsApart
<1> QED
  BY <1>1, <1>5, <1>6, <1>7 DEF IInv, TypeOK

LEMMA Counted ==
  ASSUME IInv, NEW h \in Handlers, CountReferral(h) \/ SaveAffiliate(h)
  PROVE  IInv'
<1> DEFINE one == [req[h].books EXCEPT !.referrals = @ + 1]
<1>1. one \in Affiliate /\ req[h].books \in Affiliate
  BY Holds DEF Affiliate
<1>2. /\ Done(h) /\ UNCHANGED <<player, change, payment>>
      /\ \/ affiliate' = [affiliate EXCEPT ![req[h].a] = one]
         \/ affiliate' = [affiliate EXCEPT ![req[h].a] = req[h].books]
  BY DEF CountReferral, SaveAffiliate
<1> HIDE DEF one
<1>3. affiliate' \in [Affiliates -> Affiliate]
  BY <1>1, <1>2 DEF IInv, TypeOK
<1>4. IdentitiesUnique'
  BY <1>2 DEF IInv, IdentitiesUnique, There
<1> QED
  BY <1>2, <1>3, <1>4, DoneKeeps DEF IInv, TypeOK

\* A verdict and a list of documents are columns of their own.
LEMMA ColumnsWritten ==
  ASSUME IInv, NEW h \in Handlers, WriteVerdict(h) \/ WriteDocuments(h)
  PROVE  /\ \A p \in Players : /\ player'[p] \in Player
                               /\ player'[p].there = player[p].there
                               /\ player'[p].email = player[p].email
                               /\ player'[p].pan = player[p].pan
         /\ player' \in [Players -> Player]
<1> DEFINE r == req[h]
<1>1. player \in [Players -> Player] /\ r.row \in Player
  BY Holds DEF IInv, TypeOK
<1>2. \/ player' = player
      \/ player' = [player EXCEPT ![r.p] = [player[r.p] EXCEPT !.status = r.row.status,
                                                              !.kyc = r.row.kyc]]
      \/ player' = [player EXCEPT ![r.p] = [player[r.p] EXCEPT !.docs = r.row.docs]]
  <2>1. CASE r.p \in There
    <3>1. r.p \in Players
      BY <2>1 DEF There
    <3>2. CASE WriteVerdict(h)
      <4>1. player' = [player EXCEPT ![r.p].status = r.row.status, ![r.p].kyc = r.row.kyc]
        BY <2>1, <3>2 DEF WriteVerdict
      <4> QED
        BY <1>1, <3>1, <4>1
    <3>3. CASE WriteDocuments(h)
      BY <1>1, <2>1, <3>1, <3>3 DEF WriteDocuments
    <3> QED
      BY <3>2, <3>3
  <2>2. CASE r.p \notin There
    BY <2>2 DEF WriteVerdict, WriteDocuments
  <2> QED
    BY <2>1, <2>2
<1>3. ASSUME NEW p \in Players
      PROVE  /\ player'[p] \in Player
             /\ player'[p].there = player[p].there
             /\ player'[p].email = player[p].email /\ player'[p].pan = player[p].pan
  <2>1. player[p] \in Player
    BY <1>1
  <2>2. \/ player'[p] = player[p]
        \/ player'[p] = [player[p] EXCEPT !.status = r.row.status, !.kyc = r.row.kyc]
        \/ player'[p] = [player[p] EXCEPT !.docs = r.row.docs]
    BY <1>1, <1>2
  <2>3. /\ r.row.status \in {"Active", "Inactive", "Suspended", "Rejected"}
        /\ r.row.kyc \in {"pending", "approved", "rejected"} /\ r.row.docs \in SUBSET Slot
    BY <1>1 DEF Player
  <2> HIDE DEF r
  <2>4. CASE player'[p] = player[p]
    BY <2>1, <2>4
  <2>5. CASE player'[p] = [player[p] EXCEPT !.status = r.row.status, !.kyc = r.row.kyc]
    BY <2>1, <2>3, <2>5 DEF Player
  <2>6. CASE player'[p] = [player[p] EXCEPT !.docs = r.row.docs]
    BY <2>1, <2>3, <2>6 DEF Player
  <2> QED
    BY <2>2, <2>4, <2>5, <2>6
<1>4. player' \in [Players -> Player]
  BY <1>1, <1>2, <1>3
<1> QED
  BY <1>3, <1>4

LEMMA Columns ==
  ASSUME IInv, NEW h \in Handlers, WriteVerdict(h) \/ WriteDocuments(h)
  PROVE  IInv'
<1>1. Done(h) /\ UNCHANGED <<change, affiliate, payment>>
  BY DEF WriteVerdict, WriteDocuments, WritesPlayers
<1>2. IdentitiesUnique'
  BY ColumnsWritten, OtherColumnsApart
<1> QED
  BY <1>1, <1>2, ColumnsWritten, DoneKeeps DEF IInv, TypeOK

LEMMA Saved ==
  ASSUME IInv, NEW h \in Handlers, SavePlayer(h) \/ CommitApproval(h)
  PROVE  IInv'
<1> DEFINE r == req[h]
<1>1. Done(h) /\ UNCHANGED <<affiliate, payment>>
  BY DEF SavePlayer, CommitApproval, WritesPlayers
<1>2. \/ player' = player
      \/ ~Clash(r.p, r.row) /\ player' = [player EXCEPT ![r.p] = r.row]
  BY DEF SavePlayer, CommitApproval, Refused
<1>3. change' = change \/ change' = [change EXCEPT ![r.c].status = "approved"]
  BY DEF SavePlayer, CommitApproval, WritesPlayers
<1>4. player' \in [Players -> Player]
  BY <1>2, Holds DEF IInv, TypeOK
<1>5. change' \in [Changes -> Change]
  BY <1>3, SMTT(30) DEF IInv, TypeOK, Change
<1>6. IdentitiesUnique'
  BY <1>2, Holds, AcceptedApart, OtherColumnsApart
<1> QED
  BY <1>1, <1>4, <1>5, <1>6, DoneKeeps DEF IInv, TypeOK

LEMMA Removed ==
  ASSUME IInv, NEW h \in Handlers, RemovePlayer(h)
  PROVE  IInv'
<1>1. Done(h) /\ UNCHANGED <<affiliate, payment>>
  BY DEF RemovePlayer
<1>2. player' = player \/ player' = [player EXCEPT ![req[h].p] = NoPlayer]
  BY DEF RemovePlayer
<1>3. \/ change' = change
      \/ change' = [c \in Changes |->
                      IF change[c].player = req[h].p THEN NoChange ELSE change[c]]
  BY DEF RemovePlayer
<1>4. player' \in [Players -> Player] /\ change' \in [Changes -> Change]
  BY <1>2, <1>3, BlankRows DEF IInv, TypeOK
<1>5. \A p \in Players : player'[p].there => player'[p] = player[p]
  BY <1>2 DEF IInv, TypeOK, NoPlayer
<1>6. IdentitiesUnique'
  BY <1>5, OtherColumnsApart
<1> QED
  BY <1>1, <1>4, <1>6, DoneKeeps DEF IInv, TypeOK

LEMMA Rejected ==
  ASSUME IInv, NEW h \in Handlers, SaveRejection(h)
  PROVE  IInv'
<1> DEFINE c == req[h].c
<1>1. Done(h) /\ UNCHANGED <<player, affiliate, payment>>
  BY DEF SaveRejection
<1>2. change' \in [Changes -> Change]
  <2>1. change \in [Changes -> Change]
    BY DEF IInv, TypeOK
  <2>2. \/ change' = [change EXCEPT ![c].status = change[c].status]
        \/ change' = [change EXCEPT ![c].status = "rejected"]
    BY DEF SaveRejection
  <2> HIDE DEF c
  <2>3. CASE change' = [change EXCEPT ![c].status = change[c].status]
    BY <2>1, <2>3 DEF Change
  <2>4. CASE change' = [change EXCEPT ![c].status = "rejected"]
    BY <2>1, <2>4 DEF Change
  <2> QED
    BY <2>2, <2>3, <2>4
<1>3. IdentitiesUnique'
  BY <1>1 DEF IInv, IdentitiesUnique, There
<1> QED
  BY <1>1, <1>2, <1>3, DoneKeeps DEF IInv, TypeOK

LEMMA Overridden ==
  ASSUME IInv, NEW h \in Handlers, SaveOverride(h)
  PROVE  IInv'
<1> DEFINE r == [req[h] EXCEPT !.pc = "commission"]
<1>1. /\ payment' = [payment EXCEPT ![req[h].t] = req[h].pay] /\ Becomes(h, r)
      /\ UNCHANGED <<player, change, affiliate>>
  BY DEF SaveOverride
<1>2. req[h].pay \in Payment /\ req[h].pay.to \in Affiliates
  BY Holds DEF IInv, PaidTo, SaveOverride
<1>3. r \in Request /\ r.pc # "override"
  BY Holds DEF Request
<1> HIDE DEF r
<1>4. TypeOK'
  BY <1>1, <1>2, <1>3 DEF IInv, TypeOK, Becomes
<1>5. PaidTo'
  BY <1>1, <1>2, <1>3 DEF IInv, TypeOK, PaidTo, At, Becomes
<1> QED
  BY <1>1, <1>4, <1>5 DEF IInv, IdentitiesUnique, There

-----------------------------------------------------------------------------
(* The theorems.                                                           *)

LEMMA Invariant == Spec => []IInv
<1>1. Init => IInv
  <2> SUFFICES ASSUME Init PROVE IInv
    OBVIOUS
  <2>1. TypeOK
    BY BlankRows DEF Init, TypeOK
  <2>2. PaidTo /\ IdentitiesUnique
    BY DEF Init, PaidTo, At, Idle, IdentitiesUnique, There, NoPlayer
  <2> QED
    BY <2>1, <2>2 DEF IInv
<1>2. IInv /\ [Next]_vars => IInv'
  <2> SUFFICES ASSUME IInv, [Next]_vars PROVE IInv'
    OBVIOUS
  <2>1. CASE UNCHANGED vars
    BY <2>1 DEF vars, IInv, TypeOK, PaidTo, At, IdentitiesUnique, There
  <2>2. ASSUME NEW h \in Handlers, WriteStep(h) PROVE IInv'
    BY <2>2, Inserted, Counted, Columns, Saved, Removed, Rejected, Overridden DEF WriteStep
  <2> QED
    BY <2>1, <2>2, Joins, Standings, Edits, PapersKeep, ReviewsKeep, AffiliateWork DEF Next
<1> QED
  BY <1>1, <1>2, PTL DEF Spec

\* Every row keeps its type: no referral is taken back, and no payment is
\* corrected that is not some affiliate's.
THEOREM TypeCorrect == Spec => []TypeOK
<1>1. IInv => TypeOK
  BY DEF IInv
<1> QED
  BY <1>1, Invariant, PTL

\* No two players share an email or a PAN, however many requests that checked
\* them on what they had loaded sign up, edit and approve at once.
THEOREM IdentitiesKept == Spec => []IdentitiesUnique
<1>1. IInv => IdentitiesUnique
  BY DEF IInv
<1> QED
  BY <1>1, Invariant, PTL

\* A PAN that is set is not changed or cleared by any request, one that loaded
\* the player's row before the PAN was set included.
THEOREM PansKept == Spec => PanImmutable
<1> DEFINE Kept == \A p \in Players : player[p].there /\ player'[p].there /\ player[p].pan # "none"
                     => player'[p].pan = player[p].pan
<1>1. IInv /\ [Next]_vars => [Kept]_vars
  <2> SUFFICES ASSUME IInv, Next, NEW p \in Players,
                      player[p].there, player'[p].there, player[p].pan # "none"
               PROVE  player'[p].pan = player[p].pan
    BY DEF Kept
  <2>1. player \in [Players -> Player]
    BY DEF IInv, TypeOK
  <2>2. PICK h \in Handlers :
          \/ JoinStep(h, Affiliates \cup {"none"}) \/ StandingStep(h)
          \/ EditStep(h, {"Active", "Inactive", "Suspended"})
          \/ PaperStep(h) \/ ReviewStep(h) \/ AffiliateStep(h) \/ WriteStep(h)
    BY DEF Next
  <2>3. CASE JoinStep(h, Affiliates \cup {"none"}) \/ StandingStep(h)
    <3>1. ASSUME NEW x \in Players, NEW e \in Emails, NEW i \in Tilts,
                 NEW a \in Affiliates \cup {"none"}, PlayerSignup(h, x, e, i, a)
          PROVE  player' = player
      BY <3>1 DEF PlayerSignup, Goes, Reading
    <3>2. ASSUME NEW x \in Players, NEW e \in Emails, NEW i \in Tilts,
                 NEW a \in Affiliates \cup {"none"}, NEW n \in Pans \cup {"none"},
                 CreatePlayer(h, x, e, i, n, a)
          PROVE  player' = player
      BY <3>2, Zenon DEF CreatePlayer, Reading
    <3>3. CASE StandingStep(h)
      BY <3>3, SMTT(30) DEF StandingStep, ApprovePlayer, RejectPlayer, SuspendPlayer, UnsuspendPlayer,
           ActivatePlayer, ChangePlayerPassword, ResetPlayerPassword, Goes, Reading
    <3> QED
      BY <2>3, <3>1, <3>2, <3>3 DEF JoinStep
  <2>4. CASE EditStep(h, {"Active", "Inactive", "Suspended"}) \/ PaperStep(h)
    BY <2>4, ZenonT(30) DEF EditStep, PaperStep, DeletePlayer, UpdatePlayer, SubmitPanCard, UploadDocument,
         DeleteDocument, Goes, Reading
  <2>5. CASE ReviewStep(h) \/ AffiliateStep(h)
    BY <2>5 DEF ReviewStep, AffiliateStep, RequestChange, ApproveRequest, RejectRequest,
         DismissChange, CreateAffiliate, UpdateAffiliate, ProcessPayment, OverridePayment, Reading
  <2>6. CASE InsertPlayer(h)
    <3>1. player' = player \/ (req[h].p \notin There /\ player' = [player EXCEPT ![req[h].p] = req[h].row])
      BY <2>6 DEF InsertPlayer
    <3> QED
      BY <2>1, <3>1 DEF There
  <2>7. CASE SavePlayer(h) \/ CommitApproval(h)
    <3>1. \/ player' = player
          \/ /\ ~PanChanged(req[h].p, req[h].row)
             /\ player' = [player EXCEPT ![req[h].p] = req[h].row]
      BY <2>7 DEF SavePlayer, CommitApproval, Refused
    <3> QED
      BY <2>1, <3>1 DEF PanChanged
  <2>8. CASE WriteVerdict(h) \/ WriteDocuments(h)
    BY <2>8, ColumnsWritten
  <2>9. CASE RemovePlayer(h)
    <3>1. player' = player \/ player' = [player EXCEPT ![req[h].p] = NoPlayer]
      BY <2>9 DEF RemovePlayer
    <3> QED
      BY <2>1, <3>1 DEF NoPlayer
  <2>10. CASE CountReferral(h) \/ SaveRejection(h) \/ SaveOverride(h) \/ SaveAffiliate(h)
    BY <2>10 DEF CountReferral, SaveRejection, SaveOverride, SaveAffiliate
  <2> QED
    BY <2>2, <2>3, <2>4, <2>5, <2>6, <2>7, <2>8, <2>9, <2>10 DEF WriteStep
<1> QED
  BY <1>1, Invariant, PTL DEF Spec, PanImmutable

-----------------------------------------------------------------------------
(* Desks at which requests take turns.                                     *)

Busy(h) == ~At(h, "idle")
TurnInv == desk \notin Racing => \A g, h \in Handlers : Busy(g) /\ Busy(h) => g = h

\* A review under way is of a request that is pending, and made at its desk.
Deciding(h) == At(h, "approve") \/ At(h, "reject")
ReviewInv == \A h \in Handlers : Deciding(h) =>
  desk = "reviews" /\ req[h].c \in Changes /\ change[req[h].c].status = "pending"

\* A step that leaves the change requests alone and begins no review.
Apart(h) == /\ change' = change
            /\ req' = req \/ \E r : Becomes(h, r) /\ r.pc \notin {"approve", "reject"}

LEMMA GoesApart ==
  ASSUME NEW h \in Handlers, NEW pc \in {"insert", "verdict", "save", "documents", "remove"},
         NEW p, NEW row, Goes(h, pc, p, row)
  PROVE  Apart(h)
<1> DEFINE r == [Idle EXCEPT !.pc = pc, !.p = p, !.row = row]
<1>1. Becomes(h, r) /\ change' = change
  BY DEF Goes, Reading
<1>2. r.pc = pc
  BY DEF Idle
<1> HIDE DEF r
<1> QED
  BY <1>1, <1>2 DEF Apart

LEMMA JoinsApart ==
  ASSUME NEW h \in Handlers, NEW S, JoinStep(h, S)
  PROVE  Apart(h)
<1>1. ASSUME NEW p, NEW e, NEW t, NEW a, PlayerSignup(h, p, e, t, a)
      PROVE  Apart(h)
  BY <1>1, GoesApart DEF PlayerSignup
<1>2. ASSUME NEW p, NEW e, NEW t, NEW n, NEW a, CreatePlayer(h, p, e, t, n, a)
      PROVE  Apart(h)
  <2> DEFINE row == [NoPlayer EXCEPT !.there = TRUE, !.email = InSmallLetters(e), !.tilt = t,
                       !.pan = n, !.kyc = "approved", !.temporary = TRUE, !.affiliate = a]
             books == IF a = "none" THEN NoAffiliate ELSE affiliate[a]
             r == [Idle EXCEPT !.pc = "insert", !.p = p, !.a = a, !.books = books, !.row = row]
  <2>1. Becomes(h, r) /\ Reading
    BY <1>2, Zenon DEF CreatePlayer
  <2> HIDE DEF row, books
  <2>2. r.pc = "insert"
    BY DEF Idle
  <2> HIDE DEF r
  <2> QED
    BY <2>1, <2>2 DEF Apart, Reading
<1> QED
  BY <1>1, <1>2 DEF JoinStep

LEMMA RowsApart ==
  ASSUME NEW h \in Handlers, NEW S, StandingStep(h) \/ EditStep(h, S) \/ PaperStep(h)
  PROVE  Apart(h)
<1>1. CASE StandingStep(h)
  <2>1. \E pc \in {"verdict", "save"}, p \in Players : \E row : Goes(h, pc, p, row)
    BY <1>1, ZenonT(30) DEF StandingStep, ApprovePlayer, RejectPlayer, SuspendPlayer, UnsuspendPlayer,
       ActivatePlayer, ChangePlayerPassword, ResetPlayerPassword
  <2> QED
    BY <2>1, GoesApart, SMTT(30)
<1>2. CASE EditStep(h, S)
  <2>1. \E pc \in {"remove", "save"}, p \in Players : \E row : Goes(h, pc, p, row)
    BY <1>2 DEF EditStep, DeletePlayer, UpdatePlayer
  <2> QED
    BY <2>1, GoesApart
<1>3. CASE PaperStep(h)
  <2>1. \E pc \in {"save", "documents"}, p \in Players : \E row : Goes(h, pc, p, row)
    BY <1>3 DEF PaperStep, SubmitPanCard, UploadDocument, DeleteDocument
  <2> QED
    BY <2>1, GoesApart
<1> QED
  BY <1>1, <1>2, <1>3

LEMMA AffiliatesApart ==
  ASSUME NEW h \in Handlers, AffiliateStep(h)
  PROVE  Apart(h)
<1>1. ASSUME NEW a, CreateAffiliate(a)
      PROVE  Apart(h)
  BY <1>1 DEF CreateAffiliate, Apart
<1>2. ASSUME NEW a, NEW books,
             Becomes(h, [Idle EXCEPT !.pc = "commission", !.a = a, !.books = books]),
             change' = change
      PROVE  Apart(h)
  <2> DEFINE r == [Idle EXCEPT !.pc = "commission", !.a = a, !.books = books]
  <2>1. r.pc = "commission"
    BY DEF Idle
  <2> HIDE DEF r
  <2>2. Becomes(h, r)
    BY <1>2 DEF r
  <2> QED
    BY <1>2, <2>1, <2>2 DEF Apart
<1>3. ASSUME NEW a, UpdateAffiliate(h, a)
      PROVE  Apart(h)
  BY <1>2, <1>3 DEF UpdateAffiliate, Reading
<1>4. ASSUME NEW a, NEW t, NEW m, ProcessPayment(h, a, t, m)
      PROVE  Apart(h)
  BY <1>2, <1>4, Zenon DEF ProcessPayment
<1>5. ASSUME NEW t, NEW m, OverridePayment(h, t, m)
      PROVE  Apart(h)
  <2> DEFINE pay == payment[t]
             a == pay.to
             due == [pay EXCEPT !.original = IF pay.overridden THEN @ ELSE pay.amount,
                                !.overridden = TRUE, !.amount = m]
             books == [affiliate[a] EXCEPT !.commission = @ + Delta(pay, m)]
             r == [Idle EXCEPT !.pc = "override", !.t = t, !.a = a, !.pay = due, !.books = books]
  <2>1. Becomes(h, r) /\ Reading
    BY <1>5, Zenon DEF OverridePayment
  <2> HIDE DEF a, due, books
  <2>2. r.pc = "override"
    BY DEF Idle
  <2> HIDE DEF r
  <2> QED
    BY <2>1, <2>2 DEF Apart, Reading
<1> QED
  BY <1>1, <1>3, <1>4, <1>5 DEF AffiliateStep

\* What a desk begins is apart from reviews, or a review at its desk.
LEMMA DesksApart ==
  ASSUME NEW h \in Handlers,
         \/ desk = "papers" /\ Papers(h)
         \/ desk = "reviews" /\ Reviews(h)
         \/ desk = "standing" /\ Standing(h)
         \/ desk = "affiliates" /\ Referring(h)
         \/ desk = "counter" /\ Counter(h)
  PROVE  /\ Apart(h) \/ (desk = "reviews" /\ ReviewStep(h))
         /\ Next
<1>1. /\ desk \in {"papers", "standing", "affiliates", "counter"} => Apart(h)
      /\ desk = "reviews" => Apart(h) \/ ReviewStep(h)
  <2>1. CASE desk = "papers" /\ Papers(h)
    BY <2>1, JoinsApart, RowsApart DEF Papers
  <2>2. CASE desk = "standing" /\ Standing(h)
    BY <2>2, JoinsApart, RowsApart DEF Standing
  <2>3. CASE desk = "affiliates" /\ Referring(h)
    BY <2>3, JoinsApart, AffiliatesApart DEF Referring
  <2>4. CASE desk = "reviews" /\ Reviews(h)
    <3>1. JoinStep(h, {"none"}) \/ EditStep(h, {}) \/ ReviewStep(h)
      BY <2>4 DEF Reviews, JoinStep, EditStep
    <3> QED
      BY <2>4, <3>1, JoinsApart, RowsApart
  <2>5. CASE desk = "counter" /\ Counter(h)
    <3>1. JoinStep(h, {"none"}) \/ EditStep(h, {"Active"}) \/ PaperStep(h)
      BY <2>5 DEF Counter, JoinStep, EditStep, PaperStep
    <3> QED
      BY <2>5, <3>1, JoinsApart, RowsApart
  <2> QED
    BY <2>1, <2>2, <2>3, <2>4, <2>5
<1>2. Next
  <2>1. \/ JoinStep(h, {"none"}) \/ JoinStep(h, Affiliates) \/ StandingStep(h)
        \/ EditStep(h, {"Active", "Inactive"}) \/ EditStep(h, {"Active", "Inactive", "Suspended"})
        \/ EditStep(h, {}) \/ EditStep(h, {"Active"})
        \/ PaperStep(h) \/ ReviewStep(h) \/ AffiliateStep(h)
    <3>1. CASE Papers(h) \/ Standing(h) \/ Referring(h)
      BY <3>1, Zenon DEF Papers, Standing, Referring
    <3>2. CASE Reviews(h)
      BY <3>2 DEF Reviews, JoinStep, EditStep
    <3>3. CASE Counter(h)
      BY <3>3 DEF Counter, JoinStep, EditStep, PaperStep
    <3> QED
      BY <3>1, <3>2, <3>3
  <2>2. JoinStep(h, {"none"}) \/ JoinStep(h, Affiliates) => JoinStep(h, Affiliates \cup {"none"})
    BY DEF JoinStep
  <2>3. \A S \in SUBSET {"Active", "Inactive", "Suspended"} :
          EditStep(h, S) => EditStep(h, {"Active", "Inactive", "Suspended"})
    BY DEF EditStep
  <2> QED
    BY <2>1, <2>2, <2>3 DEF Next
<1> QED
  BY <1>1, <1>2

\* A write that is not the end of a review, or of a player with his requests,
\* leaves the requests alone; every write is of one request.
LEMMA WritesApart ==
  ASSUME TypeOK, NEW h \in Handlers, WriteStep(h)
  PROVE  /\ Busy(h)
         /\ \A g \in Handlers \ {h} : req'[g] = req[g]
         /\ \/ Apart(h)
            \/ (RemovePlayer(h) \/ CommitApproval(h) \/ SaveRejection(h)) /\ req'[h] = Idle
<1>1. Idle.pc = "idle" /\ req \in [Handlers -> Request]
  BY DEF Idle, TypeOK
<1>2. \A pc : [req[h] EXCEPT !.pc = pc].pc = pc
  BY <1>1 DEF Request
<1>3. CASE InsertPlayer(h)
  <2>1. At(h, "insert") /\ change' = change
        /\ (Becomes(h, Idle) \/ Becomes(h, [req[h] EXCEPT !.pc = "refer"]))
    BY <1>3 DEF InsertPlayer, Done, WritesPlayers
  <2>2. PICK r : Becomes(h, r) /\ r.pc \in {"idle", "refer"}
    BY <1>1, <1>2, <2>1
  <2> QED
    BY <1>1, <2>1, <2>2 DEF Apart, Becomes, Busy, At
<1>4. CASE SaveOverride(h)
  <2>1. At(h, "override") /\ change' = change /\ Becomes(h, [req[h] EXCEPT !.pc = "commission"])
    BY <1>4 DEF SaveOverride
  <2>2. PICK r : Becomes(h, r) /\ r.pc = "commission"
    BY <1>2, <2>1
  <2> QED
    BY <1>1, <2>1, <2>2 DEF Apart, Becomes, Busy, At
<1>5. CASE CountReferral(h) \/ WriteVerdict(h) \/ SavePlayer(h) \/ WriteDocuments(h)
           \/ SaveAffiliate(h)
  <2>1. Busy(h) /\ change' = change /\ Becomes(h, Idle)
    BY <1>5 DEF CountReferral, WriteVerdict, SavePlayer, WriteDocuments, SaveAffiliate, Done,
       WritesPlayers, Busy, At
  <2> QED
    BY <1>1, <2>1 DEF Apart, Becomes
<1>6. CASE RemovePlayer(h) \/ CommitApproval(h) \/ SaveRejection(h)
  <2>1. Busy(h) /\ Becomes(h, Idle)
    BY <1>6 DEF RemovePlayer, CommitApproval, SaveRejection, Done, Busy, At
  <2> QED
    BY <1>1, <1>6, <2>1 DEF Becomes
<1> QED
  BY <1>3, <1>4, <1>5, <1>6 DEF WriteStep

LEMMA TurnsKept ==
  ASSUME TypeOK, TurnInv, MemberStep, desk' = desk
  PROVE  TurnInv'
<1> SUFFICES ASSUME desk \notin Racing, NEW f \in Handlers, NEW g \in Handlers,
                    Busy(f)', Busy(g)'
             PROVE  f = g
  BY DEF TurnInv
<1>1. req \in [Handlers -> Request]
  BY DEF TypeOK
<1>2. PICK h \in Handlers :
        \/ /\ Turn
           /\ \/ desk = "papers" /\ Papers(h)
              \/ desk = "reviews" /\ Reviews(h)
              \/ desk = "standing" /\ Standing(h)
              \/ desk = "affiliates" /\ Referring(h)
              \/ desk = "counter" /\ Counter(h)
        \/ WriteStep(h)
  BY DEF MemberStep
<1>3. CASE WriteStep(h)
  BY <1>3, WritesApart DEF TurnInv, Busy, At
<1>4. CASE ~WriteStep(h)
  <2>1. \A k \in Handlers : ~Busy(k)
    BY <1>2, <1>4 DEF Turn, Busy
  <2>2. Apart(h) \/ ReviewStep(h)
    BY <1>2, <1>4, DesksApart
  <2>3. \A k \in Handlers \ {h} : req'[k] = req[k]
    <3>1. req' = req \/ \E r : Becomes(h, r)
      BY <2>2, Zenon DEF Apart, ReviewStep, RequestChange, ApproveRequest, RejectRequest, DismissChange
    <3> QED
      BY <1>1, <3>1 DEF Becomes
  <2> QED
    BY <2>1, <2>3 DEF Busy, At
<1> QED
  BY <1>3, <1>4

LEMMA ReviewsHeld ==
  ASSUME "reviews" \notin Racing, TypeOK, TypeOK', TurnInv, ReviewInv, MemberStep, desk' = desk
  PROVE  /\ ReviewInv'
         /\ \A c \in Changes : change[c].status \in {"approved", "rejected"}
              => change'[c].status \in {change[c].status, "unused"}
<1>1. req \in [Handlers -> Request] /\ change \in [Changes -> Change] /\ desk' = desk
  BY DEF TypeOK
<1>2. Idle.pc = "idle"
  BY DEF Idle
<1>3. ASSUME NEW h \in Handlers, Apart(h)
      PROVE  /\ ReviewInv'
             /\ \A c \in Changes : change'[c] = change[c]
  <2>1. \A g \in Handlers : Deciding(g)' => req'[g] = req[g]
    <3>1. CASE req' = req
      BY <3>1
    <3>2. ASSUME NEW r, Becomes(h, r), r.pc \notin {"approve", "reject"}
          PROVE  \A g \in Handlers : Deciding(g)' => req'[g] = req[g]
      BY <1>1, <3>2 DEF Becomes, Deciding, At
    <3> QED
      BY <1>3, <3>1, <3>2 DEF Apart
  <2> QED
    BY <1>1, <1>3, <2>1 DEF ReviewInv, Deciding, At, Apart
<1>4. ASSUME NEW h \in Handlers, desk = "reviews", Turn, ReviewStep(h)
      PROVE  /\ ReviewInv'
             /\ \A c \in Changes : change[c].status \in {"approved", "rejected"}
                  => change'[c].status \in {change[c].status, "unused"}
  <2>1. \A g \in Handlers : ~Deciding(g)
    BY <1>4 DEF Turn, Deciding, At
  <2>2. ASSUME NEW p, NEW c \in Changes, NEW field, NEW e, RequestChange(h, p, c, field, e)
        PROVE  /\ ReviewInv'
               /\ \A b \in Changes : change[b].status \in {"approved", "rejected"} => change'[b] = change[b]
    BY <1>1, <2>1, <2>2 DEF RequestChange, ReviewInv, Deciding, At
  <2>3. ASSUME NEW c \in Changes, DismissChange(c)
        PROVE  /\ ReviewInv'
               /\ \A b \in Changes : change'[b].status \in {change[b].status, "unused"}
    BY <1>1, <2>1, <2>3 DEF DismissChange, NoChange, ReviewInv, Deciding, At
  <2>4. ASSUME NEW c \in Changes, ApproveRequest(h, c) \/ RejectRequest(h, c)
        PROVE  ReviewInv' /\ change' = change
    <3>1. Reviewable(c) /\ change' = change /\ \E r : Becomes(h, r) /\ r.c = c
      <4>1. CASE RejectRequest(h, c)
        <5> DEFINE r == [Idle EXCEPT !.pc = "reject", !.c = c]
        <5>1. r.c = c
          BY DEF Idle
        <5>2. Reviewable(c) /\ change' = change /\ Becomes(h, r)
          BY <4>1 DEF RejectRequest, Reading
        <5> HIDE DEF r
        <5> QED
          BY <5>1, <5>2
      <4>2. CASE ApproveRequest(h, c)
        <5> DEFINE p == change[c].player
                   row == Applied(player[p], change[c])
                   r == [Idle EXCEPT !.pc = "approve", !.c = c, !.p = p, !.row = row]
        <5>1. Reviewable(c) /\ change' = change /\ Becomes(h, r)
          BY <4>2 DEF ApproveRequest, Reading
        <5> HIDE DEF row, p
        <5>2. r.c = c
          BY DEF Idle
        <5> HIDE DEF r
        <5> QED
          BY <5>1, <5>2
      <4> QED
        BY <2>4, <4>1, <4>2
    <3>2. PICK r : Becomes(h, r) /\ r.c = c
      BY <3>1
    <3>3. \A g \in Handlers : Deciding(g)' => g = h
      BY <1>1, <2>1, <3>2 DEF Becomes, Deciding, At
    <3>4. req'[h].c = c
      BY <1>1, <3>2 DEF Becomes
    <3> QED
      BY <1>1, <1>4, <3>1, <3>3, <3>4 DEF ReviewInv, Reviewable
  <2> QED
    BY <1>4, <2>2, <2>3, <2>4 DEF ReviewStep
<1>5. ASSUME NEW h \in Handlers, WriteStep(h), ~Apart(h)
      PROVE  /\ ReviewInv'
             /\ \A c \in Changes : change[c].status \in {"approved", "rejected"}
                  => change'[c].status \in {change[c].status, "unused"}
  <2>1. /\ Busy(h)
        /\ \A g \in Handlers \ {h} : req'[g] = req[g]
        /\ RemovePlayer(h) \/ CommitApproval(h) \/ SaveRejection(h)
        /\ req'[h] = Idle
    BY <1>5, WritesApart
  <2>2. ReviewInv'
    <3>1. SUFFICES ASSUME NEW g \in Handlers, Deciding(g)'
                   PROVE  FALSE
      BY DEF ReviewInv
    <3>2. g # h /\ Deciding(g)
      BY <1>2, <2>1, <3>1 DEF Deciding, At
    <3> QED
      BY <2>1, <3>2 DEF TurnInv, ReviewInv, Deciding, Busy, At
  <2>3. CASE RemovePlayer(h)
    <3>1. change' = change \/ change' = [c \in Changes |->
                                IF change[c].player = req[h].p THEN NoChange ELSE change[c]]
      BY <2>3 DEF RemovePlayer
    <3>2. \A c \in Changes : change'[c] = change[c] \/ change'[c] = NoChange
      BY <3>1
    <3> QED
      BY <2>2, <3>2 DEF NoChange
  <2>4. CASE CommitApproval(h) \/ SaveRejection(h)
    <3>1. req[h].c \in Changes /\ change[req[h].c].status = "pending"
      BY <2>4 DEF ReviewInv, Deciding, CommitApproval, SaveRejection
    <3>2. \A c \in Changes \ {req[h].c} : change'[c] = change[c]
      BY <1>1, <2>4 DEF CommitApproval, SaveRejection
    <3> QED
      BY <2>2, <3>1, <3>2
  <2> QED
    BY <2>1, <2>3, <2>4
<1> QED
  BY <1>3, <1>4, <1>5, DesksApart DEF MemberStep

\* A review is final at a reviews desk where requests take turns: nothing that
\* was turned down is approved, nor the other way round, and what the player
\* takes back, or what goes with him, is the only thing that is undone.
THEOREM ReviewsAreFinal ==
  ASSUME "reviews" \notin Racing
  PROVE  MCSpec => ReviewIsFinal
<1> DEFINE Final == \A c \in Changes : change[c].status \in {"approved", "rejected"}
                      => change'[c].status \in {change[c].status, "unused"}
           RInv == TurnInv /\ ReviewInv
<1>1. MCInit => Init /\ RInv
  BY DEF MCInit, Init, TurnInv, ReviewInv, Deciding, Busy, At, Idle
<1>2. [MCNext]_<<vars, bookVars, desk>> => [Next]_vars
  BY DesksApart DEF MCNext, MemberStep, Next, vars
<1>3. MCSpec => []TypeOK
  <2>1. MCSpec => Spec
    BY <1>1, <1>2, PTL DEF MCSpec, Spec
  <2> QED
    BY <2>1, TypeCorrect, PTL
<1>4. TypeOK /\ TypeOK' /\ RInv /\ [MCNext]_<<vars, bookVars, desk>> => RInv'
  <2>1. UNCHANGED <<vars, desk>> /\ RInv => RInv'
    BY DEF vars, TurnInv, ReviewInv, Deciding, Busy, At
  <2> QED
    BY <2>1, TurnsKept, ReviewsHeld DEF MCNext
<1>5. MCSpec => []RInv
  BY <1>1, <1>3, <1>4, PTL DEF MCSpec
<1>6. TypeOK /\ TypeOK' /\ RInv /\ [MCNext]_<<vars, bookVars, desk>> => [Final]_vars
  BY ReviewsHeld DEF MCNext, vars
<1> QED
  BY <1>3, <1>5, <1>6, PTL DEF MCSpec, ReviewIsFinal

-----------------------------------------------------------------------------
(* Books: ledger rows and the store.                                       *)

\* What is known of a row posted as completed with the amount `first`.
StillBooked(row, first) ==
  first > 0 =>
    /\ row.status \in {"Completed", "Cancelled"}
    /\ first = IF row.overridden THEN row.original ELSE row.amount

\* A request that saves a ledger row.
Saves(r) == r.pc \in {"saveTx", "writeTx"}

BooksInv ==
  /\ B!TypeOK
  /\ \A h \in Handlers : booking[h].item.stock >= 0
  /\ \A h \in Handlers : Saves(booking[h]) => booking[h].tx \in Txs

-----------------------------------------------------------------------------
(* Books: lemmas.                                                          *)

LEMMA BlankBooks ==
  B!NoTx \in B!Transaction /\ B!NoProduct \in B!Product /\ B!NoProduct.stock = 0 /\ B!Idle \in B!Request
<1>1. B!NoTx \in B!Transaction
  BY DEF B!NoTx, B!Transaction, B!TransactionType, B!Deposits
<1>2. B!NoProduct \in B!Product /\ B!NoProduct.stock = 0
  BY DEF B!NoProduct, B!Product
<1> QED
  BY <1>1, <1>2 DEF B!Idle, B!Request

\* An override keeps the type of the row, its status and what was booked.
LEMMA OverrideKeeps ==
  ASSUME NEW row \in B!Transaction, NEW amount \in Nat, NEW first \in Nat
  PROVE  /\ B!Overridden(row, amount) \in B!Transaction
         /\ B!Overridden(row, amount).status = row.status
         /\ StillBooked(row, first) => StillBooked(B!Overridden(row, amount), first)
BY DEF B!Transaction, B!Overridden, B!OriginalAmount, StillBooked

\* The request of WillSave.
ToSave(new, r, row) ==
  new.pc = "saveTx" /\ new.tx = r /\ new.row = row /\ new.item = B!NoProduct

LEMMA WillSaveForm ==
  ASSUME NEW h \in Handlers, NEW r \in Txs, NEW row \in B!Transaction, B!WillSave(h, r, row)
  PROVE  /\ B!At(h, "idle") /\ UNCHANGED <<tx, booked, product, sold, spent, played>>
         /\ \E new \in B!Request : booking' = [booking EXCEPT ![h] = new] /\ ToSave(new, r, row)
<1> DEFINE new == [B!Idle EXCEPT !.pc = "saveTx", !.tx = r, !.row = row]
<1>1. ToSave(new, r, row)
  BY DEF B!Idle, ToSave
<1>2. new \in B!Request
  BY BlankBooks DEF B!Request, B!Idle
<1>3. /\ booking' = [booking EXCEPT ![h] = new] /\ B!At(h, "idle")
      /\ UNCHANGED <<tx, booked, product, sold, spent, played>>
  BY DEF B!WillSave, B!Becomes, B!ledgerVars, B!shop
<1> HIDE DEF new
<1> QED
  BY <1>1, <1>2, <1>3

LEMMA WillSaveKeeps ==
  ASSUME BooksInv, NEW h \in Handlers, NEW r \in Txs, NEW row \in B!Transaction, B!WillSave(h, r, row)
  PROVE  BooksInv'
<1>1. PICK new \in B!Request : booking' = [booking EXCEPT ![h] = new] /\ ToSave(new, r, row)
  BY WillSaveForm
<1>2. UNCHANGED <<tx, booked, product, sold, spent, played>>
  BY WillSaveForm
<1>3. new.item.stock >= 0 /\ new.tx \in Txs
  BY <1>1, BlankBooks DEF ToSave
<1> QED
  BY <1>1, <1>2, <1>3 DEF BooksInv, B!TypeOK

\* What a step of the store leaves in the rows and in its request.
LEMMA ShopKeeps ==
  ASSUME BooksInv, NEW h \in Handlers, NEW new \in B!Request,
         ~Saves(new), new.item.stock >= 0, B!Becomes(h, new), UNCHANGED <<B!ledgerVars, played>>,
         product' \in [Products -> B!Product], \A v \in Products : product'[v].stock >= 0,
         sold' \in [Products -> Nat], spent' \in [Products -> Nat]
  PROVE  BooksInv'
BY DEF BooksInv, B!TypeOK, B!Becomes, B!ledgerVars

-----------------------------------------------------------------------------
(* Books: the ledger.                                                      *)

\* A row may be posted under a free id, or a request go on to save a row: one
\* under which what was booked is kept, and which closes no less than before.
PostsRow(r, new, first) ==
  /\ tx[r].status = "unused" /\ new \in B!Transaction /\ new.status # "unused"
  /\ first \in Nat /\ StillBooked(new, first)
  /\ tx' = [tx EXCEPT ![r] = new] /\ booked' = [booked EXCEPT ![r] = first]
  /\ UNCHANGED <<product, sold, spent, played, booking>>
LoadsRow(h, r, row) ==
  /\ tx[r].status # "unused" /\ row \in B!Transaction /\ row.status # "unused"
  /\ StillBooked(tx[r], booked[r]) => StillBooked(row, booked[r])
  /\ tx[r].status = "Cancelled" => row.status = "Cancelled"
  /\ B!WillSave(h, r, row)

LEMMA TxCreated ==
  ASSUME NEW h \in Handlers, NEW r \in Txs, NEW type \in Types, NEW amount \in Posted,
         B!CreateTransaction(h, r, type, amount)
  PROVE  \E new, first : PostsRow(r, new, first)
<1> DEFINE status == IF type \in B!AutoComplete THEN "Completed" ELSE "Pending"
           new == [B!NoTx EXCEPT !.status = status, !.type = type, !.amount = amount]
           first == IF status = "Completed" THEN amount ELSE 0
<1>1. tx' = [tx EXCEPT ![r] = new] /\ booked' = [booked EXCEPT ![r] = first]
      /\ UNCHANGED <<B!shop, played, booking>> /\ tx[r].status = "unused"
  BY Zenon DEF B!CreateTransaction
<1>2. amount \in Nat /\ first \in Nat /\ type \in B!TransactionType
  BY BooksAssumption
<1>3. new \in B!Transaction /\ new.status # "unused" /\ StillBooked(new, first)
  <2>1. status \in {"Completed", "Pending"}
    OBVIOUS
  <2>2. B!NoTx \in B!Transaction /\ ~B!NoTx.overridden
    BY BlankBooks DEF B!NoTx
  <2> HIDE DEF status
  <2>3. new \in B!Transaction /\ new.status = status /\ new.amount = amount /\ ~new.overridden
    BY <1>2, <2>1, <2>2 DEF B!Transaction, B!Status
  <2> HIDE DEF new
  <2> QED
    BY <2>1, <2>3 DEF StillBooked
<1> HIDE DEF new, first
<1>4. PostsRow(r, new, first)
  BY <1>1, <1>2, <1>3 DEF PostsRow, B!shop
<1> QED
  BY <1>4

LEMMA LedgerForms ==
  ASSUME BooksInv, NEW h \in Handlers, B!LedgerStep(h)
  PROVE  \E r \in Txs : \/ \E new, first : PostsRow(r, new, first)
                        \/ \E row : LoadsRow(h, r, row)
<1>1. PICK r \in Txs :
        \/ \E a \in Posted :
             \/ \E type \in Types : B!CreateTransaction(h, r, type, a)
             \/ \E s \in B!Status : B!UpdateTransaction(h, r, a, s)
             \/ B!EditTransaction(h, r, a) \/ B!EditAnyTransaction(h, r, a)
        \/ B!CancelPending(h, r) \/ B!CancelTransaction(h, r)
  BY DEF B!LedgerStep
<1> DEFINE Loads == \E row : LoadsRow(h, r, row)
<1>2. tx[r] \in B!Transaction /\ booked[r] \in Nat
  BY DEF BooksInv, B!TypeOK
<1>3. ASSUME NEW a \in Posted, NEW type \in Types, B!CreateTransaction(h, r, type, a)
      PROVE  \E new, first : PostsRow(r, new, first)
  BY <1>3, TxCreated
<1>4. ASSUME NEW a \in Posted, NEW s \in B!Status, B!UpdateTransaction(h, r, a, s) PROVE Loads
  <2> DEFINE row == [tx[r] EXCEPT !.amount = a, !.status = s]
  <2>1. B!Editable(tx[r], a, s) /\ B!WillSave(h, r, row)
    BY <1>4 DEF B!UpdateTransaction
  <2>2. row \in B!Transaction /\ row.status # "unused"
    BY <1>2, BooksAssumption DEF B!Transaction, B!Status
  <2>3. /\ tx[r].status # "unused" /\ tx[r].status # "Cancelled"
        /\ StillBooked(tx[r], booked[r]) => StillBooked(row, booked[r])
    BY <1>2, <2>1 DEF B!Editable, StillBooked, B!Transaction
  <2> HIDE DEF row
  <2> QED
    BY <2>1, <2>2, <2>3 DEF LoadsRow
<1>5. ASSUME NEW a \in Posted, B!EditTransaction(h, r, a) \/ B!EditAnyTransaction(h, r, a)
      PROVE  Loads
  <2>1. tx[r].status # "unused" /\ B!WillSave(h, r, B!Overridden(tx[r], a)) /\ a \in Nat
    BY <1>5, BooksAssumption DEF B!EditTransaction, B!EditAnyTransaction
  <2> QED
    BY <1>2, <2>1, OverrideKeeps DEF LoadsRow
<1>6. CASE B!CancelPending(h, r)
  <2> DEFINE row == [tx[r] EXCEPT !.status = "Cancelled"]
  <2>1. tx[r].status \in {"Pending", "Failed"} /\ B!WillSave(h, r, row)
    BY <1>6 DEF B!CancelPending
  <2>2. /\ row \in B!Transaction /\ row.status = "Cancelled"
        /\ StillBooked(tx[r], booked[r]) => StillBooked(row, booked[r])
    BY <1>2, <2>1 DEF B!Transaction, B!Status, StillBooked
  <2> HIDE DEF row
  <2> QED
    BY <2>1, <2>2 DEF LoadsRow
<1>7. CASE B!CancelTransaction(h, r)
  <2> DEFINE old == IF tx[r].status = "Completed" THEN B!Overridden(tx[r], tx[r].amount) ELSE tx[r]
             row == [old EXCEPT !.status = "Cancelled"]
  <2>1. tx[r].status # "unused" /\ B!WillSave(h, r, row)
    BY <1>7 DEF B!CancelTransaction
  <2>2. tx[r].amount \in Nat
    BY <1>2 DEF B!Transaction
  <2>3. old \in B!Transaction /\ (StillBooked(tx[r], booked[r]) => StillBooked(old, booked[r]))
    BY <1>2, <2>2, OverrideKeeps
  <2> HIDE DEF old
  <2>4. /\ row \in B!Transaction /\ row.status = "Cancelled"
        /\ StillBooked(tx[r], booked[r]) => StillBooked(row, booked[r])
    BY <2>3 DEF B!Transaction, B!Status, StillBooked
  <2> HIDE DEF row
  <2> QED
    BY <2>1, <2>4 DEF LoadsRow
<1> QED
  BY <1>1, <1>3, <1>4, <1>5, <1>6, <1>7

LEMMA LedgerKeeps ==
  ASSUME BooksInv, NEW h \in Handlers, B!LedgerStep(h)
  PROVE  BooksInv'
<1>1. PICK r \in Txs : \/ \E new, first : PostsRow(r, new, first)
                       \/ \E row : LoadsRow(h, r, row)
  BY LedgerForms
<1>2. ASSUME NEW new, NEW first, PostsRow(r, new, first) PROVE BooksInv'
  BY <1>2 DEF PostsRow, BooksInv, B!TypeOK, Saves
<1>3. ASSUME NEW row, LoadsRow(h, r, row) PROVE BooksInv'
  BY <1>3, WillSaveKeeps DEF LoadsRow
<1> QED
  BY <1>1, <1>2, <1>3

\* A save writes a row of the type, and its own row where none was in between.
LEMMA TxSavedFacts ==
  ASSUME NEW mine \in B!Transaction, NEW found \in B!Transaction, NEW now \in B!Transaction
  PROVE  /\ B!TxSaved(mine, found, now) \in B!Transaction
         /\ found = now => B!TxSaved(mine, found, now) = mine
BY DEF B!Transaction, B!TxSaved, B!Column

\* The request of ReloadTx.
ToWrite(new, old, found) ==
  /\ new.pc = "writeTx" /\ new.base = found
  /\ new.tx = old.tx /\ new.row = old.row /\ new.item = old.item

LEMMA TxReloaded ==
  ASSUME BooksInv, NEW h \in Handlers, B!ReloadTx(h)
  PROVE  /\ BooksInv' /\ B!At(h, "saveTx")
         /\ \E new : /\ booking' = [booking EXCEPT ![h] = new]
                    /\ ToWrite(new, booking[h], tx[booking[h].tx])
         /\ UNCHANGED <<tx, booked, product, sold, spent, played>>
<1> DEFINE found == tx[booking[h].tx]
<1>1. PICK r \in B!Request : r = booking[h]
  BY DEF BooksInv, B!TypeOK
<1> DEFINE new == [r EXCEPT !.pc = "writeTx", !.base = found]
<1>2. /\ B!At(h, "saveTx") /\ UNCHANGED <<tx, booked, product, sold, spent, played>>
      /\ booking' = [booking EXCEPT ![h] = new]
  BY <1>1 DEF B!ReloadTx, B!Becomes, B!ledgerVars, B!shop
<1>3. found \in B!Transaction /\ r.tx \in Txs /\ r.item.stock >= 0
  BY <1>1, <1>2 DEF BooksInv, B!TypeOK, B!At, Saves
<1> HIDE DEF found
<1>4. ToWrite(new, r, found)
  BY <1>1 DEF B!Request, ToWrite
<1>5. new \in B!Request
  BY <1>1, <1>3 DEF B!Request
<1> HIDE DEF new
<1>6. BooksInv'
  BY <1>2, <1>3, <1>4, <1>5 DEF BooksInv, B!TypeOK, ToWrite
<1> QED
  BY <1>1, <1>2, <1>4, <1>6 DEF found

LEMMA TxSaved ==
  ASSUME BooksInv, NEW h \in Handlers, B!SaveTx(h)
  PROVE  BooksInv'
<1> DEFINE x == booking[h].tx
           row == B!TxSaved(booking[h].row, booking[h].base, tx[x])
<1>1. /\ tx' = [tx EXCEPT ![x] = row] /\ booking' = [booking EXCEPT ![h] = B!Idle]
      /\ UNCHANGED <<booked, product, sold, spent, played>>
  BY DEF B!SaveTx, B!Done, B!Becomes, B!shop
<1>2. x \in Txs => row \in B!Transaction
  BY TxSavedFacts DEF BooksInv, B!TypeOK, B!Request
<1> HIDE DEF x, row
<1>3. B!TypeOK'
  BY <1>1, <1>2, BlankBooks DEF BooksInv, B!TypeOK
<1>4. \A g \in Handlers : /\ booking'[g].item.stock >= 0
                          /\ Saves(booking'[g]) => booking'[g].tx \in Txs
  BY <1>1, BlankBooks DEF BooksInv, B!TypeOK, B!Idle, Saves
<1> QED
  BY <1>3, <1>4 DEF BooksInv

-----------------------------------------------------------------------------
(* Books: the store.                                                       *)

LEMMA ShopLoads ==
  ASSUME BooksInv, NEW h \in Handlers, B!ShopStep(h)
  PROVE  BooksInv'
<1>1. PICK v \in Products :
        \/ \E title \in {1, 2}, p \in Prices, n \in Stocks :
             \/ B!CreateProduct(h, v, title, p, n)
             \/ \E active \in BOOLEAN : B!UpdateProduct(h, v, title, p, n, active)
        \/ B!RemoveProduct(h, v) \/ B!PurchaseProduct(h, v)
  BY DEF B!ShopStep
<1>2. /\ product \in [Products -> B!Product] /\ \A w \in Products : product[w].stock >= 0
      /\ sold \in [Products -> Nat] /\ spent \in [Products -> Nat]
  BY DEF BooksInv, B!TypeOK
<1>3. ASSUME NEW title \in {1, 2}, NEW p \in Prices, NEW n \in Stocks, NEW active \in BOOLEAN,
             (B!CreateProduct(h, v, title, p, n) /\ active) \/ B!UpdateProduct(h, v, title, p, n, active)
      PROVE  BooksInv'
  <2> DEFINE item == [there |-> TRUE, title |-> title, points |-> p, stock |-> n, active |-> active]
             new(pc) == [B!Idle EXCEPT !.pc = pc, !.product = v, !.item = item]
  <2>1. item \in B!Product /\ item.stock >= 0
    BY BooksAssumption DEF B!Product
  <2>2. UNCHANGED <<B!ledgerVars, B!shop, played>>
        /\ \E pc \in {"insertProduct", "saveProduct"} : B!Becomes(h, new(pc))
    BY <1>3 DEF B!CreateProduct, B!UpdateProduct
  <2> HIDE DEF item
  <2>3. \A pc \in {"insertProduct", "saveProduct"} :
          new(pc) \in B!Request /\ ~Saves(new(pc)) /\ new(pc).item.stock >= 0
    BY <2>1, BlankBooks DEF B!Request, B!Idle, Saves
  <2> HIDE DEF new
  <2> QED
    BY <1>2, <2>2, <2>3, ShopKeeps DEF B!shop
<1>4. CASE B!RemoveProduct(h, v)
  <2>1. /\ product' = [product EXCEPT ![v] = B!NoProduct]
        /\ sold' = [sold EXCEPT ![v] = 0] /\ spent' = [spent EXCEPT ![v] = 0]
        /\ UNCHANGED <<B!ledgerVars, played, booking>>
    BY <1>4 DEF B!RemoveProduct
  <2> QED
    BY <1>2, <2>1, BlankBooks DEF BooksInv, B!TypeOK, Saves, B!ledgerVars
<1>5. CASE B!PurchaseProduct(h, v)
  <2> DEFINE new == [B!Idle EXCEPT !.pc = "points", !.product = v, !.item = product[v]]
  <2>1. B!Becomes(h, new) /\ UNCHANGED <<B!ledgerVars, B!shop, played>>
    BY <1>5 DEF B!PurchaseProduct
  <2>2. new \in B!Request /\ ~Saves(new) /\ new.item.stock >= 0
    BY <1>2, BlankBooks DEF B!Request, B!Idle, Saves
  <2> HIDE DEF new
  <2> QED
    BY <1>2, <2>1, <2>2, ShopKeeps DEF B!shop
<1> QED
  BY <1>1, <1>3, <1>4, <1>5

LEMMA ShopWrites ==
  ASSUME BooksInv, NEW h \in Handlers,
         \/ B!InsertProduct(h) \/ B!SaveProduct(h)
         \/ B!CheckPoints(h) \/ B!PurchaseTx(h) \/ B!PurchaseLost(h)
  PROVE  BooksInv'
<1> DEFINE item == booking[h].item
           v == booking[h].product
<1>1. /\ product \in [Products -> B!Product] /\ \A w \in Products : product[w].stock >= 0
      /\ sold \in [Products -> Nat] /\ spent \in [Products -> Nat]
      /\ item \in B!Product /\ item.stock >= 0
  BY DEF BooksInv, B!TypeOK, B!Request
<1>2. B!Idle \in B!Request /\ ~Saves(B!Idle) /\ B!Idle.item.stock >= 0
  BY BlankBooks DEF B!Idle, Saves
<1>3. CASE B!InsertProduct(h) \/ B!SaveProduct(h)
  <2>1. /\ product' = [product EXCEPT ![v] = item] /\ B!Becomes(h, B!Idle)
        /\ UNCHANGED <<B!ledgerVars, sold, spent, played>>
    BY <1>3 DEF B!InsertProduct, B!SaveProduct, B!Done
  <2> HIDE DEF item, v
  <2>2. product' \in [Products -> B!Product] /\ \A w \in Products : product'[w].stock >= 0
    BY <1>1, <2>1
  <2> QED
    BY <1>1, <1>2, <2>1, <2>2, ShopKeeps
<1>4. CASE B!CheckPoints(h)
  <2> DEFINE new == [booking[h] EXCEPT !.pc = "purchase"]
  <2>1. (B!Becomes(h, B!Idle) \/ B!Becomes(h, new)) /\ UNCHANGED <<B!ledgerVars, B!shop, played>>
    BY <1>4 DEF B!CheckPoints, B!Done
  <2>2. new \in B!Request /\ ~Saves(new) /\ new.item.stock >= 0
    BY <1>1 DEF BooksInv, B!TypeOK, B!Request, Saves
  <2> HIDE DEF new
  <2> QED
    BY <1>1, <1>2, <2>1, <2>2, ShopKeeps DEF B!shop
<1>5. CASE B!PurchaseTx(h)
  <2>1. CASE product[v].there
    <3>1. /\ sold' = [sold EXCEPT ![v] = @ + 1]
          /\ spent' = [spent EXCEPT ![v] = @ + item.points]
          /\ product' = [product EXCEPT ![v].stock = B!NotNegative(@ - 1)]
          /\ B!Becomes(h, B!Idle) /\ UNCHANGED <<B!ledgerVars, played>>
      BY <1>5, <2>1 DEF B!PurchaseTx, B!Done
    <3>2. item.points \in Nat
      BY <1>1 DEF B!Product
    <3> HIDE DEF item, v
    <3>3. sold' \in [Products -> Nat] /\ spent' \in [Products -> Nat]
      <4>1. ASSUME NEW w \in Products
            PROVE  /\ sold'[w] \in {sold[w], sold[w] + 1}
                   /\ spent'[w] \in {spent[w], spent[w] + item.points}
        BY <1>1, <3>1
      <4>2. ASSUME NEW w \in Products PROVE sold'[w] \in Nat /\ spent'[w] \in Nat
        <5>1. sold[w] \in Nat /\ sold[w] + 1 \in Nat
          BY <1>1
        <5>2. spent[w] \in Nat /\ spent[w] + item.points \in Nat
          BY <1>1, <3>2
        <5> QED
          BY <4>1, <5>1, <5>2
      <4> QED
        BY <1>1, <3>1, <4>2
    <3>4. ASSUME NEW w \in Products PROVE product'[w] \in B!Product /\ product'[w].stock >= 0
      <4> DEFINE left == B!NotNegative(product[w].stock - 1)
      <4>1. product[w] \in B!Product
        BY <1>1
      <4>2. left \in Nat
        BY <4>1 DEF B!Product, B!NotNegative
      <4>3. product'[w] = product[w] \/ product'[w] = [product[w] EXCEPT !.stock = left]
        BY <1>1, <3>1
      <4> HIDE DEF left
      <4> QED
        BY <1>1, <4>1, <4>2, <4>3 DEF B!Product
    <3>5. product' \in [Products -> B!Product]
      BY <1>1, <3>1, <3>4
    <3> QED
      BY <1>2, <3>1, <3>3, <3>4, <3>5, ShopKeeps
  <2>2. CASE ~product[v].there
    <3>1. B!Becomes(h, B!Idle) /\ UNCHANGED <<B!ledgerVars, B!shop, played>>
      BY <1>5, <2>2 DEF B!PurchaseTx, B!Done, B!shop
    <3> QED
      BY <1>1, <1>2, <3>1, ShopKeeps DEF B!shop
  <2> QED
    BY <2>1, <2>2
<1>6. CASE B!PurchaseLost(h)
  <2>1. B!Becomes(h, B!Idle) /\ UNCHANGED <<B!ledgerVars, B!shop, played>>
    BY <1>6 DEF B!PurchaseLost, B!Done
  <2> QED
    BY <1>1, <1>2, <2>1, ShopKeeps DEF B!shop
<1> QED
  BY <1>3, <1>4, <1>5, <1>6

-----------------------------------------------------------------------------
(* Books: the theorems on rows.                                            *)

LEMMA BooksInvariant == MCSpec => []BooksInv
<1>1. MCInit => BooksInv
  <2> SUFFICES ASSUME B!Init PROVE BooksInv
    BY DEF MCInit
  <2>1. B!TypeOK
    BY BlankBooks DEF B!Init, B!TypeOK
  <2>2. \A h \in Handlers : booking[h].item.stock >= 0 /\ ~Saves(booking[h])
    BY BlankBooks DEF B!Init, B!Idle, Saves
  <2> QED
    BY <2>1, <2>2 DEF BooksInv
<1>2. BooksInv /\ [MCNext]_<<vars, bookVars, desk>> => BooksInv'
  <2> SUFFICES ASSUME BooksInv, BooksStep \/ UNCHANGED bookVars PROVE BooksInv'
    BY DEF MCNext
  <2>1. CASE UNCHANGED bookVars
    BY <2>1 DEF bookVars, BooksInv, B!TypeOK, Saves
  <2>2. CASE B!Play
    BY <2>2 DEF B!Play, B!ledgerVars, B!shop, BooksInv, B!TypeOK, Saves
  <2> QED
    BY <2>1, <2>2, LedgerKeeps, TxReloaded, TxSaved, ShopLoads, ShopWrites
       DEF BooksStep, B!WriteStep
<1> QED
  BY <1>1, <1>2, PTL DEF MCSpec

\* Every row keeps its type, and no purchase takes a stock below zero.
THEOREM BooksTypesKept == MCSpec => []BooksTypeOK
<1>1. BooksInv => BooksTypeOK
  BY DEF BooksInv, BooksTypeOK
<1> QED
  BY <1>1, BooksInvariant, PTL

-----------------------------------------------------------------------------
(* Books: requests taken in turn.                                          *)

Booking(h) == ~B!At(h, "idle")

\* One request at a time, as the run takes them: two that loaded the row before
\* one of them cancelled it do overwrite each other.
OneBooking ==
  /\ desk = "books" => \A g, h \in Handlers : Booking(g) /\ Booking(h) => g = h
  /\ desk # "books" => \A h \in Handlers : ~Booking(h)

\* What is known of the rows, and of the row about to be saved, which is saved
\* over the row its save has found.
BookedInv ==
  /\ \A r \in Txs : tx[r].status = "unused" => booked[r] = 0
  /\ \A r \in Txs : StillBooked(tx[r], booked[r])
  /\ \A h \in Handlers : Saves(booking[h]) =>
       /\ booking[h].row.status # "unused"
       /\ StillBooked(booking[h].row, booked[booking[h].tx])
  /\ \A h \in Handlers : B!At(h, "writeTx") => booking[h].base = tx[booking[h].tx]

\* Nobody is about to save another status over a cancelled row.
Closed == \A h \in Handlers :
  Saves(booking[h]) /\ tx[booking[h].tx].status = "Cancelled"
    => booking[h].row.status = "Cancelled"

\* A step of the shelf or of a purchase leaves the ledger alone.
OnShelves(h) ==
  /\ UNCHANGED <<tx, booked, played>>
  /\ booking' = booking \/ \E new : B!Becomes(h, new) /\ ~Saves(new)

LEMMA ShopForms ==
  ASSUME BooksInv, NEW h \in Handlers,
         B!ShopStep(h) \/ B!InsertProduct(h) \/ B!SaveProduct(h) \/ B!CheckPoints(h)
           \/ B!PurchaseTx(h) \/ B!PurchaseLost(h)
  PROVE  OnShelves(h)
<1>0. booking \in [Handlers -> B!Request]
  BY DEF BooksInv, B!TypeOK
<1>1. UNCHANGED <<tx, booked, played>>
  BY ZenonT(40) DEF B!ShopStep, B!CreateProduct, B!UpdateProduct, B!RemoveProduct, B!PurchaseProduct,
     B!InsertProduct, B!SaveProduct, B!CheckPoints, B!PurchaseTx, B!PurchaseLost, B!ledgerVars
<1>2. booking' = booking \/ \E new : B!Becomes(h, new) /\ ~Saves(new)
  <2>1. ~Saves(B!Idle)
    BY DEF B!Idle, Saves
  <2>2. ~Saves([booking[h] EXCEPT !.pc = "purchase"])
    BY <1>0 DEF B!Request, Saves
  <2>3. \A pc \in {"insertProduct", "saveProduct", "points"} : \A v, item :
          ~Saves([B!Idle EXCEPT !.pc = pc, !.product = v, !.item = item])
    BY DEF B!Idle, Saves
  <2>4. CASE B!ShopStep(h)
    BY <2>3, <2>4, ZenonT(40) DEF B!ShopStep, B!CreateProduct, B!UpdateProduct, B!RemoveProduct,
       B!PurchaseProduct
  <2>5. CASE B!InsertProduct(h) \/ B!SaveProduct(h) \/ B!CheckPoints(h) \/ B!PurchaseTx(h)
               \/ B!PurchaseLost(h)
    BY <2>1, <2>2, <2>5 DEF B!InsertProduct, B!SaveProduct, B!CheckPoints, B!PurchaseTx,
       B!PurchaseLost, B!Done
  <2> QED
    BY <2>4, <2>5
<1> QED
  BY <1>1, <1>2 DEF OnShelves

\* Only its own request moves in a step, and what loads begins idle.
LEMMA BookingTurns ==
  ASSUME "books" \notin Racing, BooksInv, OneBooking, MCNext
  PROVE  OneBooking'
<1>0. booking \in [Handlers -> B!Request]
  BY DEF BooksInv, B!TypeOK
<1>1. CASE UNCHANGED bookVars
  BY <1>1 DEF MCNext, OneBooking, Booking, B!At, bookVars
<1>2. CASE desk = "books" /\ B!Play
  BY <1>2 DEF MCNext, OneBooking, Booking, B!At, B!Play
<1>3. ASSUME NEW h \in Handlers, desk = "books", Turn, B!LedgerStep(h) \/ B!ShopStep(h)
      PROVE  OneBooking'
  <2>1. \A g \in Handlers : ~Booking(g)
    BY <1>3 DEF Turn, Booking
  <2>2. booking' = booking \/ \E new : B!Becomes(h, new)
    BY <1>3, LedgerForms, ShopForms DEF LoadsRow, PostsRow, B!WillSave, OnShelves
  <2>3. \A g \in Handlers \ {h} : booking'[g] = booking[g]
    BY <1>0, <2>2 DEF B!Becomes
  <2> QED
    BY <1>3, <2>1, <2>3 DEF MCNext, OneBooking, Booking, B!At
<1>4. ASSUME NEW h \in Handlers, desk = "books", B!WriteStep(h)
      PROVE  OneBooking'
  <2>1. Booking(h)
    BY <1>4 DEF B!WriteStep, B!ReloadTx, B!SaveTx, B!InsertProduct, B!SaveProduct, B!CheckPoints, B!PurchaseTx,
       B!PurchaseLost, Booking, B!At
  <2>2. \E new : B!Becomes(h, new)
    BY <1>4 DEF B!WriteStep, B!ReloadTx, B!SaveTx, B!InsertProduct, B!SaveProduct, B!CheckPoints, B!PurchaseTx,
       B!PurchaseLost, B!Done
  <2>3. \A g \in Handlers \ {h} : booking'[g] = booking[g]
    BY <1>0, <2>2 DEF B!Becomes
  <2> QED
    BY <1>4, <2>1, <2>3 DEF MCNext, OneBooking, Booking, B!At
<1> QED
  BY <1>1, <1>2, <1>3, <1>4 DEF MCNext, BooksStep

LEMMA OneBookingKept ==
  ASSUME "books" \notin Racing
  PROVE  MCSpec => []OneBooking
<1>1. MCInit => OneBooking
  BY DEF MCInit, B!Init, OneBooking, Booking, B!At, B!Idle
<1>2. BooksInv /\ OneBooking /\ [MCNext]_<<vars, bookVars, desk>> => OneBooking'
  <2>1. OneBooking /\ UNCHANGED <<bookVars, desk>> => OneBooking'
    BY DEF bookVars, OneBooking, Booking, B!At
  <2> QED
    BY <2>1, BookingTurns
<1> QED
  BY <1>1, <1>2, BooksInvariant, PTL DEF MCSpec

LEMMA BookedStep ==
  ASSUME "books" \notin Racing, BooksInv, OneBooking, BookedInv, Closed,
         [MCNext]_<<vars, bookVars, desk>>
  PROVE  /\ BookedInv' /\ Closed'
         /\ \A r \in Txs : tx[r].status = "Cancelled" => tx'[r].status = "Cancelled"
<1> DEFINE Stays == \A r \in Txs : tx[r].status = "Cancelled" => tx'[r].status = "Cancelled"
           Kept == BookedInv' /\ Closed' /\ Stays
<1>1. /\ tx \in [Txs -> B!Transaction] /\ booked \in [Txs -> Nat]
      /\ booking \in [Handlers -> B!Request]
      /\ \A h \in Handlers : Saves(booking[h]) => booking[h].tx \in Txs
  BY DEF BooksInv, B!TypeOK
<1>2. ASSUME UNCHANGED <<tx, booked, booking>>
      PROVE  Kept
  BY <1>2 DEF BookedInv, Closed, B!At, Saves, StillBooked
<1>3. ASSUME UNCHANGED <<tx, booked>>, NEW h \in Handlers, NEW new, B!Becomes(h, new), ~Saves(new)
      PROVE  Kept
  <2>1. \A g \in Handlers : Saves(booking'[g]) => booking'[g] = booking[g]
    BY <1>1, <1>3 DEF B!Becomes
  <2> QED
    BY <1>3, <2>1 DEF BookedInv, Closed, B!At, Saves, StillBooked
<1>4. ASSUME NEW h \in Handlers, NEW r \in Txs, NEW row, LoadsRow(h, r, row)
      PROVE  Kept
  <2>1. UNCHANGED <<tx, booked>>
    BY <1>4, WillSaveForm DEF LoadsRow
  <2>0. PICK new : booking' = [booking EXCEPT ![h] = new] /\ ToSave(new, r, row)
    BY <1>4, WillSaveForm DEF LoadsRow
  <2>2. new.tx = r /\ new.row = row /\ new.pc = "saveTx"
    BY <2>0 DEF ToSave
  <2>3. /\ row.status # "unused" /\ StillBooked(row, booked[r])
        /\ tx[r].status = "Cancelled" => row.status = "Cancelled"
    BY <1>4 DEF LoadsRow, BookedInv
  <2>4. booking'[h] = new /\ \A g \in Handlers \ {h} : booking'[g] = booking[g]
    BY <1>1, <2>0
  <2>5. BookedInv'
    <3>1. \A g \in Handlers : Saves(booking'[g]) =>
            booking'[g].row.status # "unused" /\ StillBooked(booking'[g].row, booked[booking'[g].tx])
      BY <2>2, <2>3, <2>4 DEF BookedInv
    <3>2. \A g \in Handlers : (B!At(g, "writeTx"))' => booking'[g].base = tx[booking'[g].tx]
      BY <2>2, <2>4 DEF BookedInv, B!At
    <3> QED
      BY <2>1, <3>1, <3>2 DEF BookedInv, B!At, Saves, StillBooked
  <2>6. Closed'
    BY <2>1, <2>2, <2>3, <2>4 DEF Closed, Saves
  <2> QED
    BY <2>1, <2>5, <2>6
<1>5. ASSUME desk = "books", Turn, NEW r \in Txs, NEW new, NEW first, PostsRow(r, new, first)
      PROVE  Kept
  <2>1. \A g \in Handlers : ~Saves(booking[g]) /\ ~B!At(g, "writeTx")
    BY <1>5 DEF Turn, B!At, Saves
  <2>2. \A x \in Txs : StillBooked(tx'[x], booked'[x]) /\ (tx'[x].status = "unused" => booked'[x] = 0)
    BY <1>1, <1>5 DEF PostsRow, BookedInv
  <2>3. booking' = booking /\ Stays
    BY <1>1, <1>5 DEF PostsRow
  <2> QED
    BY <2>1, <2>2, <2>3 DEF BookedInv, Closed, B!At, Saves, StillBooked
<1>6. ASSUME NEW h \in Handlers, B!ReloadTx(h)
      PROVE  Kept
  <2> DEFINE x == booking[h].tx
  <2>1. Saves(booking[h]) /\ UNCHANGED <<tx, booked>>
    BY <1>6, TxReloaded DEF B!At, Saves
  <2>0. PICK new : booking' = [booking EXCEPT ![h] = new] /\ ToWrite(new, booking[h], tx[x])
    BY <1>6, TxReloaded
  <2>2. booking'[h] = new /\ \A g \in Handlers \ {h} : booking'[g] = booking[g]
    BY <1>1, <2>0
  <2>3. booking'[h].row = booking[h].row /\ booking'[h].tx = x /\ booking'[h].base = tx[x]
    BY <2>0, <2>2 DEF ToWrite
  <2> HIDE DEF x
  <2>4. \A g \in Handlers : Saves(booking'[g]) =>
          Saves(booking[g]) /\ booking'[g].row = booking[g].row /\ booking'[g].tx = booking[g].tx
    BY <2>1, <2>2, <2>3 DEF x
  <2>5. \A g \in Handlers : (B!At(g, "writeTx"))' => booking'[g].base = tx[booking'[g].tx]
    BY <2>2, <2>3 DEF BookedInv, B!At
  <2> QED
    BY <2>1, <2>4, <2>5 DEF BookedInv, Closed, B!At, Saves, StillBooked
<1>7. ASSUME desk = "books", NEW h \in Handlers, B!SaveTx(h)
      PROVE  Kept
  <2> DEFINE x == booking[h].tx
             row == booking[h].row
             written == B!TxSaved(row, booking[h].base, tx[x])
  <2>1. /\ B!At(h, "writeTx") /\ tx' = [tx EXCEPT ![x] = written]
        /\ booking' = [booking EXCEPT ![h] = B!Idle] /\ booked' = booked
    BY <1>7 DEF B!SaveTx, B!Done, B!Becomes
  <2>2. x \in Txs /\ row \in B!Transaction /\ tx[x] \in B!Transaction /\ booking[h].base = tx[x]
    BY <1>1, <2>1 DEF B!At, Saves, BookedInv, B!Request
  <2>3. written = row
    BY <2>2, TxSavedFacts
  <2>4. /\ row.status # "unused" /\ StillBooked(row, booked[x])
        /\ tx[x].status = "Cancelled" => row.status = "Cancelled"
    BY <2>1 DEF B!At, Saves, BookedInv, Closed
  <2> HIDE DEF x, row, written
  <2>5. \A g \in Handlers : ~Saves(booking'[g])
    BY <1>1, <1>7, <2>1 DEF OneBooking, Booking, B!At, B!Idle, Saves
  <2>6. Stays /\ \A r \in Txs : StillBooked(tx'[r], booked'[r]) /\ (tx'[r].status = "unused" => booked'[r] = 0)
    BY <1>1, <2>1, <2>2, <2>3, <2>4 DEF BookedInv
  <2> QED
    BY <2>5, <2>6 DEF BookedInv, Closed, B!At, Saves
<1>8. ASSUME NEW h \in Handlers, OnShelves(h)
      PROVE  Kept
  BY <1>2, <1>3, <1>8 DEF OnShelves
<1>9. CASE B!Play \/ UNCHANGED bookVars
  BY <1>2, <1>9 DEF B!Play, bookVars, B!ledgerVars
<1> QED
  BY <1>4, <1>5, <1>6, <1>7, <1>8, <1>9, LedgerForms, ShopForms DEF MCNext, BooksStep, B!WriteStep

LEMMA BookedKept ==
  ASSUME "books" \notin Racing
  PROVE  MCSpec => [](BooksInv /\ OneBooking /\ BookedInv /\ Closed)
<1>1. MCInit => BookedInv /\ Closed
  BY DEF MCInit, B!Init, BookedInv, Closed, StillBooked, Saves, B!At, B!Idle, B!NoTx
<1>2. BooksInv /\ OneBooking /\ BookedInv /\ Closed /\ [MCNext]_<<vars, bookVars, desk>>
      => BookedInv' /\ Closed'
  BY BookedStep
<1>3. MCSpec => []BooksInv /\ []OneBooking
  BY BooksInvariant, OneBookingKept, PTL
<1> QED
  BY <1>1, <1>2, <1>3, PTL DEF MCSpec

\* Where requests take turns, what a row was first booked with is its amount
\* until it is overridden, and its original_amount ever after, however often it
\* is edited and cancelled (financial-transactions.service and
\* financial-overrides.service).
THEOREM AmountsKept == MCSpec => []FirstAmountKept
<1>1. BookedInv => FirstAmountKept
  BY DEF BookedInv, StillBooked, FirstAmountKept, B!FirstAmountKept
<1>2. CASE "books" \notin Racing
  BY <1>1, <1>2, BookedKept, PTL
<1>3. CASE "books" \in Racing
  <2>1. FirstAmountKept
    BY <1>3 DEF FirstAmountKept
  <2> QED
    BY <2>1, PTL
<1> QED
  BY <1>2, <1>3

\* A cancelled row stays cancelled where requests take turns: no update, edit
\* or override reopens it (financial-transactions.service and
\* financial-overrides.service).
THEOREM CancelledRowsStay ==
  ASSUME "books" \notin Racing
  PROVE  MCSpec => CancelledStays
<1> DEFINE Stays == \A r \in Txs : tx[r].status = "Cancelled" => tx'[r].status = "Cancelled"
<1>1. BooksInv /\ OneBooking /\ BookedInv /\ Closed /\ [MCNext]_<<vars, bookVars, desk>>
      => [Stays]_B!vars
  BY BookedStep
<1> QED
  BY <1>1, BookedKept, PTL DEF MCSpec, CancelledStays, B!CancelledStays

-----------------------------------------------------------------------------
(* Books: points spent once.                                               *)

AmountPaid == [r \in Txs |-> tx[r].amount]
Earning == {r \in Txs : tx[r].status = "Completed" /\ tx[r].type \in B!EarningTypes}

\* The sums of the loyalty store are those of the lemmas on sums.
PointsAdded ==
  /\ B!PointsSpent = Total(spent, Products) /\ Total(spent, Products) \in Int
  /\ B!MoneySpent = Total(AmountPaid, Earning) /\ Total(AmountPaid, Earning) \in Int

LEMMA PointsAreAdded ==
  ASSUME IsFiniteSet(Txs), IsFiniteSet(Products), BooksInv
  PROVE  PointsAdded
<1>1. spent \in [Products -> Int]
  BY DEF BooksInv, B!TypeOK
<1>2. B!PointsSpent = Total(spent, Products) /\ Total(spent, Products) \in Int
  <2> DEFINE Adds(h) == h = [x \in SUBSET Products |->
                               IF x = {} THEN 0 ELSE spent[Pick(x)] + h[x \ {Pick(x)}]]
  <2>1. PICK g : g[Products] = Total(spent, Products) /\ \A h : AddsUp(h, spent, Products) <=> h = g
    BY <1>1, SumSolved
  <2>2. \A h : Adds(h) <=> h = g
    BY <2>1 DEF AddsUp
  <2>3. B!MapThenSumSet(LAMBDA v : spent[v], Products) = g[Products]
    BY <2>2, Zenon DEF B!MapThenSumSet, B!MapThenFoldSet, Pick
  <2> QED
    BY <1>1, <2>1, <2>3, TotalFacts DEF B!PointsSpent
<1>3. \A r \in Txs : AmountPaid[r] = tx[r].amount /\ AmountPaid[r] \in Int
  BY DEF BooksInv, B!TypeOK, B!Transaction, AmountPaid
<1>4. B!MoneySpent = Total(AmountPaid, Earning) /\ Total(AmountPaid, Earning) \in Int
  <2> DEFINE T == Earning
             Adds(h) == h = [x \in SUBSET T |->
                               IF x = {} THEN 0 ELSE tx[Pick(x)].amount + h[x \ {Pick(x)}]]
  <2>1. IsFiniteSet(T) /\ T \in SUBSET Txs /\ AmountPaid \in [Txs -> Int]
    BY <1>3, FS_Subset DEF AmountPaid, Earning
  <2> HIDE DEF T
  <2>2. PICK g : g[T] = Total(AmountPaid, T) /\ \A h : AddsUp(h, AmountPaid, T) <=> h = g
    BY <1>3, <2>1, SumSolved
  <2>3. \A h : Adds(h) <=> h = g
    <3>1. \A x \in SUBSET T : x # {} => AmountPaid[Pick(x)] = tx[Pick(x)].amount
      BY <1>3, <2>1, PickIn
    <3>2. \A h : Adds(h) <=> AddsUp(h, AmountPaid, T)
      BY <3>1 DEF AddsUp
    <3> HIDE DEF Adds
    <3> QED
      BY <2>2, <3>2
  <2>4. B!MapThenSumSet(LAMBDA r : tx[r].amount, T) = g[T]
    BY <2>3, Zenon DEF B!MapThenSumSet, B!MapThenFoldSet, Pick
  <2>5. Total(AmountPaid, T) \in Int
    BY <2>1, TotalFacts
  <2> QED
    BY <2>2, <2>4, <2>5 DEF B!MoneySpent, Earning, T
<1> QED
  BY <1>2, <1>4 DEF PointsAdded

\* A purchase about to be recorded is covered by the points there are.
Cleared == \A h \in Handlers : B!At(h, "purchase") => B!AvailablePoints >= booking[h].item.points

\* Another entry for one product changes the sum by as much.
LEMMA PointsChange ==
  ASSUME IsFiniteSet(Products), BooksInv, BooksInv', PointsAdded, PointsAdded', NEW v \in Products,
         NEW n \in Nat, spent' = [spent EXCEPT ![v] = n]
  PROVE  B!PointsSpent' = (B!PointsSpent - spent[v]) + n
<1>1. spent \in [Products -> Int] /\ spent' \in [Products -> Int] /\ spent[v] \in Int
  BY DEF BooksInv, B!TypeOK
<1>2. Total(spent, Products) = spent[v] + Total(spent, Products \ {v})
  BY <1>1, TotalFacts
<1>3. PICK new \in [Products -> Int] : new = spent'
  BY <1>1
<1>4. Total(new, Products) = new[v] + Total(new, Products \ {v})
  BY TotalFacts
<1>5. \A w \in Products \ {v} : spent[w] = new[w]
  BY <1>1, <1>3
<1>6. Total(spent, Products \ {v}) = Total(new, Products \ {v})
  BY <1>1, <1>5, TotalSame
<1>7. Total(spent, Products \ {v}) \in Int
  BY <1>1, TotalFacts
<1>8. new[v] = n
  BY <1>1, <1>3
<1>9. Total(spent', Products) = Total(new, Products)
  BY <1>3
<1> QED
  BY <1>1, <1>2, <1>4, <1>6, <1>7, <1>8, <1>9 DEF PointsAdded

LEMMA SamePoints ==
  ASSUME PointsAdded, PointsAdded', UNCHANGED <<tx, spent, played>>
  PROVE  B!PointsSpent' = B!PointsSpent /\ B!EarnedPoints' = B!EarnedPoints
         /\ B!AvailablePoints' = B!AvailablePoints
<1>1. AmountPaid' = AmountPaid /\ Earning' = Earning
  BY DEF AmountPaid, Earning
<1>2. B!PointsSpent' = B!PointsSpent /\ B!MoneySpent' = B!MoneySpent
  BY <1>1 DEF PointsAdded
<1>3. B!EarnedPoints' = B!EarnedPoints
  BY <1>2 DEF B!EarnedPoints
<1> QED
  BY <1>2, <1>3 DEF B!AvailablePoints

LEMMA PurchasesCleared ==
  ASSUME "books" \notin Racing, IsFiniteSet(Products), BooksInv, BooksInv', OneBooking,
         PointsAdded, PointsAdded', Cleared, [MCNext]_<<vars, bookVars, desk>>
  PROVE  /\ Cleared'
         /\ B!PointsSpent' > B!PointsSpent => B!PointsSpent' <= B!EarnedPoints
<1> DEFINE Covered == B!PointsSpent' > B!PointsSpent => B!PointsSpent' <= B!EarnedPoints
<1>0. /\ booking \in [Handlers -> B!Request] /\ booking' \in [Handlers -> B!Request]
      /\ \A h \in Handlers : booking[h].item.points \in Nat
      /\ played \in Nat /\ spent \in [Products -> Nat]
  BY DEF BooksInv, B!TypeOK, B!Request, B!Product
<1>1. B!PointsSpent \in Int /\ B!EarnedPoints \in Int
      /\ B!PointsSpent' \in Int /\ B!EarnedPoints' \in Int
  BY DEF PointsAdded, B!EarnedPoints, BooksInv, B!TypeOK
<1>2. ASSUME B!PointsSpent' = B!PointsSpent
      PROVE  Covered
  BY <1>1, <1>2
<1>3. ASSUME \A g \in Handlers : ~B!At(g, "purchase")'
      PROVE  Cleared'
  BY <1>3 DEF Cleared
<1>4. ASSUME NEW h \in Handlers, desk = "books", Turn, B!LedgerStep(h) \/ B!ShopStep(h)
      PROVE  Cleared' /\ Covered
  <2>1. \A g \in Handlers : ~B!At(g, "purchase")'
    <3>1. \A g \in Handlers : ~B!At(g, "purchase")
      BY <1>4 DEF Turn, B!At
    <3>2. B!Idle.pc = "idle" /\ \A v, item :
            \A pc \in {"insertProduct", "saveProduct", "points"} :
              [B!Idle EXCEPT !.pc = pc, !.product = v, !.item = item].pc = pc
      BY DEF B!Idle
    <3>3. booking' = booking \/ \E new : B!Becomes(h, new) /\ new.pc # "purchase"
      <4>1. CASE B!ShopStep(h)
        <5>1. booking' = booking
              \/ \E pc \in {"insertProduct", "saveProduct", "points"} : \E v, item :
                   B!Becomes(h, [B!Idle EXCEPT !.pc = pc, !.product = v, !.item = item])
          BY <4>1, ZenonT(40) DEF B!ShopStep, B!CreateProduct, B!UpdateProduct, B!RemoveProduct,
             B!PurchaseProduct
        <5> QED
          BY <3>2, <5>1, ZenonT(40)
      <4>2. CASE B!LedgerStep(h)
        <5>1. booking' = booking \/ \E r, row : B!WillSave(h, r, row)
          BY <4>2, LedgerForms DEF LoadsRow, PostsRow
        <5>2. \A r, row : [B!Idle EXCEPT !.pc = "saveTx", !.tx = r, !.row = row].pc # "purchase"
          BY DEF B!Idle
        <5> QED
          BY <5>1, <5>2 DEF B!WillSave
      <4> QED
        BY <1>4, <4>1, <4>2
    <3> QED
      BY <1>0, <3>1, <3>3 DEF B!Becomes, B!At
  <2>2. CASE B!LedgerStep(h)
    <3>1. spent' = spent
      BY <2>2, LedgerForms, WillSaveForm DEF LoadsRow, PostsRow
    <3> QED
      BY <1>2, <1>3, <2>1, <3>1 DEF PointsAdded
  <2>3. CASE B!ShopStep(h)
    <3>1. spent' = spent \/ \E v \in Products : spent' = [spent EXCEPT ![v] = 0]
      BY <2>3, ZenonT(30) DEF B!ShopStep, B!CreateProduct, B!UpdateProduct, B!RemoveProduct,
         B!PurchaseProduct, B!shop
    <3>2. CASE spent' = spent
      BY <1>2, <1>3, <2>1, <3>2 DEF PointsAdded
    <3>3. ASSUME NEW v \in Products, spent' = [spent EXCEPT ![v] = 0]
          PROVE  Covered
      <4>1. B!PointsSpent' = (B!PointsSpent - spent[v]) + 0 /\ spent[v] \in Nat
        BY <1>0, <3>3, PointsChange
      <4> QED
        BY <1>1, <4>1
    <3> QED
      BY <1>3, <2>1, <3>1, <3>2, <3>3
  <2> QED
    BY <1>4, <2>2, <2>3
<1>5. ASSUME NEW h \in Handlers, desk = "books",
             B!SaveTx(h) \/ B!InsertProduct(h) \/ B!SaveProduct(h) \/ B!PurchaseLost(h)
               \/ B!PurchaseTx(h)
      PROVE  Cleared'
  <2>1. Booking(h) /\ booking' = [booking EXCEPT ![h] = B!Idle]
    BY <1>5 DEF B!SaveTx, B!InsertProduct, B!SaveProduct, B!PurchaseLost, B!PurchaseTx,
       B!Done, B!Becomes, Booking, B!At
  <2>2. \A g \in Handlers : ~B!At(g, "purchase")'
    BY <1>0, <1>5, <2>1 DEF OneBooking, Booking, B!At, B!Idle
  <2> QED
    BY <1>3, <2>2
<1>11. ASSUME NEW h \in Handlers, desk = "books", B!ReloadTx(h)
      PROVE  Cleared'
  <2>1. Booking(h)
    BY <1>11, TxReloaded DEF Booking, B!At
  <2>2. PICK new : booking' = [booking EXCEPT ![h] = new] /\ new.pc = "writeTx"
    BY <1>11, TxReloaded DEF ToWrite
  <2>3. \A g \in Handlers : ~B!At(g, "purchase")'
    BY <1>0, <1>11, <2>1, <2>2 DEF OneBooking, Booking, B!At
  <2> QED
    BY <1>3, <2>3
<1>6. ASSUME NEW h \in Handlers, desk = "books",
             B!ReloadTx(h) \/ B!SaveTx(h) \/ B!InsertProduct(h) \/ B!SaveProduct(h) \/ B!PurchaseLost(h)
      PROVE  Covered
  <2>1. spent' = spent
    BY <1>6 DEF B!ReloadTx, B!SaveTx, B!InsertProduct, B!SaveProduct, B!PurchaseLost, B!shop
  <2> QED
    BY <1>2, <2>1 DEF PointsAdded
<1>7. ASSUME NEW h \in Handlers, desk = "books", B!CheckPoints(h)
      PROVE  Cleared' /\ Covered
  <2>1. UNCHANGED <<tx, spent, played>> /\ B!At(h, "points")
    BY <1>7 DEF B!CheckPoints, B!ledgerVars, B!shop
  <2>2. Covered /\ B!AvailablePoints' = B!AvailablePoints
    BY <1>2, <2>1, SamePoints
  <2>3. \A g \in Handlers \ {h} : booking'[g].pc = "idle"
    <3>1. \A g \in Handlers \ {h} : booking'[g] = booking[g]
      BY <1>0, <1>7 DEF B!CheckPoints, B!Done, B!Becomes
    <3> QED
      BY <1>7, <2>1, <3>1 DEF OneBooking, Booking, B!At
  <2>4. CASE B!Affordable(booking[h].item)
    <3> DEFINE new == [booking[h] EXCEPT !.pc = "purchase"]
    <3>1. B!Becomes(h, new)
      BY <1>7, <2>4 DEF B!CheckPoints
    <3>2. new.item = booking[h].item
      BY <1>0 DEF B!Request
    <3> HIDE DEF new
    <3>3. booking'[h].item = booking[h].item
      BY <1>0, <3>1, <3>2 DEF B!Becomes
    <3>4. B!AvailablePoints' >= booking'[h].item.points
      BY <2>2, <2>4, <3>3 DEF B!Affordable
    <3> QED
      BY <2>2, <2>3, <3>4 DEF Cleared, B!At
  <2>5. CASE ~B!Affordable(booking[h].item)
    <3>1. booking' = [booking EXCEPT ![h] = B!Idle]
      BY <1>7, <2>5 DEF B!CheckPoints, B!Done, B!Becomes
    <3>2. \A g \in Handlers : ~B!At(g, "purchase")'
      BY <1>0, <2>3, <3>1 DEF B!At, B!Idle
    <3> QED
      BY <1>3, <2>2, <3>2
  <2> QED
    BY <2>4, <2>5
<1>8. ASSUME NEW h \in Handlers, desk = "books", B!PurchaseTx(h)
      PROVE  Covered
  <2> DEFINE v == booking[h].product
             n == booking[h].item.points
  <2>1. CASE spent' = spent
    BY <1>2, <2>1 DEF PointsAdded
  <2>2. CASE spent' # spent
    <3>1. spent' = [spent EXCEPT ![v] = @ + n] /\ B!At(h, "purchase")
      BY <1>8, <2>2, Zenon DEF B!PurchaseTx
    <3>2. n \in Nat /\ B!AvailablePoints >= n
      BY <1>0, <3>1 DEF Cleared
    <3> HIDE DEF v, n
    <3>3. v \in Products
      BY <1>0, <2>2, <3>1
    <3>4. spent[v] \in Nat /\ spent[v] + n \in Nat /\ spent' = [spent EXCEPT ![v] = spent[v] + n]
      BY <1>0, <3>1, <3>2, <3>3
    <3> DEFINE m == spent[v] + n
    <3>5. m \in Nat /\ spent' = [spent EXCEPT ![v] = m]
      BY <3>4
    <3> HIDE DEF m
    <3>6. B!PointsSpent' = (B!PointsSpent - spent[v]) + m
      BY <3>3, <3>5, PointsChange
    <3>7. B!PointsSpent' = B!PointsSpent + n
      BY <1>1, <3>2, <3>4, <3>6 DEF m
    <3>8. n <= IF B!EarnedPoints - B!PointsSpent > 0 THEN B!EarnedPoints - B!PointsSpent ELSE 0
      BY <1>1, <3>2 DEF B!AvailablePoints, B!NotNegative
    <3> QED
      BY <1>1, <3>2, <3>7, <3>8
  <2> QED
    BY <2>1, <2>2
<1>9. ASSUME desk = "books", B!Play
      PROVE  Cleared' /\ Covered
  <2>1. tx' = tx /\ spent' = spent /\ played' = played + 1 /\ booking' = booking
    BY <1>9 DEF B!Play, B!ledgerVars, B!shop
  <2>2. AmountPaid' = AmountPaid /\ Earning' = Earning
    BY <2>1 DEF AmountPaid, Earning
  <2>3. B!PointsSpent' = B!PointsSpent /\ B!MoneySpent' = B!MoneySpent /\ B!MoneySpent \in Int
    BY <2>1, <2>2 DEF PointsAdded
  <2>4. B!EarnedPoints' = B!EarnedPoints + 1
    BY <1>0, <2>1, <2>3 DEF B!EarnedPoints
  <2>5. B!AvailablePoints' >= B!AvailablePoints /\ B!AvailablePoints \in Int /\ B!AvailablePoints' \in Int
    BY <1>1, <2>3, <2>4 DEF B!AvailablePoints, B!NotNegative
  <2>6. Cleared'
    BY <1>0, <2>1, <2>5 DEF Cleared, B!At
  <2> QED
    BY <1>2, <2>3, <2>6
<1>10. CASE UNCHANGED bookVars
  <2>1. UNCHANGED <<tx, spent, played>> /\ booking' = booking
    BY <1>10 DEF bookVars
  <2> QED
    BY <1>2, <2>1, SamePoints DEF Cleared, B!At
<1> QED
  BY <1>4, <1>5, <1>6, <1>7, <1>8, <1>9, <1>10, <1>11 DEF MCNext, BooksStep, B!WriteStep

\* Points are spent once where requests take turns: whatever is bought is paid
\* for by points earned and not spent when the purchase is recorded
\* (player-vip.service).
THEOREM PurchasesAreCovered ==
  ASSUME "books" \notin Racing, IsFiniteSet(Txs), IsFiniteSet(Products)
  PROVE  MCSpec => PurchaseCovered
<1> DEFINE Covered == B!PointsSpent' > B!PointsSpent => B!PointsSpent' <= B!EarnedPoints
<1>1. MCInit => Cleared
  BY DEF MCInit, B!Init, Cleared, B!At, B!Idle
<1>2. BooksInv => PointsAdded
  BY PointsAreAdded
<1>3. BooksInv /\ BooksInv' /\ OneBooking /\ PointsAdded /\ PointsAdded' /\ Cleared
      /\ [MCNext]_<<vars, bookVars, desk>> => Cleared' /\ Covered
  BY PurchasesCleared
<1>4. BooksInv /\ BooksInv' /\ OneBooking /\ PointsAdded /\ PointsAdded' /\ Cleared
      /\ [MCNext]_<<vars, bookVars, desk>> => [Covered]_B!vars
  BY <1>3
<1>5. MCSpec => []BooksInv /\ []OneBooking
  BY BooksInvariant, OneBookingKept, PTL
<1>6. MCSpec => []PointsAdded
  BY <1>2, <1>5, PTL
<1>7. MCSpec => []Cleared
  BY <1>1, <1>3, <1>5, <1>6, PTL DEF MCSpec
<1> QED
  BY <1>4, <1>5, <1>6, <1>7, PTL DEF MCSpec, PurchaseCovered, B!PurchaseCovered

-----------------------------------------------------------------------------
(* Affiliates: what they are owed.                                         *)

AmountDue == [t \in Payments |-> payment[t].amount]
PaidBy(a) == {t \in Payments : payment[t].to = a}
Owed(a) == Total(AmountDue, PaidBy(a))
Sync(a) == affiliate[a].commission = Owed(a)
InSync == \A a \in Affiliates : Sync(a)

\* A request that will write an affiliate's row, or a payment of his.
Owes(r) == r.pc \in {"refer", "override", "commission"} \/ (r.pc = "insert" /\ r.a # "none")

\* What such a request has loaded: it agrees with the books when it is written.
Carries(r) ==
  /\ r.a \in Affiliates /\ r.books.there /\ affiliate[r.a].there
  /\ r.pc \in {"insert", "refer"} =>
       InSync /\ r.books.commission = affiliate[r.a].commission
  /\ r.pc = "override" =>
       /\ InSync /\ r.t \in Payments /\ payment[r.t] # NoPayment
       /\ payment[r.t].to = r.a /\ r.pay.to = r.a
       /\ r.books.commission = affiliate[r.a].commission + (r.pay.amount - payment[r.t].amount)
  /\ r.pc = "commission" =>
       (\A b \in Affiliates \ {r.a} : Sync(b)) /\ r.books.commission = Owed(r.a)

\* Affiliates still to be created have no commission, and nobody has paid them.
Opened ==
  /\ \A a \in Affiliates : ~affiliate[a].there => affiliate[a].commission = 0
  /\ \A t \in Payments : payment[t] # NoPayment =>
       payment[t].to \in Affiliates /\ affiliate[payment[t].to].there

SyncInv ==
  /\ Opened
  /\ (\A h \in Handlers : ~Owes(req[h])) => InSync
  /\ desk # "affiliates" => \A h \in Handlers : ~Owes(req[h])
  /\ \A h \in Handlers : Owes(req[h]) => Carries(req[h])

\* The sum in CommissionInSync is that of the lemmas on sums.
LEMMA DuesAdded ==
  ASSUME IsFiniteSet(Payments), TypeOK, NEW a
  PROVE  MapThenSumSet(LAMBDA t : payment[t].amount, {t \in Payments : payment[t].to = a}) = Owed(a)
<1> DEFINE T == {t \in Payments : payment[t].to = a}
           Adds(h) == h = [x \in SUBSET T |->
                             IF x = {} THEN 0 ELSE payment[Pick(x)].amount + h[x \ {Pick(x)}]]
<1>1. \A t \in Payments : AmountDue[t] = payment[t].amount /\ AmountDue[t] \in Int
  BY DEF TypeOK, Payment, AmountDue
<1>2. IsFiniteSet(T) /\ T \in SUBSET Payments
  BY FS_Subset
<1> HIDE DEF T
<1>3. PICK g : g[T] = Total(AmountDue, T) /\ \A h : AddsUp(h, AmountDue, T) <=> h = g
  BY <1>1, <1>2, SumSolved
<1>4. \A h : Adds(h) <=> h = g
  <2>1. \A x \in SUBSET T : x # {} => AmountDue[Pick(x)] = payment[Pick(x)].amount
    BY <1>1, <1>2, PickIn
  <2>2. \A h : Adds(h) <=> AddsUp(h, AmountDue, T)
    BY <2>1 DEF AddsUp
  <2> HIDE DEF Adds
  <2> QED
    BY <1>3, <2>2
<1>5. MapThenSumSet(LAMBDA t : payment[t].amount, T) = g[T]
  BY <1>4, Zenon DEF MapThenSumSet, MapThenFoldSet, Pick
<1> QED
  BY <1>3, <1>5 DEF T, Owed, PaidBy

Part(pay, a) == IF pay.to = a THEN pay.amount ELSE 0

\* Another entry for one payment changes what is owed by as much.
LEMMA OwedChanges ==
  ASSUME IsFiniteSet(Payments), TypeOK, NEW t \in Payments, NEW pay \in Payment,
         payment' = [payment EXCEPT ![t] = pay], NEW a
  PROVE  Owed(a)' = (Owed(a) - Part(payment[t], a)) + Part(pay, a) /\ Owed(a) \in Int
<1> DEFINE old == AmountDue
           rest == PaidBy(a) \ {t}
<1>1. payment \in [Payments -> Payment] /\ payment' \in [Payments -> Payment]
      /\ payment'[t] = pay /\ \A s \in Payments \ {t} : payment'[s] = payment[s]
  BY DEF TypeOK
<1>2. PICK new : new = AmountDue'
  OBVIOUS
<1>3. PICK S : S = PaidBy(a)'
  OBVIOUS
<1>4. /\ old \in [Payments -> Int] /\ new \in [Payments -> Int]
      /\ old[t] = payment[t].amount /\ new[t] = pay.amount
      /\ \A s \in Payments \ {t} : old[s] = new[s]
  BY <1>1, <1>2 DEF AmountDue, Payment
<1>5. PaidBy(a) \in SUBSET Payments /\ S \in SUBSET Payments /\ rest \in SUBSET Payments
      /\ S \ {t} = rest /\ (t \in S <=> pay.to = a) /\ (t \in PaidBy(a) <=> payment[t].to = a)
  BY <1>1, <1>3 DEF PaidBy
<1>6. Owed(a) = Total(old, PaidBy(a)) /\ Owed(a)' = Total(new, S)
  BY <1>2, <1>3 DEF Owed
<1> DEFINE T == PaidBy(a)
<1>7. rest = T \ {t}
  OBVIOUS
<1> HIDE DEF old, rest, T
<1>8. Total(old, T) = Total(old, rest) + Part(payment[t], a) /\ Total(old, rest) \in Int
  <2>1. Total(old, rest) \in Int /\ payment[t].amount \in Int
    BY <1>1, <1>4, <1>5, TotalFacts DEF Payment
  <2>2. CASE t \in T
    <3>1. Total(old, T) = old[t] + Total(old, T \ {t})
      BY <1>4, <1>5, <2>2, TotalFacts DEF T
    <3> QED
      BY <1>4, <1>5, <1>7, <2>1, <2>2, <3>1 DEF Part, T
  <2>3. CASE t \notin T
    <3>1. T = rest
      BY <1>7, <2>3
    <3> QED
      BY <1>5, <2>1, <2>3, <3>1 DEF Part, T
  <2> QED
    BY <2>2, <2>3
<1>9. Total(new, S) = Total(new, rest) + Part(pay, a) /\ Total(new, rest) \in Int
  <2>1. Total(new, rest) \in Int /\ pay.amount \in Int
    BY <1>4, <1>5, TotalFacts DEF Payment
  <2>2. CASE t \in S
    <3>1. Total(new, S) = new[t] + Total(new, S \ {t})
      BY <1>4, <1>5, <2>2, TotalFacts
    <3>2. Total(new, S \ {t}) = Total(new, rest) /\ pay.to = a
      BY <1>5, <2>2
    <3> QED
      BY <1>4, <2>1, <3>1, <3>2 DEF Part
  <2>3. CASE t \notin S
    <3>1. S = rest
      BY <1>5, <2>3
    <3> QED
      BY <1>5, <2>1, <2>3, <3>1 DEF Part
  <2> QED
    BY <2>2, <2>3
<1>10. Total(old, rest) = Total(new, rest)
  <2>1. \A s \in rest : old[s] = new[s]
    BY <1>4, <1>5, <1>7
  <2> QED
    BY <1>4, <1>5, <2>1, TotalSame
<1>11. Part(payment[t], a) \in Int /\ Part(pay, a) \in Int
  BY <1>1 DEF Part, Payment
<1> QED
  BY <1>6, <1>8, <1>9, <1>10, <1>11 DEF T

-----------------------------------------------------------------------------
(* Affiliates: the steps.                                                  *)

\* The request of h is the only one that moves, and no other owes anything.
Alone(h) == \A g \in Handlers \ {h} : ~Owes(req[g]) /\ req'[g] = req[g]

\* No affiliate and no payment is written, and none will be.
Quiet(h) ==
  /\ UNCHANGED <<affiliate, payment>>
  /\ req[h].pc \notin {"override", "commission"} /\ ~Owes(req'[h])

\* The books of an affiliate are loaded, his payments as they are.
LoadsBooks(h) ==
  /\ UNCHANGED <<affiliate, payment>> /\ ~Owes(req[h])
  /\ LET r == req'[h] IN
       /\ r.pc \in {"insert", "commission"} /\ r.a \in Affiliates
       /\ affiliate[r.a].there /\ r.books = affiliate[r.a]

LoadsPayment(h) ==
  /\ UNCHANGED <<affiliate, payment>> /\ ~Owes(req[h])
  /\ LET r == req'[h] IN
       /\ r.pc = "override" /\ r.a \in Affiliates
       /\ r.t \in Payments /\ payment[r.t] # NoPayment
       /\ r.a = payment[r.t].to /\ r.pay.to = r.a
       /\ r.books.there = affiliate[r.a].there
       /\ r.books.commission = affiliate[r.a].commission + (r.pay.amount - payment[r.t].amount)

Pays(h) ==
  /\ affiliate' = affiliate /\ ~Owes(req[h])
  /\ \E t \in Payments, a \in Affiliates : \E pay \in Payment :
       /\ payment[t] = NoPayment /\ affiliate[a].there
       /\ payment' = [payment EXCEPT ![t] = pay] /\ pay.to = a
       /\ req'[h].pc = "commission" /\ req'[h].a = a /\ req'[h].books.there
       /\ req'[h].books.commission = affiliate[a].commission + pay.amount

Corrects(h) ==
  /\ affiliate' = affiliate /\ req[h].pc = "override"
  /\ payment' = [payment EXCEPT ![req[h].t] = req[h].pay]
  /\ req'[h].pc = "commission" /\ req'[h].a = req[h].a /\ req'[h].books = req[h].books

WritesBooks(h) ==
  /\ payment' = payment /\ req[h].pc \in {"refer", "commission"} /\ ~Owes(req'[h])
  /\ \E new \in Affiliate :
       /\ affiliate' = [affiliate EXCEPT ![req[h].a] = new]
       /\ new.there = req[h].books.there /\ new.commission = req[h].books.commission

Refers(h) ==
  /\ UNCHANGED <<affiliate, payment>> /\ req[h].pc = "insert" /\ req'[h].pc = "refer"
  /\ req'[h].a = req[h].a /\ req[h].a # "none" /\ req'[h].books = req[h].books

Opens(h) ==
  /\ payment' = payment /\ ~Owes(req[h]) /\ req'[h] = req[h]
  /\ \E a \in Affiliates : \E new \in Affiliate :
       /\ ~affiliate[a].there /\ affiliate' = [affiliate EXCEPT ![a] = new]
       /\ new.there /\ new.commission = 0

LEMMA QuietKeeps ==
  ASSUME SyncInv, NEW h \in Handlers, Alone(h), desk' = desk, Quiet(h)
  PROVE  SyncInv'
<1>1. InSync
  BY DEF SyncInv, Alone, Quiet, Owes, Carries
<1>2. InSync' /\ Opened'
  BY <1>1 DEF Quiet, SyncInv, Opened, InSync, Sync, Owed, AmountDue, PaidBy
<1>3. \A g \in Handlers : ~Owes(req'[g])
  BY DEF Alone, Quiet
<1> QED
  BY <1>2, <1>3 DEF SyncInv, Owes

LEMMA LoadsKeep ==
  ASSUME SyncInv, NEW h \in Handlers, Alone(h), desk = "affiliates", desk' = desk,
         LoadsBooks(h) \/ LoadsPayment(h) \/ Refers(h)
  PROVE  SyncInv'
<1>1. InSync
  BY DEF SyncInv, Alone, LoadsBooks, LoadsPayment, Refers, Owes, Carries
<1>2. UNCHANGED <<affiliate, payment>>
  BY DEF LoadsBooks, LoadsPayment, Refers
<1>3. \A a : Owed(a)' = Owed(a)
  BY <1>2 DEF Owed, AmountDue, PaidBy
<1>4. InSync' /\ Opened' /\ \A a \in Affiliates : Sync(a)' /\ affiliate[a].commission = Owed(a)
  BY <1>1, <1>2, <1>3 DEF SyncInv, Opened, InSync, Sync
<1>5. \A g \in Handlers \ {h} : ~Owes(req'[g])
  BY DEF Alone
<1>6. Carries(req[h])'
  <2>1. CASE LoadsBooks(h)
    BY <1>2, <1>3, <1>4, <2>1 DEF LoadsBooks, Carries
  <2>2. CASE LoadsPayment(h)
    <3>1. req'[h].books.there
      BY <2>2 DEF LoadsPayment, SyncInv, Opened
    <3> QED
      BY <1>2, <1>4, <2>2, <3>1 DEF LoadsPayment, Carries
  <2>3. CASE Refers(h)
    <3>1. Carries(req[h]) /\ req[h].pc = "insert"
      BY <2>3 DEF Refers, SyncInv, Owes
    <3> QED
      BY <1>2, <1>4, <2>3, <3>1 DEF Refers, Carries
  <2> QED
    BY <2>1, <2>2, <2>3
<1> QED
  BY <1>4, <1>5, <1>6 DEF SyncInv, Owes

LEMMA PaysKeep ==
  ASSUME IsFiniteSet(Payments), TypeOK, SyncInv, NEW h \in Handlers, Alone(h),
         desk = "affiliates", desk' = desk, Pays(h)
  PROVE  SyncInv'
<1>1. PICK t \in Payments, a \in Affiliates : \E pay \in Payment :
        /\ payment[t] = NoPayment /\ affiliate[a].there
        /\ payment' = [payment EXCEPT ![t] = pay] /\ pay.to = a
        /\ req'[h].pc = "commission" /\ req'[h].a = a /\ req'[h].books.there
        /\ req'[h].books.commission = affiliate[a].commission + pay.amount
  BY DEF Pays
<1>2. PICK pay \in Payment :
        /\ payment[t] = NoPayment /\ affiliate[a].there
        /\ payment' = [payment EXCEPT ![t] = pay] /\ pay.to = a
        /\ req'[h].pc = "commission" /\ req'[h].a = a /\ req'[h].books.there
        /\ req'[h].books.commission = affiliate[a].commission + pay.amount
  BY <1>1
<1>3. InSync /\ affiliate' = affiliate
  BY DEF SyncInv, Alone, Pays
<1>4. \A b : Part(payment[t], b) = 0
  BY <1>2 DEF Part, NoPayment
<1>5. \A b : Owed(b)' = (Owed(b) - 0) + Part(pay, b) /\ Owed(b) \in Int
  BY <1>2, <1>4, OwedChanges
<1>6. \A b \in Affiliates \ {a} : Sync(b)'
  <2> SUFFICES ASSUME NEW b \in Affiliates \ {a} PROVE Sync(b)'
    OBVIOUS
  <2>1. Part(pay, b) = 0
    BY <1>2 DEF Part
  <2> QED
    BY <1>3, <1>5, <2>1 DEF InSync, Sync
<1>7. Owed(a)' = affiliate[a].commission + pay.amount
  <2>1. Part(pay, a) = pay.amount /\ pay.amount \in Int
    BY <1>2 DEF Part, Payment
  <2> QED
    BY <1>3, <1>5, <2>1 DEF InSync, Sync
<1>8. Carries(req[h])'
  BY <1>2, <1>3, <1>6, <1>7 DEF Carries
<1>9. Opened'
  BY <1>2, <1>3 DEF SyncInv, Opened, TypeOK
<1>10. \A g \in Handlers \ {h} : ~Owes(req'[g])
  BY DEF Alone
<1> QED
  BY <1>2, <1>8, <1>9, <1>10 DEF SyncInv, Owes

LEMMA CorrectsKeep ==
  ASSUME IsFiniteSet(Payments), TypeOK, SyncInv, NEW h \in Handlers, Alone(h),
         desk = "affiliates", desk' = desk, Corrects(h)
  PROVE  SyncInv'
<1>0. PICK t, a, pay, books :
        t = req[h].t /\ a = req[h].a /\ pay = req[h].pay /\ books = req[h].books
  OBVIOUS
<1>1. /\ affiliate' = affiliate /\ payment' = [payment EXCEPT ![t] = pay]
      /\ req'[h].pc = "commission" /\ req'[h].a = a /\ req'[h].books = books
  BY <1>0 DEF Corrects
<1>2. /\ a \in Affiliates /\ books.there /\ affiliate[a].there
      /\ InSync /\ t \in Payments /\ payment[t] # NoPayment
      /\ payment[t].to = a /\ pay.to = a
      /\ books.commission = affiliate[a].commission + (pay.amount - payment[t].amount)
  BY <1>0 DEF Corrects, SyncInv, Owes, Carries
<1>3. pay \in Payment
  BY <1>0 DEF TypeOK, Request
<1>4. payment[t] \in Payment /\ affiliate[a].commission \in Int
  BY <1>2 DEF TypeOK, Affiliate
<1>5. \A b : Owed(b)' = (Owed(b) - Part(payment[t], b)) + Part(pay, b) /\ Owed(b) \in Int
  BY <1>1, <1>2, <1>3, OwedChanges
<1>6. \A b \in Affiliates \ {a} : Sync(b)'
  <2> SUFFICES ASSUME NEW b \in Affiliates \ {a} PROVE Sync(b)'
    OBVIOUS
  <2>1. Part(pay, b) = 0 /\ Part(payment[t], b) = 0
    BY <1>2 DEF Part
  <2> QED
    BY <1>1, <1>2, <1>5, <2>1 DEF InSync, Sync
<1>7. Owed(a)' = affiliate[a].commission + (pay.amount - payment[t].amount)
  <2>1. Part(pay, a) = pay.amount /\ Part(payment[t], a) = payment[t].amount
    BY <1>2 DEF Part
  <2>2. pay.amount \in Int /\ payment[t].amount \in Int
    BY <1>3, <1>4 DEF Payment
  <2>3. affiliate[a].commission = Owed(a)
    BY <1>2 DEF InSync, Sync
  <2> QED
    BY <1>4, <1>5, <2>1, <2>2, <2>3
<1>8. req'[h].books.commission = Owed(a)' /\ req'[h].books.there
  BY <1>1, <1>2, <1>7
<1>9. Carries(req[h])'
  BY <1>1, <1>2, <1>6, <1>8 DEF Carries
<1>10. Opened'
  BY <1>1, <1>2 DEF SyncInv, Opened, TypeOK
<1>11. \A g \in Handlers \ {h} : ~Owes(req'[g])
  BY DEF Alone
<1> QED
  BY <1>1, <1>9, <1>10, <1>11 DEF SyncInv, Owes

LEMMA BooksWritten ==
  ASSUME TypeOK, SyncInv, NEW h \in Handlers, Alone(h), desk = "affiliates", desk' = desk,
         WritesBooks(h)
  PROVE  SyncInv'
<1> DEFINE a == req[h].a
<1>1. PICK new \in Affiliate :
        /\ affiliate' = [affiliate EXCEPT ![a] = new] /\ payment' = payment
        /\ new.there = req[h].books.there /\ new.commission = req[h].books.commission
  BY DEF WritesBooks
<1>2. /\ a \in Affiliates /\ new.there
      /\ \A b \in Affiliates \ {a} : Sync(b)
      /\ new.commission = Owed(a)
  BY <1>1 DEF WritesBooks, SyncInv, Owes, Carries, InSync, Sync
<1>3. \A b : Owed(b)' = Owed(b)
  BY <1>1 DEF Owed, AmountDue, PaidBy
<1> HIDE DEF a
<1>4. InSync'
  BY <1>1, <1>2, <1>3 DEF InSync, Sync, TypeOK
<1>5. Opened'
  BY <1>1, <1>2 DEF SyncInv, Opened, TypeOK
<1>6. \A g \in Handlers : ~Owes(req'[g])
  BY DEF Alone, WritesBooks
<1> QED
  BY <1>4, <1>5, <1>6 DEF SyncInv, Owes

LEMMA OpensKeeps ==
  ASSUME TypeOK, SyncInv, NEW h \in Handlers, Alone(h), desk = "affiliates", desk' = desk, Opens(h)
  PROVE  SyncInv'
<1>1. PICK a \in Affiliates : \E new \in Affiliate :
        /\ ~affiliate[a].there /\ affiliate' = [affiliate EXCEPT ![a] = new]
        /\ new.there /\ new.commission = 0
  BY DEF Opens
<1>2. PICK new \in Affiliate :
        /\ ~affiliate[a].there /\ affiliate' = [affiliate EXCEPT ![a] = new]
        /\ new.there /\ new.commission = 0
  BY <1>1
<1>3. InSync /\ payment' = payment
  BY DEF SyncInv, Alone, Opens
<1>4. \A b : Owed(b)' = Owed(b)
  BY <1>3 DEF Owed, AmountDue, PaidBy
<1>5. affiliate[a].commission = 0
  BY <1>2 DEF SyncInv, Opened
<1>6. \A b \in Affiliates : affiliate'[b].commission = affiliate[b].commission
                            /\ (affiliate[b].there => affiliate'[b].there)
                            /\ (~affiliate'[b].there => affiliate'[b] = affiliate[b])
  BY <1>2, <1>5 DEF TypeOK
<1>7. InSync'
  BY <1>3, <1>4, <1>6 DEF InSync, Sync
<1>8. Opened'
  BY <1>3, <1>6 DEF SyncInv, Opened
<1>9. \A g \in Handlers : ~Owes(req'[g])
  BY DEF Alone, Opens
<1> QED
  BY <1>7, <1>8, <1>9 DEF SyncInv, Owes

\* What is begun at the desks of the players leaves the affiliates alone.
LEMMA GoesQuiet ==
  ASSUME TypeOK, NEW h \in Handlers, NEW p, NEW row, ~Owes(req[h]),
         NEW pc \in {"insert", "verdict", "save", "documents", "remove"}, Goes(h, pc, p, row)
  PROVE  Quiet(h)
<1> DEFINE r == [Idle EXCEPT !.pc = pc, !.p = p, !.row = row]
<1>1. Becomes(h, r) /\ UNCHANGED <<affiliate, payment>> /\ At(h, "idle")
  BY DEF Goes, Reading
<1>2. r.pc = pc /\ r.a = "none"
  BY DEF Idle
<1> HIDE DEF r
<1>3. req'[h] = r
  BY <1>1 DEF Becomes, TypeOK
<1> QED
  BY <1>1, <1>2, <1>3 DEF Quiet, Owes, At

LEMMA JoinsQuiet ==
  ASSUME TypeOK, NEW h \in Handlers, ~Owes(req[h]), NEW S, JoinStep(h, S)
  PROVE  Quiet(h) \/ (S # {"none"} /\ (S \subseteq Affiliates => LoadsBooks(h)))
<1>1. ASSUME NEW p, NEW e, NEW t, NEW a, PlayerSignup(h, p, e, t, a)
      PROVE  Quiet(h)
  BY <1>1, GoesQuiet DEF PlayerSignup
<1>2. ASSUME NEW p, NEW e, NEW t, NEW n, NEW a \in S, CreatePlayer(h, p, e, t, n, a)
      PROVE  Quiet(h) \/ (S # {"none"} /\ (S \subseteq Affiliates => LoadsBooks(h)))
  <2> DEFINE row == [NoPlayer EXCEPT !.there = TRUE, !.email = InSmallLetters(e), !.tilt = t,
                       !.pan = n, !.kyc = "approved", !.temporary = TRUE, !.affiliate = a]
             books == IF a = "none" THEN NoAffiliate ELSE affiliate[a]
             r == [Idle EXCEPT !.pc = "insert", !.p = p, !.a = a, !.books = books, !.row = row]
  <2>1. Becomes(h, r) /\ Reading /\ At(h, "idle") /\ (a # "none" => affiliate[a].there)
    BY <1>2, Zenon DEF CreatePlayer
  <2> HIDE DEF row, books
  <2>2. r.pc = "insert" /\ r.a = a /\ r.books = books
    BY DEF Idle
  <2> HIDE DEF r
  <2>3. req'[h] = r
    BY <2>1 DEF Becomes, TypeOK
  <2>4. CASE a = "none"
    BY <2>1, <2>2, <2>3, <2>4 DEF Quiet, Owes, At, Reading
  <2>5. CASE a # "none"
    <3>1. books = affiliate[a]
      BY <2>5 DEF books
    <3> QED
      BY <2>1, <2>2, <2>3, <2>5, <3>1 DEF LoadsBooks, Owes, At, Reading
  <2> QED
    BY <2>4, <2>5
<1> QED
  BY <1>1, <1>2 DEF JoinStep

LEMMA PlayersQuiet ==
  ASSUME TypeOK, NEW h \in Handlers, ~Owes(req[h]),
         StandingStep(h) \/ PaperStep(h) \/ ReviewStep(h) \/ \E S : EditStep(h, S)
  PROVE  Quiet(h)
<1>1. CASE StandingStep(h)
  <2>1. \E pc \in {"verdict", "save"}, p \in Players : \E row : Goes(h, pc, p, row)
    BY <1>1, ZenonT(30) DEF StandingStep, ApprovePlayer, RejectPlayer, SuspendPlayer, UnsuspendPlayer,
       ActivatePlayer, ChangePlayerPassword, ResetPlayerPassword
  <2> QED
    BY <2>1, GoesQuiet, SMTT(30)
<1>2. CASE \E S : EditStep(h, S)
  <2>1. \E pc \in {"remove", "save"}, p \in Players : \E row : Goes(h, pc, p, row)
    BY <1>2 DEF EditStep, DeletePlayer, UpdatePlayer
  <2> QED
    BY <2>1, GoesQuiet
<1>3. CASE PaperStep(h)
  <2>1. \E pc \in {"save", "documents"}, p \in Players : \E row : Goes(h, pc, p, row)
    BY <1>3 DEF PaperStep, SubmitPanCard, UploadDocument, DeleteDocument
  <2> QED
    BY <2>1, GoesQuiet
<1>4. CASE ReviewStep(h)
  <2>1. UNCHANGED <<affiliate, payment>>
    BY <1>4, Zenon DEF ReviewStep, RequestChange, ApproveRequest, RejectRequest, DismissChange, Reading
  <2>2. req' = req \/ \E r : Becomes(h, r) /\ r.pc \in {"approve", "reject"}
    <3>1. \A c : [Idle EXCEPT !.pc = "reject", !.c = c].pc = "reject"
      BY DEF Idle
    <3>2. \A c, p, row : [Idle EXCEPT !.pc = "approve", !.c = c, !.p = p, !.row = row].pc = "approve"
      BY DEF Idle
    <3>3. ASSUME NEW c, ApproveRequest(h, c)
          PROVE  \E r : Becomes(h, r) /\ r.pc \in {"approve", "reject"}
      <4> DEFINE p == change[c].player
                 row == Applied(player[p], change[c])
                 r == [Idle EXCEPT !.pc = "approve", !.c = c, !.p = p, !.row = row]
      <4>1. Becomes(h, r)
        BY <3>3, Zenon DEF ApproveRequest
      <4> HIDE DEF row, p
      <4>2. r.pc = "approve"
        BY <3>2
      <4> HIDE DEF r
      <4> QED
        BY <4>1, <4>2
    <3>4. ASSUME NEW c, RejectRequest(h, c)
          PROVE  \E r : Becomes(h, r) /\ r.pc \in {"approve", "reject"}
      <4> DEFINE r == [Idle EXCEPT !.pc = "reject", !.c = c]
      <4>1. Becomes(h, r) /\ r.pc = "reject"
        BY <3>1, <3>4 DEF RejectRequest
      <4> HIDE DEF r
      <4> QED
        BY <4>1
    <3>5. ASSUME NEW c, ApproveRequest(h, c) \/ RejectRequest(h, c)
          PROVE  \E r : Becomes(h, r) /\ r.pc \in {"approve", "reject"}
      BY <3>3, <3>4, <3>5
    <3>6. PICK c \in Changes : \/ \E p, field, e : RequestChange(h, p, c, field, e)
                               \/ ApproveRequest(h, c) \/ RejectRequest(h, c) \/ DismissChange(c)
      BY <1>4 DEF ReviewStep
    <3> QED
      BY <3>5, <3>6 DEF RequestChange, DismissChange
  <2>3. req'[h] = req[h] \/ req'[h].pc \in {"approve", "reject"}
    BY <2>2 DEF Becomes, TypeOK
  <2> QED
    BY <2>1, <2>3 DEF Quiet, Owes
<1> QED
  BY <1>1, <1>2, <1>3, <1>4

LEMMA AffiliateForms ==
  ASSUME TypeOK, PaidTo, NEW h \in Handlers, ~Owes(req[h]), AffiliateStep(h)
  PROVE  Opens(h) \/ LoadsBooks(h) \/ Pays(h) \/ LoadsPayment(h)
<1>1. ASSUME NEW a \in Affiliates, CreateAffiliate(a)
      PROVE  Opens(h)
  <2> DEFINE new == [NoAffiliate EXCEPT !.there = TRUE]
  <2>0. NoAffiliate \in Affiliate /\ NoAffiliate.commission = 0
    BY BlankRows DEF NoAffiliate
  <2>1. new \in Affiliate /\ new.there /\ new.commission = 0
    BY <2>0 DEF Affiliate
  <2>2. /\ ~affiliate[a].there /\ affiliate' = [affiliate EXCEPT ![a] = new]
        /\ payment' = payment /\ req' = req
    BY <1>1 DEF CreateAffiliate
  <2> HIDE DEF new
  <2> QED
    BY <2>1, <2>2 DEF Opens
<1>2. ASSUME NEW a \in Affiliates, UpdateAffiliate(h, a)
      PROVE  LoadsBooks(h)
  <2> DEFINE r == [Idle EXCEPT !.pc = "commission", !.a = a, !.books = affiliate[a]]
  <2>1. Becomes(h, r) /\ Reading /\ affiliate[a].there
    BY <1>2 DEF UpdateAffiliate
  <2>2. r.pc = "commission" /\ r.a = a /\ r.books = affiliate[a]
    BY DEF Idle
  <2> HIDE DEF r
  <2>3. req'[h] = r
    BY <2>1 DEF Becomes, TypeOK
  <2> QED
    BY <2>1, <2>2, <2>3 DEF LoadsBooks, Reading
<1>3. ASSUME NEW a \in Affiliates, NEW t \in Payments, NEW m \in Amounts, ProcessPayment(h, a, t, m)
      PROVE  Pays(h)
  <2> DEFINE pay == [NoPayment EXCEPT !.to = a, !.amount = m]
             books == [affiliate[a] EXCEPT !.commission = @ + m]
             r == [Idle EXCEPT !.pc = "commission", !.a = a, !.books = books]
  <2>1. /\ Becomes(h, r) /\ affiliate' = affiliate /\ affiliate[a].there
        /\ payment[t] = NoPayment /\ payment' = [payment EXCEPT ![t] = pay]
    BY <1>3, Zenon DEF ProcessPayment
  <2>2. m \in Nat
    BY MembershipAssumption
  <2>3. pay \in Payment /\ pay.to = a /\ pay.amount = m
    BY <2>2 DEF Payment, NoPayment
  <2>4. affiliate[a] \in Affiliate
    BY DEF TypeOK
  <2>5. books.there = affiliate[a].there /\ books.commission = affiliate[a].commission + m
    BY <2>4 DEF Affiliate
  <2> HIDE DEF pay, books
  <2>6. r.pc = "commission" /\ r.a = a /\ r.books = books
    BY DEF Idle
  <2> HIDE DEF r
  <2>7. req'[h] = r
    BY <2>1 DEF Becomes, TypeOK
  <2>8. /\ affiliate' = affiliate /\ payment[t] = NoPayment /\ affiliate[a].there
        /\ payment' = [payment EXCEPT ![t] = pay] /\ pay.to = a
        /\ req'[h].pc = "commission" /\ req'[h].a = a /\ req'[h].books.there
        /\ req'[h].books.commission = affiliate[a].commission + pay.amount
    BY <2>1, <2>3, <2>5, <2>6, <2>7
  <2> QED
    BY <2>3, <2>8 DEF Pays
<1>4. ASSUME NEW t \in Payments, NEW m \in Amounts, OverridePayment(h, t, m)
      PROVE  LoadsPayment(h)
  <2>1. PICK a : a = payment[t].to
    OBVIOUS
  <2> DEFINE first == IF payment[t].overridden THEN payment[t].original ELSE payment[t].amount
             pay == [payment[t] EXCEPT !.original = first, !.overridden = TRUE, !.amount = m]
             books == [affiliate[a] EXCEPT !.commission = @ + Delta(payment[t], m)]
             r == [Idle EXCEPT !.pc = "override", !.t = t, !.a = a, !.pay = pay, !.books = books]
  <2>2. Becomes(h, r) /\ Reading /\ payment[t] # NoPayment
    BY <1>4, <2>1, Zenon DEF OverridePayment
  <2>3. a \in Affiliates /\ payment[t] \in Payment /\ m \in Nat
    BY <2>1, <2>2, MembershipAssumption DEF TypeOK, PaidTo
  <2> HIDE DEF first
  <2>4. pay.to = a /\ pay.amount = m
    BY <2>1, <2>3 DEF Payment
  <2>5. affiliate[a] \in Affiliate
    BY <2>3 DEF TypeOK
  <2>6. books.there = affiliate[a].there
        /\ books.commission = affiliate[a].commission + (m - payment[t].amount)
    BY <2>5 DEF Affiliate, Delta
  <2> HIDE DEF pay, books
  <2>7. r.pc = "override" /\ r.a = a /\ r.t = t /\ r.pay = pay /\ r.books = books
    BY DEF Idle
  <2> HIDE DEF r
  <2>8. req'[h] = r
    BY <2>2 DEF Becomes, TypeOK
  <2> QED
    BY <2>1, <2>2, <2>3, <2>4, <2>6, <2>7, <2>8 DEF LoadsPayment, Reading
<1> QED
  BY <1>1, <1>2, <1>3, <1>4 DEF AffiliateStep

LEMMA WriteForms ==
  ASSUME TypeOK, SyncInv, NEW h \in Handlers, WriteStep(h)
  PROVE  \/ Quiet(h)
         \/ Owes(req[h]) /\ (Refers(h) \/ Corrects(h) \/ WritesBooks(h))
<1>0. req \in [Handlers -> Request] /\ req[h] \in Request /\ Idle.pc = "idle"
  BY DEF TypeOK, Idle
<1>1. ASSUME Done(h)
      PROVE  ~Owes(req'[h])
  BY <1>0, <1>1 DEF Done, Becomes, Owes
<1>2. CASE InsertPlayer(h)
  <2>1. At(h, "insert") /\ UNCHANGED <<affiliate, payment>>
        /\ (Done(h) \/ (req[h].a # "none" /\ Becomes(h, [req[h] EXCEPT !.pc = "refer"])))
    BY <1>2 DEF InsertPlayer, WritesPlayers
  <2>2. CASE Done(h)
    BY <1>1, <2>1, <2>2 DEF Quiet, At
  <2>3. CASE req[h].a # "none" /\ Becomes(h, [req[h] EXCEPT !.pc = "refer"])
    <3> DEFINE r == [req[h] EXCEPT !.pc = "refer"]
    <3>1. r.pc = "refer" /\ r.a = req[h].a /\ r.books = req[h].books
      BY <1>0 DEF Request
    <3>2. Becomes(h, r)
      BY <2>3
    <3> HIDE DEF r
    <3>3. req'[h] = r
      BY <1>0, <3>2 DEF Becomes
    <3> QED
      BY <2>1, <2>3, <3>1, <3>3 DEF Refers, Owes, At
  <2> QED
    BY <2>1, <2>2, <2>3
<1>3. CASE CountReferral(h) \/ SaveAffiliate(h)
  <2> DEFINE one == [req[h].books EXCEPT !.referrals = @ + 1]
  <2>1. req[h].books \in Affiliate
    BY <1>0 DEF Request
  <2>2. /\ one \in Affiliate /\ one.there = req[h].books.there
        /\ one.commission = req[h].books.commission
    BY <2>1 DEF Affiliate
  <2>3. /\ Done(h) /\ payment' = payment /\ req[h].pc \in {"refer", "commission"}
        /\ \/ affiliate' = [affiliate EXCEPT ![req[h].a] = one]
           \/ affiliate' = [affiliate EXCEPT ![req[h].a] = req[h].books]
    BY <1>3 DEF CountReferral, SaveAffiliate, At
  <2> HIDE DEF one
  <2> QED
    BY <1>1, <2>1, <2>2, <2>3 DEF WritesBooks, Owes
<1>4. CASE SaveOverride(h)
  <2> DEFINE r == [req[h] EXCEPT !.pc = "commission"]
  <2>1. /\ At(h, "override") /\ affiliate' = affiliate /\ Becomes(h, r)
        /\ payment' = [payment EXCEPT ![req[h].t] = req[h].pay]
    BY <1>4 DEF SaveOverride
  <2>2. r.pc = "commission" /\ r.a = req[h].a /\ r.books = req[h].books
    BY <1>0 DEF Request
  <2> HIDE DEF r
  <2>3. req'[h] = r
    BY <1>0, <2>1 DEF Becomes
  <2> QED
    BY <2>1, <2>2, <2>3 DEF Corrects, Owes, At
<1>5. CASE WriteVerdict(h) \/ SavePlayer(h) \/ WriteDocuments(h) \/ RemovePlayer(h)
           \/ CommitApproval(h) \/ SaveRejection(h)
  <2>1. /\ Done(h) /\ UNCHANGED <<affiliate, payment>>
        /\ req[h].pc \in {"verdict", "save", "documents", "remove", "approve", "reject"}
    BY <1>5 DEF WriteVerdict, SavePlayer, WriteDocuments, RemovePlayer, CommitApproval,
       SaveRejection, WritesPlayers, At
  <2> QED
    BY <1>1, <2>1 DEF Quiet
<1> QED
  BY <1>2, <1>3, <1>4, <1>5 DEF WriteStep

LEMMA SyncKept ==
  ASSUME "affiliates" \notin Racing, IsFiniteSet(Payments), IInv, TurnInv, SyncInv,
         MemberStep, desk' = desk
  PROVE  SyncInv'
<1>0. TypeOK /\ PaidTo /\ req \in [Handlers -> Request]
  BY DEF IInv, TypeOK
<1>1. PICK h \in Handlers :
        \/ /\ Turn
           /\ \/ desk = "papers" /\ Papers(h)
              \/ desk = "reviews" /\ Reviews(h)
              \/ desk = "standing" /\ Standing(h)
              \/ desk = "affiliates" /\ Referring(h)
              \/ desk = "counter" /\ Counter(h)
        \/ WriteStep(h)
  BY DEF MemberStep
<1>2. \A g \in Handlers : Owes(req[g]) => Busy(g) /\ desk = "affiliates"
  BY DEF SyncInv, Owes, Busy, At
<1>3. CASE WriteStep(h)
  <2>1. Alone(h)
    BY <1>0, <1>2, <1>3, WritesApart DEF TurnInv, Alone
  <2>2. Owes(req[h]) => desk = "affiliates"
    BY <1>2
  <2> QED
    BY <1>0, <1>3, <2>1, <2>2, WriteForms, QuietKeeps, LoadsKeep, CorrectsKeep, BooksWritten
<1>4. CASE ~WriteStep(h)
  <2>1. \A g \in Handlers : ~Owes(req[g])
    BY <1>1, <1>2, <1>4 DEF Turn, Busy
  <2>2. Alone(h)
    <3>1. Apart(h) \/ ReviewStep(h)
      BY <1>1, <1>4, DesksApart
    <3>2. req' = req \/ \E r : Becomes(h, r)
      BY <3>1, Zenon DEF Apart, ReviewStep, RequestChange, ApproveRequest, RejectRequest,
         DismissChange
    <3> QED
      BY <1>0, <2>1, <3>2 DEF Becomes, Alone
  <2>3. CASE desk = "affiliates"
    <3>1. JoinStep(h, Affiliates) \/ AffiliateStep(h)
      BY <1>1, <1>4, <2>3 DEF Referring
    <3>2. CASE JoinStep(h, Affiliates)
      BY <1>0, <2>1, <2>2, <2>3, <3>2, JoinsQuiet, QuietKeeps, LoadsKeep
    <3>3. CASE AffiliateStep(h)
      BY <1>0, <2>1, <2>2, <2>3, <3>3, AffiliateForms, LoadsKeep, PaysKeep, OpensKeeps
    <3> QED
      BY <3>1, <3>2, <3>3
  <2>4. CASE desk # "affiliates"
    <3>1. JoinStep(h, {"none"}) \/ StandingStep(h) \/ PaperStep(h) \/ ReviewStep(h)
          \/ \E S : EditStep(h, S)
      <4>1. CASE Papers(h) \/ Standing(h)
        BY <4>1, Zenon DEF Papers, Standing
      <4>2. CASE Reviews(h)
        <5>1. JoinStep(h, {"none"}) \/ EditStep(h, {}) \/ ReviewStep(h)
          BY <4>2 DEF Reviews, JoinStep, EditStep
        <5> QED
          BY <5>1, Zenon
      <4>3. CASE Counter(h)
        <5>1. JoinStep(h, {"none"}) \/ EditStep(h, {"Active"}) \/ PaperStep(h)
          BY <4>3 DEF Counter, JoinStep, EditStep, PaperStep
        <5> QED
          BY <5>1, Zenon
      <4> QED
        BY <1>1, <1>4, <2>4, <4>1, <4>2, <4>3
    <3>2. Quiet(h)
      BY <1>0, <2>1, <3>1, JoinsQuiet, PlayersQuiet
    <3> QED
      BY <2>2, <3>2, QuietKeeps
  <2> QED
    BY <2>3, <2>4
<1> QED
  BY <1>3, <1>4

\* What an affiliate is owed stays in step with his payments and corrections,
\* where requests take turns: the row saved last has been loaded when nothing
\* else was on its way (affiliates.service, clubs.controller).
THEOREM CommissionKept ==
  ASSUME "affiliates" \notin Racing, IsFiniteSet(Payments)
  PROVE  MCSpec => []CommissionInSync
<1>1. MCInit => Init /\ TurnInv /\ SyncInv
  <2> SUFFICES ASSUME Init PROVE TurnInv /\ SyncInv
    BY DEF MCInit
  <2>1. \A h \in Handlers : ~Owes(req[h]) /\ ~Busy(h)
    BY DEF Init, Idle, Owes, Busy, At
  <2>2. \A a \in Affiliates : Owed(a) = 0
    <3> SUFFICES ASSUME NEW a \in Affiliates PROVE Owed(a) = 0
      OBVIOUS
    <3>1. TypeOK
      BY BlankRows DEF Init, TypeOK
    <3>2. AmountDue = [t \in Payments |-> 0]
      BY DEF Init, AmountDue, NoPayment
    <3>3. \A t \in Payments : AmountDue[t] = 0
      BY <3>2
    <3> QED
      BY <3>2, <3>3, TotalNone DEF Owed, PaidBy
  <2>3. InSync /\ Opened
    BY <2>2 DEF Init, InSync, Sync, Opened, NoAffiliate
  <2> QED
    BY <2>1, <2>3 DEF TurnInv, SyncInv
<1>2. [MCNext]_<<vars, bookVars, desk>> => [Next]_vars
  BY DesksApart DEF MCNext, MemberStep, Next, vars
<1>3. MCSpec => []IInv
  <2>1. MCSpec => Spec
    BY <1>1, <1>2, PTL DEF MCSpec, Spec
  <2> QED
    BY <2>1, Invariant, PTL
<1>4. IInv /\ TurnInv /\ SyncInv /\ [MCNext]_<<vars, bookVars, desk>> => TurnInv' /\ SyncInv'
  <2> SUFFICES ASSUME IInv, TurnInv, SyncInv, [MCNext]_<<vars, bookVars, desk>>
               PROVE  TurnInv' /\ SyncInv'
    OBVIOUS
  <2>1. CASE UNCHANGED <<vars, desk>>
    <3>1. UNCHANGED <<affiliate, payment, req, desk>>
      BY <2>1 DEF vars
    <3>2. TurnInv' /\ Opened' /\ \A a : Owed(a)' = Owed(a)
      BY <3>1 DEF TurnInv, Busy, At, SyncInv, Opened, Owed, AmountDue, PaidBy
    <3> QED
      BY <3>1, <3>2 DEF SyncInv, Carries, InSync, Sync
  <2>2. CASE MemberStep /\ desk' = desk
    BY <2>2, TurnsKept, SyncKept DEF IInv
  <2> QED
    BY <2>1, <2>2 DEF MCNext
<1>5. MCSpec => [](TurnInv /\ SyncInv)
  BY <1>1, <1>3, <1>4, PTL DEF MCSpec
<1>6. IInv /\ SyncInv => CommissionInSync
  <2> SUFFICES ASSUME IInv, SyncInv, \A h \in Handlers : At(h, "idle"), NEW a \in Affiliates
               PROVE  affiliate[a].commission =
                        MapThenSumSet(LAMBDA t : payment[t].amount,
                                      {t \in Payments : payment[t].to = a})
    BY DEF CommissionInSync
  <2>1. affiliate[a].commission = Owed(a)
    BY DEF SyncInv, InSync, Sync, Owes, At
  <2> QED
    BY <2>1, DuesAdded DEF IInv
<1> QED
  BY <1>3, <1>5, <1>6, PTL
=============================================================================
