---------------------------- MODULE MCMembership ----------------------------
(* Model-checking instance of what clubs do for their players: Membership  *)
(* and Books, which share no state.  A behaviour keeps to one desk, chosen *)
(* at the start, so that TLC adds up what the desks do where it would      *)
(* multiply it: papers (edits, PAN, documents), reviews (profile changes), *)
(* standing (verdicts, passwords), affiliates (referrals, commission),     *)
(* counter (signing up, edits and PANs, overlapping) and books (ledger     *)
(* rows and the loyalty store).                                            *)
EXTENDS Membership, TLC

CONSTANTS
  Desks,
  Racing,  \* the desks at which requests overlap; at the others they take turns
  Txs, Products, Types, Posted, Prices, Stocks, MaxPlayed, MaxSold
VARIABLES desk, tx, product, sold, spent, played, booked, booking

B == INSTANCE Books WITH Amounts <- Posted, req <- booking

ASSUME BooksAssumption ==
  /\ Types \subseteq B!TransactionType
  /\ Posted \subseteq Nat \ {0} /\ Prices \subseteq Nat \ {0} /\ Stocks \subseteq Nat
  /\ {MaxPlayed, MaxSold} \subseteq Nat

bookVars == <<tx, booked, product, sold, spent, played, booking>>

MCInit == Init /\ B!Init /\ desk \in Desks

Papers(h) == JoinStep(h, {"none"}) \/ EditStep(h, {"Active", "Inactive"}) \/ PaperStep(h)
Reviews(h) ==
  \/ \E p \in Players, e \in Emails, t \in Tilts : PlayerSignup(h, p, e, t, "none")
  \/ \E p \in Players : DeletePlayer(h, p)
  \/ ReviewStep(h)
Standing(h) ==
  JoinStep(h, {"none"}) \/ StandingStep(h) \/ EditStep(h, {"Active", "Inactive", "Suspended"})
Referring(h) == JoinStep(h, Affiliates) \/ AffiliateStep(h)
Counter(h) ==
  \E p \in Players :
    \/ \E e \in Emails, t \in Tilts, n \in Pans \cup {"none"} : CreatePlayer(h, p, e, t, n, "none")
    \/ \E e \in Emails, t \in Tilts : UpdatePlayer(h, p, e, t, "Active")
    \/ \E n \in Pans : SubmitPanCard(h, p, n)
    \/ \E s \in Slot : UploadDocument(h, p, s)

Turn == desk \in Racing \/ \A h \in Handlers : At(h, "idle") /\ B!At(h, "idle")

MemberStep ==
  \E h \in Handlers :
    \/ /\ Turn
       /\ \/ desk = "papers" /\ Papers(h)
          \/ desk = "reviews" /\ Reviews(h)
          \/ desk = "standing" /\ Standing(h)
          \/ desk = "affiliates" /\ Referring(h)
          \/ desk = "counter" /\ Counter(h)
    \/ WriteStep(h)

BooksStep ==
  \/ \E h \in Handlers : (Turn /\ (B!LedgerStep(h) \/ B!ShopStep(h))) \/ B!WriteStep(h)
  \/ B!Play

MCNext ==
  /\ \/ MemberStep /\ UNCHANGED bookVars
     \/ desk = "books" /\ BooksStep /\ UNCHANGED vars
  /\ UNCHANGED desk

MCSpec == MCInit /\ [][MCNext]_<<vars, bookVars, desk>>

Symmetry == Permutations(Players) \cup Permutations(Emails) \cup Permutations(Tilts)
            \cup Permutations(Pans) \cup Permutations(Changes) \cup Permutations(Payments)
            \cup Permutations(Handlers) \cup Permutations(Products)

-----------------------------------------------------------------------------
(* The properties of Books.                                                *)

\* Rows, products and requests keep their types, and no stock goes below zero.
BooksTypeOK == B!TypeOK

\* Where requests take turns, what a row was first booked with is never hidden
\* by overrides.
FirstAmountKept == "books" \notin Racing => B!FirstAmountKept

\* A cancelled row stays cancelled.
CancelledStays == B!CancelledStays

\* A purchase is covered by the points at the moment it is recorded.
PurchaseCovered == B!PurchaseCovered
=============================================================================
