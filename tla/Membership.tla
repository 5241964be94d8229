----------------------------- MODULE Membership -----------------------------
(***************************************************************************)
(* The players of a club, from signing up to removal: auth.service (the    *)
(* player's own requests), clubs.controller (the staff's), the profile     *)
(* change requests of player-field-update.service, the documents of        *)
(* player-documents.service and the referrals and commission of            *)
(* affiliates.service.                                                     *)
(*                                                                         *)
(* A handler loads rows, checks them, and writes in a later step: save     *)
(* writes the row as it was loaded and changed, update writes the columns  *)
(* it names.  The database refuses a second row with an email or a PAN in  *)
(* use, and a trigger any change of a PAN; nothing but the checks keeps    *)
(* Tilt IDs apart.                                                         *)
(***************************************************************************)
EXTENDS Naturals, FiniteSets, FiniteSetsExt

CONSTANTS
  Players, Emails, Tilts, Pans,
  Changes,       \* ids of profile change requests
  Affiliates, Payments, Amounts,
  Handlers,
  MaxReferrals   \* bound: players created under one affiliate

ASSUME MembershipAssumption ==
  Amounts \subseteq Nat \ {0} /\ MaxReferrals \in Nat /\ Tilts # {}

VARIABLES
  player,     \* player[p]: the row p of players
  change,     \* change[c]: the row c of player_profile_change_requests
  affiliate,  \* affiliate[a]: the row a of affiliates
  payment,    \* payment[t]: the row t of affiliate_transactions
  req         \* req[h]: the request in slot h and the rows it has loaded

vars == <<player, change, affiliate, payment, req>>

\* Documents count by their slot: a new one of the same type takes its place.
Slot == {"government_id", "pan_card"}

\* Signing up and the staff's forms put an address in small letters; what a
\* profile change asks for is stored as it was typed.
Spelling == {"lower", "typed"}
Address == [of : Emails, spelt : Spelling]
NoAddress == [of |-> "none", spelt |-> "lower"]
InSmallLetters(e) == [of |-> e, spelt |-> "lower"]

Player == [there : BOOLEAN, email : Address \cup {NoAddress}, tilt : Tilts \cup {"none"},
           pan : Pans \cup {"none"}, status : {"Active", "Inactive", "Suspended", "Rejected"},
           kyc : {"pending", "approved", "rejected"}, temporary : BOOLEAN,
           docs : SUBSET Slot, affiliate : Affiliates \cup {"none"}]
NoPlayer == [there |-> FALSE, email |-> NoAddress, tilt |-> "none", pan |-> "none",
             status |-> "Active", kyc |-> "pending", temporary |-> FALSE, docs |-> {},
             affiliate |-> "none"]

\* The address the player wants on his row, or the document he has uploaded.
Change == [status : {"unused", "pending", "approved", "rejected"},
           player : Players \cup {"none"},
           field : {"email"} \cup Slot, email : Address \cup {NoAddress}]
NoChange == [status |-> "unused", player |-> "none", field |-> "email", email |-> NoAddress]

Affiliate == [there : BOOLEAN, referrals : Nat, commission : Int]
NoAffiliate == [there |-> FALSE, referrals |-> 0, commission |-> 0]

Payment == [to : Affiliates \cup {"none"}, amount : Nat, original : Nat, overridden : BOOLEAN]
NoPayment == [to |-> "none", amount |-> 0, original |-> 0, overridden |-> FALSE]

Request == [pc : {"idle", "insert", "refer", "save", "verdict", "documents", "remove",
                  "approve", "reject", "commission", "override", "correct", "rate"},
            p : Players \cup {"none"}, row : Player, c : Changes \cup {"none"},
            a : Affiliates \cup {"none"}, books : Affiliate,
            t : Payments \cup {"none"}, pay : Payment]
Idle == [pc |-> "idle", p |-> "none", row |-> NoPlayer, c |-> "none",
         a |-> "none", books |-> NoAffiliate, t |-> "none", pay |-> NoPayment]

TypeOK ==
  /\ player \in [Players -> Player] /\ change \in [Changes -> Change]
  /\ affiliate \in [Affiliates -> Affiliate] /\ payment \in [Payments -> Payment]
  /\ req \in [Handlers -> Request]

Init ==
  /\ player = [p \in Players |-> NoPlayer] /\ change = [c \in Changes |-> NoChange]
  /\ affiliate = [a \in Affiliates |-> NoAffiliate]
  /\ payment = [t \in Payments |-> NoPayment]
  /\ req = [h \in Handlers |-> Idle]

-----------------------------------------------------------------------------
(* Requests, rows and indexes.                                             *)

At(h, pc) == req[h].pc = pc
Becomes(h, r) == req' = [req EXCEPT ![h] = r]
Done(h) == Becomes(h, Idle)
Reading == UNCHANGED <<player, change, affiliate, payment>>
WritesPlayers == UNCHANGED <<change, affiliate, payment>>

\* The handler has loaded player p and goes on to write `row`.
Goes(h, pc, p, row) ==
  /\ At(h, "idle")
  /\ Becomes(h, [Idle EXCEPT !.pc = pc, !.p = p, !.row = row])
  /\ Reading

There == {p \in Players : player[p].there}
Others(p) == There \ {p}

EmailTaken(p, e) == \E q \in Others(p) : player[q].email = e
PanTaken(p, n) == \E q \in Others(p) : n # "none" /\ player[q].pan = n
TiltTaken(p, t) == \E q \in Others(p) : player[q].tilt = t

\* Fault: there is no index on the email.
ClashOnPan(p, row) == PanTaken(p, row.pan)
\* The unique indexes on (club, email) and (club, PAN).
Clash(p, row) == EmailTaken(p, row.email) \/ PanTaken(p, row.pan)

\* Fault: the trigger looks at the new value only.
PanCleared(p, row) == player[p].pan # "none" /\ row.pan = "none"
\* protect_pan_card_immutability, a trigger before update.
PanChanged(p, row) == player[p].pan # "none" /\ row.pan # player[p].pan

\* The database refuses to save the row (a row that is gone is inserted anew).
Refused(p, row) == Clash(p, row) \/ PanChanged(p, row)

-----------------------------------------------------------------------------
(* Joining.                                                                *)

\* Any affiliate of the club may refer; a code nobody has is passed over.
PlayerSignup(h, p, e, t, a) ==
  LET email == InSmallLetters(e) IN
  /\ p \notin There /\ ~EmailTaken(p, email) /\ ~TiltTaken(p, t)
  /\ a # "none" => affiliate[a].there
  /\ Goes(h, "insert", p, [NoPlayer EXCEPT !.there = TRUE, !.email = email, !.tilt = t,
                                           !.affiliate = a])

\* Staff vouch for the players they create; the affiliate is loaded here, and
\* its referrals are counted after the player is saved.
CreatePlayer(h, p, e, t, n, a) ==
  LET email == InSmallLetters(e) IN
  /\ At(h, "idle") /\ p \notin There
  /\ ~EmailTaken(p, email) /\ ~PanTaken(p, n) /\ ~TiltTaken(p, t)
  /\ a # "none" => affiliate[a].there /\ affiliate[a].referrals < MaxReferrals
  /\ Becomes(h, [Idle EXCEPT !.pc = "insert", !.p = p, !.a = a,
       !.books = IF a = "none" THEN NoAffiliate ELSE affiliate[a],
       !.row = [NoPlayer EXCEPT !.there = TRUE, !.email = email, !.tilt = t, !.pan = n,
                  !.kyc = "approved", !.temporary = TRUE, !.affiliate = a]])
  /\ Reading

InsertPlayer(h) ==
  /\ At(h, "insert")
  /\ LET r == req[h] IN
       IF r.p \in There \/ Clash(r.p, r.row)
       THEN UNCHANGED player /\ Done(h)
       ELSE /\ player' = [player EXCEPT ![r.p] = r.row]
            /\ IF r.a = "none" THEN Done(h) ELSE Becomes(h, [r EXCEPT !.pc = "refer"])
  /\ WritesPlayers

\* The whole row of the affiliate, as loaded before the player was created.
CountReferral(h) ==
  /\ At(h, "refer")
  /\ affiliate' = [affiliate EXCEPT ![req[h].a] =
                     [req[h].books EXCEPT !.referrals = @ + 1]]
  /\ Done(h)
  /\ UNCHANGED <<player, change, payment>>

-----------------------------------------------------------------------------
(* The staff's decisions: update of the columns named.                     *)

ApprovePlayer(h, p) ==
  /\ p \in There /\ ~(player[p].status = "Active" /\ player[p].kyc = "approved")
  /\ Goes(h, "verdict", p, [player[p] EXCEPT !.status = "Active", !.kyc = "approved"])

RejectPlayer(h, p) ==
  /\ p \in There
  /\ Goes(h, "verdict", p, [player[p] EXCEPT !.status = "Rejected", !.kyc = "rejected"])

SuspendPlayer(h, p) ==
  /\ p \in There /\ player[p].status # "Suspended"
  /\ Goes(h, "verdict", p, [player[p] EXCEPT !.status = "Suspended"])

UnsuspendPlayer(h, p) ==
  /\ p \in There /\ player[p].status = "Suspended"
  /\ Goes(h, "verdict", p, [player[p] EXCEPT !.status = "Active"])

\* suspend and unsuspend name the status alone, the verdicts the KYC too: with
\* the KYC unchanged since it was loaded this is one write.
WriteVerdict(h) ==
  /\ At(h, "verdict")
  /\ LET r == req[h] IN
       player' = IF r.p \notin There THEN player
                 ELSE [player EXCEPT ![r.p].status = r.row.status, ![r.p].kyc = r.row.kyc]
  /\ Done(h)
  /\ WritesPlayers

\* save: every column as loaded or changed; an index may refuse it.
SavePlayer(h) ==
  /\ At(h, "save")
  /\ LET r == req[h] IN
       player' = IF Refused(r.p, r.row) THEN player ELSE [player EXCEPT ![r.p] = r.row]
  /\ Done(h)
  /\ WritesPlayers

ActivatePlayer(h, p) ==
  /\ p \in There /\ player[p].status # "Active"
  /\ Goes(h, "save", p, [player[p] EXCEPT !.status = "Active"])

UpdatePlayer(h, p, e, t, status) ==
  LET email == InSmallLetters(e) IN
  /\ p \in There /\ ~EmailTaken(p, email) /\ (t = "none" \/ ~TiltTaken(p, t))
  /\ Goes(h, "save", p, [player[p] EXCEPT !.email = email, !.tilt = t, !.status = status])

\* Rows that refer to the player (ledger, waitlist) are in other modules: the
\* database refuses the removal while there are any.
DeletePlayer(h, p) == p \in There /\ Goes(h, "remove", p, player[p])

RemovePlayer(h) ==
  /\ At(h, "remove")
  /\ \/ /\ player' = [player EXCEPT ![req[h].p] = NoPlayer]
        /\ change' = [c \in Changes |->
                        IF change[c].player = req[h].p THEN NoChange ELSE change[c]]
     \/ UNCHANGED <<player, change>>
  /\ Done(h)
  /\ UNCHANGED <<affiliate, payment>>

-----------------------------------------------------------------------------
(* The player's own row.                                                   *)

\* The documents the PAN number waits for.
MeetsPanGate(p) == player[p].docs = Slot

SubmitPanCard(h, p, n) ==
  /\ p \in There /\ MeetsPanGate(p) /\ ~PanTaken(p, n)
  /\ Goes(h, "save", p, [player[p] EXCEPT !.pan = n])

ChangePlayerPassword(h, p) ==
  p \in There /\ Goes(h, "save", p, [player[p] EXCEPT !.temporary = FALSE])

ResetPlayerPassword(h, p) ==
  /\ p \in There /\ player[p].temporary /\ player[p].email.spelt = "lower"
  /\ Goes(h, "save", p, [player[p] EXCEPT !.temporary = FALSE])

UploadDocument(h, p, s) ==
  p \in There /\ Goes(h, "documents", p, [player[p] EXCEPT !.docs = @ \cup {s}])

DeleteDocument(h, p, s) ==
  /\ p \in There /\ s \in player[p].docs
  /\ Goes(h, "documents", p, [player[p] EXCEPT !.docs = @ \ {s}])

\* The whole list of documents, as loaded and changed.
WriteDocuments(h) ==
  /\ At(h, "documents")
  /\ LET r == req[h] IN
       player' = IF r.p \notin There THEN player
                 ELSE [player EXCEPT ![r.p].docs = r.row.docs]
  /\ Done(h)
  /\ WritesPlayers

-----------------------------------------------------------------------------
(* Profile change requests.                                                *)

PendingFor(p, field) ==
  \E c \in Changes : /\ change[c].player = p /\ change[c].status = "pending"
                     /\ change[c].field = field

RequestChange(h, p, c, field, email) ==
  /\ At(h, "idle") /\ p \in There /\ change[c].status = "unused"
  /\ ~PendingFor(p, field)
  /\ change' = [change EXCEPT ![c] = [status |-> "pending", player |-> p, field |-> field,
                                     email |-> email]]
  /\ UNCHANGED <<player, affiliate, payment, req>>

DismissChange(c) ==
  /\ change[c].status = "rejected"
  /\ change' = [change EXCEPT ![c] = NoChange]
  /\ UNCHANGED <<player, affiliate, payment, req>>

\* Fault: a request turned down may still be approved.
ReviewableAgain(c) == change[c].status \in {"pending", "rejected"}
Reviewable(c) == change[c].status = "pending"

\* Fault: whatever was asked for is entered among the documents.
Filed(row, ch) == [row EXCEPT !.docs = @ \cup {ch.field}]
Applied(row, ch) ==
  IF ch.field = "email" THEN [row EXCEPT !.email = ch.email]
  ELSE [row EXCEPT !.docs = @ \cup {ch.field}]

\* One transaction, but what it reads it does not lock.
ApproveRequest(h, c) ==
  /\ At(h, "idle") /\ Reviewable(c) /\ change[c].player \in There
  /\ LET p == change[c].player IN
       Becomes(h, [Idle EXCEPT !.pc = "approve", !.c = c, !.p = p,
                               !.row = Applied(player[p], change[c])])
  /\ Reading

\* The player's row and the request's are saved together or not at all.
CommitApproval(h) ==
  /\ At(h, "approve")
  /\ LET r == req[h] IN
       IF Refused(r.p, r.row) \/ change[r.c].status = "unused"
       THEN UNCHANGED <<player, change>>
       ELSE /\ player' = [player EXCEPT ![r.p] = r.row]
            /\ change' = [change EXCEPT ![r.c].status = "approved"]
  /\ Done(h)
  /\ UNCHANGED <<affiliate, payment>>

RejectRequest(h, c) ==
  /\ At(h, "idle") /\ Reviewable(c)
  /\ Becomes(h, [Idle EXCEPT !.pc = "reject", !.c = c])
  /\ Reading

SaveRejection(h) ==
  /\ At(h, "reject")
  /\ change' = [change EXCEPT ![req[h].c].status =
                  IF change[req[h].c].status = "unused" THEN @ ELSE "rejected"]
  /\ Done(h)
  /\ UNCHANGED <<player, affiliate, payment>>

-----------------------------------------------------------------------------
(* Affiliates: a payment or its correction is saved first, then the        *)
(* affiliate's row as it was loaded, with the commission changed.          *)

CreateAffiliate(a) ==
  /\ ~affiliate[a].there
  /\ affiliate' = [affiliate EXCEPT ![a] = [NoAffiliate EXCEPT !.there = TRUE]]
  /\ UNCHANGED <<player, change, payment, req>>

ProcessPayment(h, a, t, amount) ==
  /\ At(h, "idle") /\ affiliate[a].there /\ payment[t] = NoPayment
  /\ payment' = [payment EXCEPT ![t] = [NoPayment EXCEPT !.to = a, !.amount = amount]]
  /\ Becomes(h, [Idle EXCEPT !.pc = "commission", !.a = a,
                   !.books = [affiliate[a] EXCEPT !.commission = @ + amount]])
  /\ UNCHANGED <<player, change, affiliate>>

\* Fault: a second correction counts from the amount first paid.
FromFirst(pay, amount) == amount - (IF pay.overridden THEN pay.original ELSE pay.amount)
Delta(pay, amount) == amount - pay.amount

OverridePayment(h, t, amount) ==
  /\ At(h, "idle") /\ payment[t] # NoPayment
  /\ LET pay == payment[t]
         a == pay.to
     IN Becomes(h, [Idle EXCEPT !.pc = "override", !.t = t, !.a = a,
          !.pay = [pay EXCEPT !.original = IF pay.overridden THEN @ ELSE pay.amount,
                              !.overridden = TRUE, !.amount = amount],
          !.books = [affiliate[a] EXCEPT !.commission = @ + Delta(pay, amount)]])
  /\ Reading

SaveOverride(h) ==
  /\ At(h, "override")
  /\ payment' = [payment EXCEPT ![req[h].t] = req[h].pay]
  /\ Becomes(h, [req[h] EXCEPT !.pc = "commission"])
  /\ UNCHANGED <<player, change, affiliate>>

\* Name and rate are no part of the model: what is left is the row loaded.
UpdateAffiliate(h, a) ==
  /\ At(h, "idle") /\ affiliate[a].there
  /\ Becomes(h, [Idle EXCEPT !.pc = "commission", !.a = a, !.books = affiliate[a]])
  /\ Reading

SaveAffiliate(h) ==
  /\ At(h, "commission")
  /\ affiliate' = [affiliate EXCEPT ![req[h].a] = req[h].books]
  /\ Done(h)
  /\ UNCHANGED <<player, change, payment>>

-----------------------------------------------------------------------------
JoinStep(h, referrers) ==
  \E p \in Players, e \in Emails, t \in Tilts, a \in referrers :
    \/ PlayerSignup(h, p, e, t, a)
    \/ \E n \in Pans \cup {"none"} : CreatePlayer(h, p, e, t, n, a)

StandingStep(h) ==
  \E p \in Players :
    \/ ApprovePlayer(h, p) \/ RejectPlayer(h, p)
    \/ SuspendPlayer(h, p) \/ UnsuspendPlayer(h, p) \/ ActivatePlayer(h, p)
    \/ ChangePlayerPassword(h, p) \/ ResetPlayerPassword(h, p)

EditStep(h, statuses) ==
  \E p \in Players :
    \/ DeletePlayer(h, p)
    \/ \E e \in Emails, t \in Tilts \cup {"none"}, s \in statuses : UpdatePlayer(h, p, e, t, s)

PaperStep(h) ==
  \E p \in Players :
    \/ \E n \in Pans : SubmitPanCard(h, p, n)
    \/ \E s \in Slot : UploadDocument(h, p, s) \/ DeleteDocument(h, p, s)

ReviewStep(h) ==
  \E c \in Changes :
    \/ \E p \in Players :
         \/ \E e \in Address : RequestChange(h, p, c, "email", e)
         \/ \E s \in Slot : RequestChange(h, p, c, s, NoAddress)
    \/ ApproveRequest(h, c) \/ RejectRequest(h, c) \/ DismissChange(c)

AffiliateStep(h) ==
  \/ \E a \in Affiliates :
       \/ CreateAffiliate(a) \/ UpdateAffiliate(h, a)
       \/ \E t \in Payments, m \in Amounts : ProcessPayment(h, a, t, m)
  \/ \E t \in Payments, m \in Amounts : OverridePayment(h, t, m)

WriteStep(h) ==
  \/ InsertPlayer(h) \/ CountReferral(h) \/ WriteVerdict(h) \/ SavePlayer(h)
  \/ RemovePlayer(h) \/ WriteDocuments(h) \/ CommitApproval(h) \/ SaveRejection(h)
  \/ SaveOverride(h) \/ SaveAffiliate(h)

Next ==
  \E h \in Handlers :
    \/ JoinStep(h, Affiliates \cup {"none"}) \/ StandingStep(h)
    \/ EditStep(h, {"Active", "Inactive", "Suspended"})
    \/ PaperStep(h) \/ ReviewStep(h) \/ AffiliateStep(h) \/ WriteStep(h)

Spec == Init /\ [][Next]_vars

-----------------------------------------------------------------------------
(* Properties.                                                             *)

\* Who a player is: no two players of the club share an email, letter by
\* letter, or a PAN, whoever writes the row (a staff edit, an approved profile
\* change that checks nothing, two signups at once).
IdentitiesUnique ==
  \A p, q \in There : p # q =>
    /\ player[p].email # player[q].email
    /\ player[p].pan = player[q].pan => player[p].pan = "none"

\* A PAN, once submitted, is the player's for good: submitPanCard takes a
\* second one without looking, and a row loaded before the first may be saved
\* after it; neither gets past the trigger.
PanImmutable ==
  [][\A p \in Players : player[p].there /\ player'[p].there /\ player[p].pan # "none"
       => player'[p].pan = player[p].pan]_vars

\* A review is final: what was approved was not turned down, and what was
\* turned down is not put on the player's row later.
ReviewIsFinal ==
  [][\A c \in Changes : change[c].status \in {"approved", "rejected"}
       => change'[c].status \in {change[c].status, "unused"}]_vars

\* An affiliate's totalCommission is the sum of his transactions, corrected
\* ones at their last amount, whenever no request is under way.
CommissionInSync ==
  (\A h \in Handlers : At(h, "idle")) =>
    \A a \in Affiliates : affiliate[a].commission =
      MapThenSumSet(LAMBDA t : payment[t].amount, {t \in Payments : payment[t].to = a})
=============================================================================
