------------------------------ MODULE Payroll ------------------------------
(***************************************************************************)
(* Tips and bonuses: payroll.service, bonus.service and their routes in    *)
(* clubs.controller.  Tips a dealer collects are split between the club,   *)
(* the dealer and a floor manager by percentages, the club's or the        *)
(* dealer's own, and cashed out later.                                     *)
(***************************************************************************)
EXTENDS Integers, FiniteSetsExt

CONSTANTS
  Dealers, Managers,  \* the staff with these roles
  Tips,               \* ids of dealer_tips
  TipTotals,          \* amounts of tips, each a multiple of 20
  Amounts,            \* amounts asked for
  Forms,              \* the percentages that are filled in: records of type Split
  Guests, Cashiers    \* players given bonuses; slots for requests under way

VARIABLES
  settings,  \* settings[d]: tip_settings of dealer d; of "club", the club's own
  tip,       \* tip[t]: the row t of dealer_tips
  paid,      \* paid[s]: the sum of dealer_cashouts or manager_cashouts of s
  bonus,     \* bonus[g]: how many player_bonuses g got, and how many are booked
  cashing    \* cashing[h]: the request in slot h and what it has computed

vars == <<settings, tip, paid, bonus, cashing>>

\* In percent, all in multiples of five, so that amounts are whole.
Split == [club : 0..100, dealer : 0..100, manager : 0..100]
NoSettings == [club |-> -1, dealer |-> -1, manager |-> -1]
Default == [club |-> 15, dealer |-> 85, manager |-> 5]

Tip == [dealer : Dealers \cup {"none"}, manager : Managers \cup {"none"}, total : Nat,
        hold : Nat, share : Nat, floor : Nat]
NoTip == [dealer |-> "none", manager |-> "none", total |-> 0, hold |-> 0, share |-> 0, floor |-> 0]

MaxBonuses == 1  \* bound: bonuses of one player
Bonus == [given : 0..MaxBonuses, booked : 0..MaxBonuses]

Request == [pc : {"idle", "pay", "book"}, who : Dealers \cup Managers \cup Guests \cup {"none"},
            amount : Nat]
Idle == [pc |-> "idle", who |-> "none", amount |-> 0]

TypeOK ==
  /\ settings \in [Dealers \cup {"club"} -> Split \cup {NoSettings}]
  /\ tip \in [Tips -> Tip] /\ paid \in [Dealers \cup Managers -> Nat]
  /\ bonus \in [Guests -> Bonus] /\ cashing \in [Cashiers -> Request]

Init ==
  /\ settings = [d \in Dealers \cup {"club"} |-> NoSettings]
  /\ tip = [t \in Tips |-> NoTip] /\ paid = [s \in Dealers \cup Managers |-> 0]
  /\ bonus = [g \in Guests |-> [given |-> 0, booked |-> 0]]
  /\ cashing = [h \in Cashiers |-> Idle]

-----------------------------------------------------------------------------
(* Settings.                                                               *)

\* Fault: nothing is built in for a club that has set no percentages.
InForceNoDefault(d) == IF settings[d] # NoSettings THEN settings[d] ELSE settings["club"]
\* A dealer who has no percentages of his own gets a copy of the club's, and
\* the club the built-in ones.
InForce(d) ==
  IF settings[d] # NoSettings THEN settings[d]
  ELSE IF settings["club"] # NoSettings THEN settings["club"] ELSE Default

\* Looking them up stores them.
GetTipSettings(d) ==
  /\ settings' = [settings EXCEPT ![d] = InForce(d)]
  /\ UNCHANGED <<tip, paid, bonus, cashing>>

AddUp(split) == split.club + split.dealer + split.manager = 100

UpdateTipSettings(d, split) ==
  /\ AddUp(split)
  /\ settings' = [settings EXCEPT ![d] = split]
  /\ UNCHANGED <<tip, paid, bonus, cashing>>

-----------------------------------------------------------------------------
(* Tips and cash-outs.                                                     *)

Part(total, percent) == (total * percent) \div 100

\* The amounts are recorded, so that later percentages leave them alone.
ProcessDealerTips(t, d, m, total) ==
  LET split == InForce(d) IN
  /\ tip[t] = NoTip
  /\ settings' = [settings EXCEPT ![d] = split]
  /\ tip' = [tip EXCEPT ![t] = [dealer |-> d, manager |-> m, total |-> total,
       hold |-> Part(total, split.club), share |-> Part(total, split.dealer),
       floor |-> Part(total, split.manager)]]
  /\ UNCHANGED <<paid, bonus, cashing>>

Earned(s) ==
  IF s \in Dealers THEN MapThenSumSet(LAMBDA t : tip[t].share, {t \in Tips : tip[t].dealer = s})
  ELSE MapThenSumSet(LAMBDA t : tip[t].floor, {t \in Tips : tip[t].manager = s})

\* Fault: the share is worked out again from the percentages now in force.
AvailableByRates(s) ==
  IF s \in Dealers
  THEN MapThenSumSet(LAMBDA t : Part(tip[t].total, InForce(s).dealer),
                     {t \in Tips : tip[t].dealer = s}) - paid[s]
  ELSE Earned(s) - paid[s]
\* What was earned and is not cashed out yet.
Available(s) == Earned(s) - paid[s]

\* The balance is read before the cash-out is inserted.
Cashout(h, s, amount) ==
  /\ cashing[h].pc = "idle" /\ amount <= Available(s)
  /\ cashing' = [cashing EXCEPT ![h] = [pc |-> "pay", who |-> s, amount |-> amount]]
  /\ UNCHANGED <<settings, tip, paid, bonus>>

ProcessDealerCashout(h, d, amount) == d \in Dealers /\ Cashout(h, d, amount)
ProcessManagerCashout(h, m, amount) == m \in Managers /\ Cashout(h, m, amount)

InsertCashout(h) ==
  /\ cashing[h].pc = "pay"
  /\ paid' = [paid EXCEPT ![cashing[h].who] = @ + cashing[h].amount]
  /\ cashing' = [cashing EXCEPT ![h] = Idle]
  /\ UNCHANGED <<settings, tip, bonus>>

-----------------------------------------------------------------------------
(* Bonuses.                                                                *)

\* The bonus is saved, then booked as a transaction of the player.
ProcessPlayerBonus(h, g) ==
  /\ cashing[h].pc = "idle" /\ bonus[g].given < MaxBonuses
  /\ bonus' = [bonus EXCEPT ![g].given = @ + 1]
  /\ cashing' = [cashing EXCEPT ![h] = [pc |-> "book", who |-> g, amount |-> 0]]
  /\ UNCHANGED <<settings, tip, paid>>

\* A booking that fails is logged and forgotten, the bonus kept.
BookBonus(h, fails) ==
  /\ cashing[h].pc = "book"
  /\ bonus' = IF fails THEN bonus ELSE [bonus EXCEPT ![cashing[h].who].booked = @ + 1]
  /\ cashing' = [cashing EXCEPT ![h] = Idle]
  /\ UNCHANGED <<settings, tip, paid>>

-----------------------------------------------------------------------------
SettingsStep ==
  \E d \in Dealers \cup {"club"} :
    GetTipSettings(d) \/ \E split \in Forms : UpdateTipSettings(d, split)

CashStep(h) ==
  \/ \E t \in Tips, d \in Dealers, m \in Managers \cup {"none"}, total \in TipTotals :
       ProcessDealerTips(t, d, m, total)
  \/ \E s \in Dealers \cup Managers, amount \in Amounts :
       ProcessDealerCashout(h, s, amount) \/ ProcessManagerCashout(h, s, amount)
  \/ \E g \in Guests : ProcessPlayerBonus(h, g)

WriteStep(h) == InsertCashout(h) \/ \E fails \in BOOLEAN : BookBonus(h, fails)

Next == SettingsStep \/ \E h \in Cashiers : CashStep(h) \/ WriteStep(h)

Spec == Init /\ [][Next]_vars

-----------------------------------------------------------------------------
(* Properties.                                                             *)

InTurn == \A h \in Cashiers : cashing[h].pc = "idle"

\* Between requests, nobody has cashed out more than his recorded shares,
\* however the percentages and the tips went back and forth in between.
CashoutsCovered == \A s \in Dealers \cup Managers : paid[s] <= Earned(s)
=============================================================================
