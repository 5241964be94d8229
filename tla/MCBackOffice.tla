---------------------------- MODULE MCBackOffice ----------------------------
(* Model-checking instance of the back office: Workforce, Kitchen and      *)
(* Payroll, which share no state.  A behaviour keeps to one office, chosen *)
(* at the start, so that TLC adds up what they do where it would multiply  *)
(* it: staff, leave, attendance, shifts (Workforce), kitchen, payroll.     *)
EXTENDS Workforce, TLC

CONSTANTS
  Offices,
  Racing,  \* the offices at which requests overlap; at the others they take turns
  Focus,   \* the staff whose leave, attendance and shifts are looked at
  MaxOrders, MaxCount, Stations, Dealers, Managers, Tips, TipTotals, Amounts, Forms, Guests
VARIABLES office, order, station, serving, settings, tip, paid, bonus, cashing

K == INSTANCE Kitchen WITH Servers <- Clerks
P == INSTANCE Payroll WITH Cashiers <- Clerks

ASSUME BackOfficeAssumption ==
  /\ MaxOrders \in Nat /\ MaxCount \in Nat /\ "none" \notin Stations
  /\ TipTotals \subseteq Nat /\ Amounts \subseteq Nat /\ Forms \subseteq P!Split

Percentages == {[club |-> 15, dealer |-> 80, manager |-> 5],
                [club |-> 20, dealer |-> 60, manager |-> 20],
                [club |-> 20, dealer |-> 60, manager |-> 25]}

kitchenVars == <<order, station, serving>>
payrollVars == <<settings, tip, paid, bonus, cashing>>
allVars == <<vars, kitchenVars, payrollVars>>

MCInit == Init /\ K!Init /\ P!Init /\ office \in Offices

Turn ==
  office \in Racing \/ ((\A h \in Clerks : At(h, "idle")) /\ K!InTurn /\ P!InTurn)

PolicyOf(s) ==
  \E n \in Quotas : CreateLeavePolicy(RoleOf(s), n) \/ UpdateLeavePolicy(RoleOf(s), n)
                   \/ DeleteLeavePolicy(RoleOf(s))

WorkforceStep ==
  \/ office \in {"leave", "attendance"} /\ NextDay
  \/ \E h \in Clerks :
       \/ /\ Turn
          /\ \/ office = "staff" /\ StaffStep(h)
             \/ office \in {"leave", "attendance"} /\ LeaveStep(h)
             \/ office \in {"leave", "attendance"} /\ \E s \in Focus : PolicyOf(s)
             \/ office = "attendance" /\ AttendanceStep(h)
             \/ office = "shifts" /\ (ShiftStep(h) \/ RosterStep(h))
       \/ WriteStep(h)

OneStation == Cardinality({s \in Stations : station[s].there}) < 2

\* What an office leaves aside, to keep what it does look at within reach.
InFocus ==
  /\ office # "staff" => \A h \in Clerks :
       LET r == req'[h] IN
       /\ r.leave.staff \in Focus \cup {"none"}
       /\ \A m \in DOMAIN r.marks : r.marks[m].staff \in Focus \cup {"none"}
       /\ \A x \in DOMAIN r.shifts : r.shifts[x].staff \in Focus \cup {"none"}
  /\ \A s \in Staff \ Focus : ~template'[s].there
  /\ office = "attendance" =>
       /\ today' < LastDay /\ \A r \in Roles : policy'[r] \in {0, 2}
       /\ Cardinality({l \in Leaves : leave'[l] # NoLeave}) < 2
  /\ office = "shifts" =>
       \A x \in Shifts : shift'[x].there => shift'[x].day < LastDay /\ shift'[x].hours < LastDay
  /\ office = "kitchen" => order'[MaxOrders].status = "unused" \/ OneStation'

MCNext ==
  /\ \/ WorkforceStep /\ UNCHANGED <<kitchenVars, payrollVars>>
     \/ /\ office = "kitchen"
        /\ \E h \in Clerks : (Turn /\ K!LoadStep(h)) \/ K!WriteStep(h)
        /\ UNCHANGED <<vars, payrollVars>>
     \/ /\ office = "payroll"
        /\ \/ Turn /\ P!SettingsStep
           \/ \E h \in Clerks : (Turn /\ P!CashStep(h)) \/ P!WriteStep(h)
        /\ UNCHANGED <<vars, kitchenVars>>
  /\ UNCHANGED office /\ InFocus

MCSpec == MCInit /\ [][MCNext]_<<allVars, office>>

Symmetry == Permutations(Leaves) \cup Permutations(Marks) \cup Permutations(Clerks)
            \cup Permutations(Stations) \cup Permutations(Tips)

-----------------------------------------------------------------------------
(* The properties, each at the offices it is about.  Those about offices   *)
(* that take turns are stated between requests.                            *)

AllTypesOK == TypeOK /\ K!TypeOK /\ P!TypeOK

InTurn == office \notin Racing /\ K!InTurn

\* Between requests, exactly the delivered orders have an invoice, no two of
\* them the same, and each station's completed and pending counts account for
\* its orders.
KitchenBooksAgree ==
  InTurn => K!InvoicesApart /\ K!InvoicedIffDelivered /\ K!StationBooksAgree

\* One cash-out at a time, the handlers of payroll.service pay nobody more than
\* his recorded shares.
CashoutsCovered == office \notin Racing => P!CashoutsCovered
=============================================================================
