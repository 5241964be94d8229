----------------------------- MODULE Workforce -----------------------------
(***************************************************************************)
(* The staff of a club: staff-management.service (hiring, suspension),     *)
(* leave-management.service (policies, applications), attendance-tracking  *)
(* .service (attendance and who may overwrite it), shift-management and    *)
(* roster-management.service (shifts, templates, generated rosters) and    *)
(* their routes in clubs.controller.                                       *)
(*                                                                         *)
(* A handler loads and checks rows in one step and writes them in a later  *)
(* one; save writes the whole row it holds.                                *)
(***************************************************************************)
EXTENDS Integers, FiniteSets, Functions, FiniteSetsExt

CONSTANTS
  Staff, Hired,                \* ids of staff; those in the club to begin with
  Owners, Approvers, Agents,   \* super admins; admins and HR; affiliates
  Emails,
  LastDay, OffDays,            \* bound: days of the year; the weekends among them
  Leaves, Quotas,              \* ids of applications; leaves per year
  Marks, Tiers,                \* ids of attendance records; ranks of who records
  MaxShifts,                   \* bound: shifts that exist at once
  Clerks                       \* slots for requests under way

ASSUME WorkforceAssumption ==
  /\ Hired \subseteq Staff /\ Owners \cup Approvers \cup Agents \subseteq Staff
  /\ LastDay \in Nat \ {0} /\ MaxShifts \in Nat /\ OffDays \subseteq 1..LastDay
  /\ Tiers \subseteq 1..3

VARIABLES
  today,     \* the day it is
  staff,     \* staff[s]: the row s of staff
  logins,    \* the staff who were given an account with a role in the club
  policy,    \* policy[r]: leaves per year of role r, 0 for no policy
  leave,     \* leave[l]: the row l of leave_applications
  mark,      \* mark[m]: the row m of attendance_tracking
  shift,     \* shift[x]: the row x of shifts
  template,  \* template[s]: the roster template of s; the database keeps one each
  req        \* req[h]: the request in slot h and the rows it holds

vars == <<today, staff, logins, policy, leave, mark, shift, template, req>>

Days == 1..LastDay
Shifts == 1..MaxShifts
Roles == {"Super Admin", "HR", "Affiliate", "Dealer"}
RoleOf(s) == IF s \in Owners THEN "Super Admin" ELSE IF s \in Approvers THEN "HR"
             ELSE IF s \in Agents THEN "Affiliate" ELSE "Dealer"

\* Staff from before may be without an address.
Member == [there : BOOLEAN, email : Emails \cup {"none"}, suspended : BOOLEAN]
NoMember == [there |-> FALSE, email |-> "none", suspended |-> FALSE]

Leave == [status : {"unused", "pending", "approved", "rejected", "cancelled"},
          staff : Staff \cup {"none"}, from : 0..LastDay, to : 0..LastDay]
NoLeave == [status |-> "unused", staff |-> "none", from |-> 0, to |-> 0]

Mark == [there : BOOLEAN, staff : Staff \cup {"none"}, day : 0..LastDay, tier : 0..3]
NoMark == [there |-> FALSE, staff |-> "none", day |-> 0, tier |-> 0]

\* A shift is filed under a day; its hours are those of the day `hours`.
Shift == [there : BOOLEAN, staff : Staff \cup {"none"}, day : 0..LastDay, hours : -LastDay..2 * LastDay,
          off : BOOLEAN]
NoShift == [there |-> FALSE, staff |-> "none", day |-> 0, hours |-> 0, off |-> FALSE]

Template == [there : BOOLEAN, active : BOOLEAN, off : SUBSET Days]
NoTemplate == [there |-> FALSE, active |-> FALSE, off |-> {}]

\* `marks` and `shifts` map the rows to be written to what is written.
Rows(f, ids, row) == DOMAIN f \subseteq ids /\ \A x \in DOMAIN f : f[x] \in row
IsRequest(r) ==
  /\ r.pc \in {"idle", "hire", "account", "staff", "remove", "leave", "marks", "shifts", "copy",
               "generate"}
  /\ r.s \in Staff \cup {"none"} /\ r.row \in Member
  /\ r.l \in Leaves \cup {"none"} /\ r.leave \in Leave
  /\ Rows(r.marks, Marks, Mark) /\ Rows(r.shifts, Shifts, Shift)
  /\ r.days \subseteq Days /\ r.todo \subseteq Staff
Idle == [pc |-> "idle", s |-> "none", row |-> NoMember, l |-> "none", leave |-> NoLeave,
         marks |-> <<>>, shifts |-> <<>>, days |-> {}, todo |-> {}]

TypeOK ==
  /\ today \in Days /\ staff \in [Staff -> Member] /\ logins \subseteq Staff
  /\ policy \in [Roles -> Quotas \cup {0}] /\ leave \in [Leaves -> Leave]
  /\ mark \in [Marks -> Mark] /\ shift \in [Shifts -> Shift]
  /\ template \in [Staff -> Template] /\ \A h \in Clerks : IsRequest(req[h])

Init ==
  /\ today = 1
  /\ staff = [s \in Staff |-> [NoMember EXCEPT !.there = s \in Hired]]
  /\ logins = Hired /\ policy = [r \in Roles |-> 0]
  /\ leave = [l \in Leaves |-> NoLeave] /\ mark = [m \in Marks |-> NoMark]
  /\ shift = [x \in Shifts |-> NoShift] /\ template = [s \in Staff |-> NoTemplate]
  /\ req = [h \in Clerks |-> Idle]

-----------------------------------------------------------------------------
At(h, pc) == req[h].pc = pc
Becomes(h, r) == req' = [req EXCEPT ![h] = r]
Done(h) == Becomes(h, Idle)
Reading == UNCHANGED <<today, staff, logins, policy, leave, mark, shift, template>>
Goes(h, r) == At(h, "idle") /\ Becomes(h, r) /\ Reading
Only(x, v) == [y \in {x} |-> v]

InClub == {s \in Staff : staff[s].there}

OnLeave(s, d) ==
  \E l \in Leaves : leave[l].status = "approved" /\ leave[l].staff = s
                    /\ d \in leave[l].from..leave[l].to

NextDay == today < LastDay /\ today' = today + 1
           /\ UNCHANGED <<staff, logins, policy, leave, mark, shift, template, req>>

-----------------------------------------------------------------------------
(* Staff.                                                                  *)

EmailTaken(s, e) == e # "none" /\ \E t \in InClub \ {s} : staff[t].email = e

\* Fault: the database has no index on the email.
NoClash(s, row) == FALSE
\* idx_staff_email_club.
Clash(s, row) == EmailTaken(s, row.email)

\* Hashing the password lies between the check and the insert.
CreateStaff(h, s, e) ==
  /\ s \notin InClub /\ ~EmailTaken(s, e)
  /\ Goes(h, [Idle EXCEPT !.pc = "hire", !.s = s,
                          !.row = [NoMember EXCEPT !.there = TRUE, !.email = e]])

InsertStaff(h) ==
  LET r == req[h] IN
  /\ At(h, "hire")
  /\ IF Clash(r.s, r.row) THEN Done(h) /\ UNCHANGED staff
     ELSE /\ staff' = [staff EXCEPT ![r.s] = r.row]
          /\ Becomes(h, [r EXCEPT !.pc = "account"])
  /\ UNCHANGED <<today, logins, policy, leave, mark, shift, template>>

\* The account and its role come after; a failure is logged and the staff kept.
GiveAccount(h, fails) ==
  /\ At(h, "account") /\ Done(h)
  /\ logins' = IF fails THEN logins ELSE logins \cup {req[h].s}
  /\ UNCHANGED <<today, staff, policy, leave, mark, shift, template>>

Rewrites(h, s, row) == s \in InClub /\ Goes(h, [Idle EXCEPT !.pc = "staff", !.s = s, !.row = row])

UpdateStaff(h, s, e) == ~EmailTaken(s, e) /\ Rewrites(h, s, [staff[s] EXCEPT !.email = e])
SuspendStaff(h, s) == ~staff[s].suspended /\ Rewrites(h, s, [staff[s] EXCEPT !.suspended = TRUE])
ReactivateStaff(h, s) == staff[s].suspended /\ Rewrites(h, s, [staff[s] EXCEPT !.suspended = FALSE])
\* A salary or a password is set, the rest of the row written as it was loaded.
UpdateStaffSalary(h, s) == Rewrites(h, s, staff[s])
ResetStaffPassword(h, s) == Rewrites(h, s, staff[s])

\* A row that is gone is inserted anew.
SaveStaff(h) ==
  LET r == req[h] IN
  /\ At(h, "staff") /\ Done(h)
  /\ staff' = IF Clash(r.s, r.row) THEN staff ELSE [staff EXCEPT ![r.s] = r.row]
  /\ UNCHANGED <<today, logins, policy, leave, mark, shift, template>>

DeleteStaff(h, s) == s \in InClub /\ Goes(h, [Idle EXCEPT !.pc = "remove", !.s = s])

\* Refused while there are leave applications, or rows of other modules that
\* hold on to the member ("kept": a staff chat, a message he sent, tips or a
\* cash-out of a manager).  Shifts, attendance and template go along, the account
\* and its role stay; Chat has what happens to the chats assigned to him.
RemoveStaff(h, kept) ==
  LET s == req[h].s IN
  /\ At(h, "remove") /\ Done(h) /\ UNCHANGED <<today, logins, policy, leave>>
  /\ IF kept \/ \E l \in Leaves : leave[l].staff = s
     THEN UNCHANGED <<staff, mark, shift, template>>
     ELSE /\ staff' = [staff EXCEPT ![s] = NoMember]
          /\ mark' = [m \in Marks |-> IF mark[m].staff = s THEN NoMark ELSE mark[m]]
          /\ shift' = [x \in Shifts |-> IF shift[x].staff = s THEN NoShift ELSE shift[x]]
          /\ template' = [template EXCEPT ![s] = NoTemplate]

-----------------------------------------------------------------------------
(* Leave.                                                                  *)

SetPolicy(r, n) ==
  /\ policy' = [policy EXCEPT ![r] = n]
  /\ UNCHANGED <<today, staff, logins, leave, mark, shift, template, req>>
CreateLeavePolicy(r, n) == policy[r] = 0 /\ SetPolicy(r, n)
UpdateLeavePolicy(r, n) == policy[r] # 0 /\ SetPolicy(r, n)
DeleteLeavePolicy(r) == policy[r] # 0 /\ SetPolicy(r, 0)

WorkingDays(from, to) == Cardinality((from..to) \ OffDays)
Used(s) ==
  MapThenSumSet(LAMBDA l : WorkingDays(leave[l].from, leave[l].to),
                {l \in Leaves : leave[l].staff = s /\ leave[l].status = "approved"})

\* Fault: only an application for the same days is refused.
SameLeave(l, from, to) == leave[l].from = from /\ leave[l].to = to
Overlaps(l, from, to) == leave[l].from <= to /\ leave[l].to >= from

\* Leave that waits for approval is not counted against the balance.
CreateLeaveApplication(h, l, s, from, to) ==
  /\ s \in InClub \ Agents /\ leave[l].status = "unused"
  /\ today <= from /\ from <= to /\ WorkingDays(from, to) > 0
  /\ \A k \in Leaves : leave[k].staff = s /\ leave[k].status = "pending" => ~Overlaps(k, from, to)
  /\ policy[RoleOf(s)] > 0 /\ WorkingDays(from, to) + Used(s) <= policy[RoleOf(s)]
  /\ Goes(h, [Idle EXCEPT !.pc = "leave", !.l = l,
       !.leave = [status |-> "pending", staff |-> s, from |-> from, to |-> to]])

\* canApproverHandleApplicant.
MayApprove(a, s) ==
  RoleOf(a) = "Super Admin" \/ (RoleOf(a) = "HR" /\ RoleOf(s) \notin {"HR"})

Decides(h, l, status) ==
  /\ leave[l].status = "pending"
  /\ Goes(h, [Idle EXCEPT !.pc = "leave", !.l = l, !.leave = [leave[l] EXCEPT !.status = status]])

ApproveLeaveApplication(h, l, a) ==
  a \in InClub /\ leave[l].status = "pending" /\ MayApprove(a, leave[l].staff)
  /\ Decides(h, l, "approved")
RejectLeaveApplication(h, l, a) ==
  a \in InClub /\ leave[l].status = "pending" /\ MayApprove(a, leave[l].staff)
  /\ Decides(h, l, "rejected")
CancelLeaveApplication(h, l) == Decides(h, l, "cancelled")

SaveLeave(h) ==
  /\ At(h, "leave") /\ Done(h)
  /\ leave' = [leave EXCEPT ![req[h].l] = req[h].leave]
  /\ UNCHANGED <<today, staff, logins, policy, mark, shift, template>>

-----------------------------------------------------------------------------
(* Attendance.                                                             *)

CanOverrideAttendance(existing, new) == IF existing <= 0 THEN new >= 1 ELSE new >= existing

MarksOf(s, d) == {m \in Marks : mark[m].there /\ mark[m].staff = s /\ mark[m].day = d}
ShiftsOn(s, d) == {x \in Shifts : shift[x].there /\ shift[x].staff = s /\ shift[x].day = d}

\* The record that is there already is found and overwritten, else one inserted.
Recorded(m, s, d, tier) ==
  IF MarksOf(s, d) = {} THEN ~mark[m].there
  ELSE m \in MarksOf(s, d) /\ CanOverrideAttendance(mark[m].tier, tier)

Writes(h, marks) == Goes(h, [Idle EXCEPT !.pc = "marks", !.marks = marks])

CreateAttendanceRecord(h, m, s, d, tier) ==
  /\ s \in InClub /\ d <= today /\ ~OnLeave(s, d) /\ Recorded(m, s, d, tier)
  /\ Writes(h, Only(m, [there |-> TRUE, staff |-> s, day |-> d, tier |-> tier]))

UpdateAttendanceRecord(h, m, tier) ==
  /\ mark[m].there /\ CanOverrideAttendance(mark[m].tier, tier)
  /\ Writes(h, Only(m, [mark[m] EXCEPT !.tier = tier]))

DeleteAttendanceRecord(h, m, tier) ==
  mark[m].there /\ CanOverrideAttendance(mark[m].tier, tier) /\ Writes(h, Only(m, NoMark))

\* Those the clerk may not touch are left out.
BulkDeleteAttendanceRecords(h, ms, tier) ==
  LET gone == {m \in ms : mark[m].there /\ CanOverrideAttendance(mark[m].tier, tier)} IN
  gone # {} /\ Writes(h, [m \in gone |-> NoMark])

\* With times of its own an entry needs no shift, without it takes the shift's;
\* a day off needs leave to work on it, and a template if it has no times.
Attends(s, d, timed, onDayOff) ==
  \/ timed /\ ShiftsOn(s, d) = {}
  \/ \E x \in ShiftsOn(s, d) : shift[x].off => onDayOff /\ (timed \/ template[s].there)

\* One look at the day serves all entries, and all that pass are saved at once.
BulkCreateAttendance(h, ss, d, tier, timed, onDayOff) ==
  LET passed == {s \in ss \cap InClub : ~OnLeave(s, d) /\ Attends(s, d, timed, onDayOff)} IN
  /\ d <= today
  /\ \E to \in [passed -> Marks] :
       LET taken == {s \in passed : Recorded(to[s], s, d, tier)} IN
       /\ IsInjective(to) /\ taken # {}
       /\ \A s \in passed \ taken : MarksOf(s, d) # {} /\ to[s] \in MarksOf(s, d)
       /\ Writes(h, [m \in {to[s] : s \in taken} |->
            [there |-> TRUE, staff |-> CHOOSE s \in taken : to[s] = m, day |-> d, tier |-> tier]])

SaveMarks(h) ==
  /\ At(h, "marks") /\ Done(h)
  /\ mark' = [m \in Marks |-> IF m \in DOMAIN req[h].marks THEN req[h].marks[m] ELSE mark[m]]
  /\ UNCHANGED <<today, staff, logins, policy, leave, shift, template>>

-----------------------------------------------------------------------------
(* Shifts and rosters.                                                     *)

Free == {x \in Shifts : ~shift[x].there}
\* The n-th of the numbers that are free.
Nth(n) == CHOOSE x \in Free : Cardinality({y \in Free : y <= x}) = n

\* Hours that overlap those of another shift which is not a day off.
HoursTaken(s, hours, except) ==
  \E x \in Shifts \ except : shift[x].there /\ shift[x].staff = s /\ ~shift[x].off
                             /\ shift[x].hours = hours

Places(h, shifts) == Goes(h, [Idle EXCEPT !.pc = "shifts", !.shifts = shifts])

CreateShift(h, s, d, hours, off) ==
  /\ s \in InClub /\ ~OnLeave(s, d) /\ ShiftsOn(s, d) = {} /\ Free # {}
  /\ off \/ ~HoursTaken(s, hours, {})
  /\ Places(h, Only(Nth(1), [there |-> TRUE, staff |-> s, day |-> d, hours |-> hours, off |-> off]))

\* The form may move the day without a look at the shifts or the leave there;
\* only new hours are checked.
UpdateShift(h, x, d, hours, off) ==
  /\ shift[x].there
  /\ hours # shift[x].hours /\ ~off => ~HoursTaken(shift[x].staff, hours, {x})
  /\ Places(h, Only(x, [shift[x] EXCEPT !.day = d, !.hours = hours, !.off = off]))

DeleteShift(h, x) == shift[x].there /\ Places(h, Only(x, NoShift))
DeleteMultipleShifts(h, xs) ==
  /\ {x \in xs : shift[x].there} # {}
  /\ Places(h, [x \in {y \in xs : shift[y].there} |-> NoShift])

SaveShifts(h) ==
  LET rows == req[h].shifts IN
  /\ At(h, "shifts") /\ Done(h)
  /\ shift' = [x \in Shifts |-> IF x \in DOMAIN rows THEN rows[x] ELSE shift[x]]
  /\ UNCHANGED <<today, staff, logins, policy, leave, mark, template>>

\* The source is loaded once and copied to one date after the other.
CopyShifts(h, x, days) ==
  /\ shift[x].there /\ days # {}
  /\ Goes(h, [Idle EXCEPT !.pc = "copy", !.shifts = Only(x, shift[x]), !.days = days])

\* A date the staff member is on leave or has a shift is skipped.
CopyShift(h, d) ==
  LET r == req[h]
      source == r.shifts[CHOOSE x \in DOMAIN r.shifts : TRUE] IN
  /\ At(h, "copy") /\ d \in r.days
  /\ IF OnLeave(source.staff, d) \/ ShiftsOn(source.staff, d) # {} \/ Free = {}
     THEN UNCHANGED shift
     ELSE shift' = [shift EXCEPT ![Nth(1)] = [source EXCEPT !.day = d, !.hours = @ + d - source.day]]
  /\ IF r.days = {d} THEN Done(h) ELSE Becomes(h, [r EXCEPT !.days = @ \ {d}])
  /\ UNCHANGED <<today, staff, logins, policy, leave, mark, template>>

SetTemplate(s, row) ==
  /\ template' = [template EXCEPT ![s] = row]
  /\ UNCHANGED <<today, staff, logins, policy, leave, mark, shift, req>>

\* An active template takes the place of an inactive one, never of an active one.
CreateOrUpdateTemplate(s, active, off) ==
  /\ s \in InClub /\ ~(active /\ template[s].active)
  /\ SetTemplate(s, [there |-> TRUE, active |-> active, off |-> off])
UpdateTemplate(s, active, off) ==
  template[s].there /\ SetTemplate(s, [there |-> TRUE, active |-> active, off |-> off])
DeleteTemplate(s) == template[s].there /\ SetTemplate(s, NoTemplate)

\* Overwriting deletes the shifts of the period, of all staff, at the start.
GenerateRoster(h, days, overwrite) ==
  LET planned == {s \in Staff : template[s].active} IN
  /\ At(h, "idle") /\ planned # {}
  /\ shift' = [x \in Shifts |->
       IF overwrite /\ shift[x].day \in days THEN NoShift ELSE shift[x]]
  /\ Becomes(h, [Idle EXCEPT !.pc = "generate", !.days = days, !.todo = planned])
  /\ UNCHANGED <<today, staff, logins, policy, leave, mark, template>>

\* Fault: days that have a shift are not skipped.
EveryDay(s, days) == days
\* The days of the period without a shift; leave and hours are not looked at.
Open(s, days) == {d \in days : ShiftsOn(s, d) = {}}

\* The shifts of one staff member are saved at once.
GenerateShiftsForStaff(h, s) ==
  LET r == req[h]
      open == Open(s, r.days)
      nr(d) == Nth(Cardinality({e \in open : e <= d})) IN
  /\ At(h, "generate") /\ s \in r.todo
  /\ IF Cardinality(open) > Cardinality(Free) THEN UNCHANGED shift
     ELSE shift' = [x \in Shifts |->
            IF \E d \in open : x = nr(d)
            THEN LET d == CHOOSE e \in open : x = nr(e) IN
                 [there |-> TRUE, staff |-> s, day |-> d, hours |-> d,
                  off |-> d \in template[s].off]
            ELSE shift[x]]
  /\ IF r.todo = {s} THEN Done(h) ELSE Becomes(h, [r EXCEPT !.todo = @ \ {s}])
  /\ UNCHANGED <<today, staff, logins, policy, leave, mark, template>>

-----------------------------------------------------------------------------
StaffStep(h) ==
  \E s \in Staff :
    \/ \E e \in Emails : CreateStaff(h, s, e) \/ UpdateStaff(h, s, e)
    \/ SuspendStaff(h, s) \/ ReactivateStaff(h, s) \/ UpdateStaffSalary(h, s)
    \/ ResetStaffPassword(h, s) \/ DeleteStaff(h, s)

PolicyStep ==
  \E r \in Roles :
    DeleteLeavePolicy(r) \/ \E n \in Quotas : CreateLeavePolicy(r, n) \/ UpdateLeavePolicy(r, n)

LeaveStep(h) ==
  \E l \in Leaves :
    \/ \E s \in Staff, from, to \in Days : CreateLeaveApplication(h, l, s, from, to)
    \/ \E a \in Staff : ApproveLeaveApplication(h, l, a) \/ RejectLeaveApplication(h, l, a)
    \/ CancelLeaveApplication(h, l)

AttendanceStep(h) ==
  \E tier \in Tiers :
    \/ \E m \in Marks, s \in Staff, d \in Days : CreateAttendanceRecord(h, m, s, d, tier)
    \/ \E m \in Marks : UpdateAttendanceRecord(h, m, tier) \/ DeleteAttendanceRecord(h, m, tier)
    \/ \E ms \in SUBSET Marks : BulkDeleteAttendanceRecords(h, ms, tier)
    \/ \E ss \in SUBSET Staff, d \in Days, timed, onDayOff \in BOOLEAN :
         BulkCreateAttendance(h, ss, d, tier, timed, onDayOff)

ShiftStep(h) ==
  \/ \E d, hours \in Days, off \in BOOLEAN :
       \/ \E s \in Staff : CreateShift(h, s, d, hours, off)
       \/ \E x \in Shifts : UpdateShift(h, x, d, hours, off)
  \/ \E x \in Shifts : DeleteShift(h, x) \/ \E days \in SUBSET Days : CopyShifts(h, x, days)
  \/ \E xs \in SUBSET Shifts : DeleteMultipleShifts(h, xs)

RosterStep(h) ==
  \/ \E s \in Staff, active \in BOOLEAN, off \in {{}, OffDays} :
       CreateOrUpdateTemplate(s, active, off) \/ UpdateTemplate(s, active, off)
  \/ \E s \in Staff : DeleteTemplate(s)
  \/ \E days \in SUBSET Days, overwrite \in BOOLEAN : GenerateRoster(h, days, overwrite)

WriteStep(h) ==
  \/ InsertStaff(h) \/ SaveStaff(h) \/ SaveLeave(h) \/ SaveMarks(h)
  \/ \E kept \in BOOLEAN : RemoveStaff(h, kept)
  \/ SaveShifts(h)
  \/ \E fails \in BOOLEAN : GiveAccount(h, fails)
  \/ \E d \in Days : CopyShift(h, d)
  \/ \E s \in Staff : GenerateShiftsForStaff(h, s)

Next ==
  \/ NextDay \/ PolicyStep
  \/ \E h \in Clerks : StaffStep(h) \/ LeaveStep(h) \/ AttendanceStep(h) \/ ShiftStep(h)
                       \/ RosterStep(h) \/ WriteStep(h)

Spec == Init /\ [][Next]_vars

-----------------------------------------------------------------------------
(* Properties.                                                             *)

\* No two staff of the club share an address, also when two are hired or edited
\* at once: the checks may both pass, the index refuses the second row.
StaffEmailsApart == \A s \in InClub : ~EmailTaken(s, staff[s].email)

\* Between requests, no two applications that wait for a decision ask for the
\* same day of one staff member, so no day is approved, and counted, twice out
\* of what is pending.
PendingLeavesApart ==
  \A k, l \in Leaves :
    k # l /\ leave[k].status = "pending" /\ leave[l].status = "pending"
    /\ leave[k].staff = leave[l].staff
      => leave[k].to < leave[l].from \/ leave[l].to < leave[k].from

\* One request at a time, a shift that is added (created, copied or generated)
\* is filed under a day its staff member has no shift on.
NewShiftsApart ==
  [][\A x, y \in Shifts :
       x # y /\ ~shift[x].there /\ shift'[x].there /\ shift'[y].there
       => shift'[x].staff # shift'[y].staff \/ shift'[x].day # shift'[y].day]_vars

\* What cancelLeaveApplication says of its check: a decision on an application
\* is not overridden.
LeaveDecisionStands ==
  [][\A l \in Leaves :
       leave[l].status \in {"approved", "rejected"} => leave'[l].status = leave[l].status]_vars
=============================================================================
