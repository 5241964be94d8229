------------------------- MODULE BackOffice_proofs -------------------------
(***************************************************************************)
(* Theorems about the back office (MCSpec of MCBackOffice), for any staff, *)
(* rows, bounds and number of requests under way.                          *)
(*                                                                         *)
(*   TypesKeptEverywhere     AllTypesOK                                    *)
(*   EmailsStayApart         StaffEmailsApart, requests overlapping too    *)
(*   PendingLeavesStayApart  PendingLeavesApart                            *)
(*   ShiftsLandApart         NewShiftsApart                                *)
(*   KitchenBooksKept        KitchenBooksAgree                             *)
(*   CashoutsStayCovered     CashoutsCovered                               *)
(*                                                                         *)
(* The offices share no state, so each has an invariant of its own:        *)
(*   WorkforceInv  types; what a request holds keeps clear of the waiting  *)
(*                 applications and of the shifts that are there           *)
(*   KitchenInv    types                                                   *)
(*   BooksInv      where kitchen requests take turns: invoices are those   *)
(*                 of delivered orders, also in the row about to be saved; *)
(*                 what a save has found is still there; how far the       *)
(*                 request under way has come in counting its order        *)
(*                 (Accounted)                                             *)
(*   PayrollInv    types; a bonus is booked once                           *)
(*   CoveredInv    where cash-outs take turns: the one about to be paid is *)
(*                 covered                                                 *)
(* Each is kept by what loads rows, then by what writes them.              *)
(***************************************************************************)
EXTENDS MCBackOffice, Sums

-----------------------------------------------------------------------------
(* Staff, leave, attendance and shifts: what is kept.                      *)

\* The hours of a shift are never further from the day it is filed under than
\* the first day is from the last: copying moves both alike.
Filed(row) == row.there => row.day \in Days /\ row.hours - row.day \in -LastDay..LastDay

\* A request is a record of the right type whose shifts are filed so.
Sensible(r) ==
  /\ IsRequest(r)
  /\ r = [pc |-> r.pc, s |-> r.s, row |-> r.row, l |-> r.l, leave |-> r.leave,
          marks |-> r.marks, shifts |-> r.shifts, days |-> r.days, todo |-> r.todo]
  /\ r.pc \in {"hire", "account"} => r.s \in Staff
  /\ \A x \in DOMAIN r.shifts : Filed(r.shifts[x])
  /\ r.pc = "copy" => DOMAIN r.shifts # {} /\ \A x \in DOMAIN r.shifts : r.shifts[x].there

TypesKept ==
  /\ TypeOK
  /\ DOMAIN req = Clerks /\ \A h \in Clerks : Sensible(req[h])
  /\ \A x \in Shifts : Filed(shift[x])

\* A request is under way at the office where it is made.
AtItsOffice(r) ==
  /\ r.pc = "leave" => office \in {"leave", "attendance"}
  /\ r.pc \in {"shifts", "copy", "generate"} => office = "shifts"
  /\ r.pc = "remove" => office = "staff"

\* Where requests take turns, one is under way at most.
OneUnderWay ==
  office \notin Racing =>
    \A g, h \in Clerks : ~At(g, "idle") /\ ~At(h, "idle") => g = h

\* An application that is about to be saved is decided on, or is new and keeps
\* clear of those that wait.
KeepsClear(r) ==
  r.leave.status = "pending" =>
    /\ leave[r.l].status = "unused"
    /\ \A k \in Leaves : leave[k].status = "pending" /\ leave[k].staff = r.leave.staff
                         => r.leave.to < leave[k].from \/ leave[k].to < r.leave.from

LeavesKept ==
  (office \in {"leave", "attendance"} => office \notin Racing) =>
    PendingLeavesApart /\ \A h \in Clerks : At(h, "leave") => KeepsClear(req[h])

\* A shift that is about to be saved is there already, or is the only one and
\* its staff member has none on its day.
FindsRoom(r) ==
  \A x \in DOMAIN r.shifts : r.shifts[x].there =>
    \/ shift[x].there
    \/ DOMAIN r.shifts = {x} /\ ShiftsOn(r.shifts[x].staff, r.shifts[x].day) = {}

ShiftsKept ==
  (office = "shifts" => office \notin Racing) =>
    \A h \in Clerks : At(h, "shifts") => FindsRoom(req[h])

WorkforceInv ==
  /\ TypesKept /\ StaffEmailsApart
  /\ \A h \in Clerks : AtItsOffice(req[h])
  /\ OneUnderWay /\ LeavesKept /\ ShiftsKept

-----------------------------------------------------------------------------
(* Requests that have loaded what they need.                               *)

LEMMA IdleSensible == Sensible(Idle) /\ Idle.pc = "idle" /\ DOMAIN Idle.shifts = {}
<1>1. NoMember \in Member /\ NoLeave \in Leave
  BY WorkforceAssumption DEF WorkforceAssumption, NoMember, Member, NoLeave, Leave
<1>2. DOMAIN <<>> = {}
  OBVIOUS
<1>3. Idle.marks = <<>> /\ Idle.shifts = <<>>
  BY DEF Idle
<1> QED
  BY <1>1, <1>2, <1>3 DEF Sensible, IsRequest, Rows, Idle

\* A request may hold what is kept in mind, and go on from there.
LEMMA LoadKeeps ==
  ASSUME WorkforceInv, Turn, NEW h \in Clerks, NEW r, Sensible(r), AtItsOffice(r), Goes(h, r),
         r.pc = "leave" => KeepsClear(r), r.pc = "shifts" => FindsRoom(r), office' = office
  PROVE  WorkforceInv'
<1>1. /\ DOMAIN req = Clerks /\ req' = [req EXCEPT ![h] = r]
      /\ UNCHANGED <<today, staff, logins, policy, leave, mark, shift, template>>
  BY DEF WorkforceInv, TypesKept, Goes, Becomes, Reading
<1>2. DOMAIN req' = Clerks /\ req'[h] = r /\ \A g \in Clerks \ {h} : req'[g] = req[g]
  BY <1>1
<1>3. TypesKept'
  <2>1. \A g \in Clerks : Sensible(req'[g])
    BY <1>2 DEF WorkforceInv, TypesKept
  <2>2. \A g \in Clerks : IsRequest(req'[g])
    BY <2>1 DEF Sensible
  <2>3. TypeOK'
    BY <1>1, <2>2 DEF WorkforceInv, TypesKept, TypeOK, IsRequest, Rows
  <2>4. (\A g \in Clerks : Sensible(req[g]))'
    BY <2>1 DEF Sensible, IsRequest, Rows, Filed
  <2> QED
    BY <1>1, <1>2, <2>3, <2>4 DEF WorkforceInv, TypesKept, Filed
<1>4. StaffEmailsApart'
  BY <1>1 DEF WorkforceInv, StaffEmailsApart, InClub, EmailTaken
<1>5. (\A g \in Clerks : AtItsOffice(req[g]))'
  BY <1>2 DEF WorkforceInv, AtItsOffice
<1>6. OneUnderWay'
  <2>1. office \notin Racing => \A g \in Clerks : req[g].pc = "idle"
    BY DEF Turn, At
  <2> QED
    BY <1>2, <2>1 DEF OneUnderWay, At
<1>7. LeavesKept'
  <2>1. PendingLeavesApart' <=> PendingLeavesApart
    BY <1>1 DEF PendingLeavesApart
  <2>2. \A q : KeepsClear(q)' <=> KeepsClear(q)
    BY <1>1 DEF KeepsClear
  <2> QED
    BY <1>2, <2>1, <2>2, SMTT(30) DEF WorkforceInv, LeavesKept, At, KeepsClear
<1>8. ShiftsKept'
  BY <1>1, <1>2 DEF WorkforceInv, ShiftsKept, At, FindsRoom, ShiftsOn
<1> QED
  BY <1>3, <1>4, <1>5, <1>6, <1>7, <1>8 DEF WorkforceInv

\* What a request of the staff office holds.
ForStaff(pc, s, row) == [Idle EXCEPT !.pc = pc, !.s = s, !.row = row]
ForRemoval(s) == [Idle EXCEPT !.pc = "remove", !.s = s]

LEMMA StaffRequest ==
  ASSUME NEW pc \in {"hire", "staff"}, NEW s \in Staff, NEW row \in Member,
         NEW r, r = ForStaff(pc, s, row)
  PROVE  Sensible(r) /\ AtItsOffice(r) /\ r.pc \notin {"leave", "shifts"}
<1>1. /\ r = [pc |-> pc, s |-> s, row |-> row, l |-> Idle.l, leave |-> Idle.leave,
              marks |-> Idle.marks, shifts |-> Idle.shifts, days |-> Idle.days, todo |-> Idle.todo]
  BY DEF ForStaff, Idle
<1>2. Sensible(r)
  BY <1>1, IdleSensible DEF Sensible, IsRequest
<1> QED
  BY <1>1, <1>2 DEF AtItsOffice

LEMMA RemoveRequest ==
  ASSUME NEW s \in Staff, office = "staff", NEW r, r = ForRemoval(s)
  PROVE  Sensible(r) /\ AtItsOffice(r) /\ r.pc \notin {"leave", "shifts"}
<1>1. /\ r = [pc |-> "remove", s |-> s, row |-> Idle.row, l |-> Idle.l, leave |-> Idle.leave,
              marks |-> Idle.marks, shifts |-> Idle.shifts, days |-> Idle.days, todo |-> Idle.todo]
  BY DEF ForRemoval, Idle
<1>2. Sensible(r)
  BY <1>1, IdleSensible DEF Sensible, IsRequest
<1> QED
  BY <1>1, <1>2 DEF AtItsOffice

LEMMA StaffLoads ==
  ASSUME WorkforceInv, Turn, NEW h \in Clerks, StaffStep(h), office = "staff", office' = office
  PROVE  WorkforceInv'
<1>1. \A s \in Staff : staff[s] \in Member
  BY DEF WorkforceInv, TypesKept, TypeOK
<1>2. ASSUME NEW s \in Staff, NEW row \in Member, Rewrites(h, s, row) PROVE WorkforceInv'
  <2> DEFINE r == ForStaff("staff", s, row)
  <2>1. Goes(h, r)
    BY <1>2, Zenon DEF Rewrites, ForStaff
  <2>2. Sensible(r) /\ AtItsOffice(r) /\ r.pc \notin {"leave", "shifts"}
    BY StaffRequest
  <2> HIDE DEF r
  <2> QED
    BY <2>1, <2>2, LoadKeeps
<1>3. ASSUME NEW s \in Staff, NEW e \in Emails, CreateStaff(h, s, e) PROVE WorkforceInv'
  <2> DEFINE row == [NoMember EXCEPT !.there = TRUE, !.email = e]
             r == ForStaff("hire", s, row)
  <2>1. Goes(h, r)
    BY <1>3, Zenon DEF CreateStaff, ForStaff
  <2>2. row \in Member
    BY DEF NoMember, Member
  <2>3. Sensible(r) /\ AtItsOffice(r) /\ r.pc \notin {"leave", "shifts"}
    <3> HIDE DEF row
    <3> QED
      BY <2>2, StaffRequest
  <2> HIDE DEF r
  <2> QED
    BY <2>1, <2>3, LoadKeeps
<1>4. ASSUME NEW s \in Staff, NEW e \in Emails, UpdateStaff(h, s, e) PROVE WorkforceInv'
  <2>1. [staff[s] EXCEPT !.email = e] \in Member
    BY <1>1 DEF Member
  <2> QED
    BY <1>2, <1>4, <2>1 DEF UpdateStaff
<1>5. ASSUME NEW s \in Staff, SuspendStaff(h, s) \/ ReactivateStaff(h, s) PROVE WorkforceInv'
  <2>1. \A b \in BOOLEAN : [staff[s] EXCEPT !.suspended = b] \in Member
    BY <1>1 DEF Member
  <2> QED
    BY <1>2, <1>5, <2>1 DEF SuspendStaff, ReactivateStaff
<1>6. ASSUME NEW s \in Staff, UpdateStaffSalary(h, s) \/ ResetStaffPassword(h, s)
      PROVE  WorkforceInv'
  BY <1>1, <1>2, <1>6 DEF UpdateStaffSalary, ResetStaffPassword
<1>7. ASSUME NEW s \in Staff, DeleteStaff(h, s) PROVE WorkforceInv'
  <2> DEFINE r == ForRemoval(s)
  <2>1. Goes(h, r)
    BY <1>7, Zenon DEF DeleteStaff, ForRemoval
  <2>2. Sensible(r) /\ AtItsOffice(r) /\ r.pc \notin {"leave", "shifts"}
    BY RemoveRequest
  <2> HIDE DEF r
  <2> QED
    BY <2>1, <2>2, LoadKeeps
<1> QED
  BY <1>3, <1>4, <1>5, <1>6, <1>7 DEF StaffStep

\* What a request of the leave office holds.
ForLeave(l, row) == [Idle EXCEPT !.pc = "leave", !.l = l, !.leave = row]

LEMMA LeaveRequest ==
  ASSUME NEW l \in Leaves, NEW row \in Leave, office \in {"leave", "attendance"},
         NEW r, r = ForLeave(l, row)
  PROVE  Sensible(r) /\ AtItsOffice(r) /\ r.pc = "leave" /\ r.l = l /\ r.leave = row
<1>1. /\ r = [pc |-> "leave", s |-> Idle.s, row |-> Idle.row, l |-> l, leave |-> row,
              marks |-> Idle.marks, shifts |-> Idle.shifts, days |-> Idle.days, todo |-> Idle.todo]
  BY DEF ForLeave, Idle
<1>2. Sensible(r)
  BY <1>1, IdleSensible DEF Sensible, IsRequest
<1> QED
  BY <1>1, <1>2 DEF AtItsOffice

LEMMA LeaveLoads ==
  ASSUME WorkforceInv, Turn, NEW h \in Clerks, LeaveStep(h), office \in {"leave", "attendance"},
         office' = office
  PROVE  WorkforceInv'
<1>1. \A l \in Leaves : leave[l] \in Leave
  BY DEF WorkforceInv, TypesKept, TypeOK
<1>2. ASSUME NEW l \in Leaves, NEW row \in Leave, Goes(h, ForLeave(l, row)),
             row.status = "pending" =>
               /\ leave[l].status = "unused"
               /\ \A k \in Leaves : leave[k].status = "pending" /\ leave[k].staff = row.staff
                                    => row.to < leave[k].from \/ leave[k].to < row.from
      PROVE  WorkforceInv'
  <2> DEFINE r == ForLeave(l, row)
  <2>1. Sensible(r) /\ AtItsOffice(r) /\ r.pc = "leave" /\ r.l = l /\ r.leave = row
    BY LeaveRequest
  <2> HIDE DEF r
  <2>2. KeepsClear(r)
    BY <1>2, <2>1 DEF KeepsClear
  <2>3. Goes(h, r)
    BY <1>2 DEF r
  <2> QED
    BY <2>1, <2>2, <2>3, LoadKeeps
<1>3. ASSUME NEW l \in Leaves, NEW status \in {"approved", "rejected", "cancelled"},
             Decides(h, l, status)
      PROVE  WorkforceInv'
  <2> DEFINE row == [leave[l] EXCEPT !.status = status]
  <2>1. Goes(h, ForLeave(l, row))
    BY <1>3, Zenon DEF Decides, ForLeave
  <2>2. row \in Leave /\ row.status # "pending"
    BY <1>1 DEF Leave
  <2> HIDE DEF row
  <2> QED
    BY <1>2, <2>1, <2>2
<1>4. ASSUME NEW l \in Leaves, NEW a \in Staff,
             ApproveLeaveApplication(h, l, a) \/ RejectLeaveApplication(h, l, a)
      PROVE  WorkforceInv'
  BY <1>3, <1>4 DEF ApproveLeaveApplication, RejectLeaveApplication
<1>5. ASSUME NEW l \in Leaves, CancelLeaveApplication(h, l) PROVE WorkforceInv'
  BY <1>3, <1>5 DEF CancelLeaveApplication
<1>6. ASSUME NEW l \in Leaves, NEW s \in Staff, NEW from \in Days, NEW to \in Days,
             CreateLeaveApplication(h, l, s, from, to)
      PROVE  WorkforceInv'
  <2> DEFINE row == [status |-> "pending", staff |-> s, from |-> from, to |-> to]
  <2>1. Goes(h, ForLeave(l, row))
    BY <1>6, Zenon DEF CreateLeaveApplication, ForLeave
  <2>2. /\ leave[l].status = "unused"
        /\ \A k \in Leaves : leave[k].staff = s /\ leave[k].status = "pending"
                             => ~Overlaps(k, from, to)
    BY <1>6, Zenon DEF CreateLeaveApplication
  <2>3. row \in Leave /\ row.staff = s /\ row.from = from /\ row.to = to
    BY WorkforceAssumption DEF WorkforceAssumption, Leave, Days
  <2>4. \A k \in Leaves : leave[k].status = "pending" /\ leave[k].staff = row.staff
                          => row.to < leave[k].from \/ leave[k].to < row.from
    <3> TAKE k \in Leaves
    <3> HAVE leave[k].status = "pending" /\ leave[k].staff = row.staff
    <3>1. ~(leave[k].from <= to /\ leave[k].to >= from)
      BY <2>2, <2>3 DEF Overlaps
    <3>2. leave[k].from \in Int /\ leave[k].to \in Int /\ from \in Int /\ to \in Int
      BY <1>1, WorkforceAssumption DEF WorkforceAssumption, Leave, Days
    <3> QED
      BY <2>3, <3>1, <3>2
  <2> HIDE DEF row
  <2> QED
    BY <1>2, <2>1, <2>2, <2>3, <2>4
<1> QED
  BY <1>4, <1>5, <1>6 DEF LeaveStep

\* What a request for attendance records or shifts is about to write.
ForMarks(f) == [Idle EXCEPT !.pc = "marks", !.marks = f]
ForShifts(f) == [Idle EXCEPT !.pc = "shifts", !.shifts = f]

LEMMA MarksRequest ==
  ASSUME NEW f, Rows(f, Marks, Mark), NEW r, r = ForMarks(f)
  PROVE  Sensible(r) /\ AtItsOffice(r) /\ r.pc = "marks"
<1>1. /\ r = [pc |-> "marks", s |-> Idle.s, row |-> Idle.row, l |-> Idle.l, leave |-> Idle.leave,
              marks |-> f, shifts |-> Idle.shifts, days |-> Idle.days, todo |-> Idle.todo]
  BY DEF ForMarks, Idle
<1>2. Sensible(r)
  BY <1>1, IdleSensible DEF Sensible, IsRequest
<1> QED
  BY <1>1, <1>2 DEF AtItsOffice

LEMMA ShiftsRequest ==
  ASSUME NEW f, Rows(f, Shifts, Shift), \A x \in DOMAIN f : Filed(f[x]), office = "shifts",
         NEW r, r = ForShifts(f)
  PROVE  Sensible(r) /\ AtItsOffice(r) /\ r.pc = "shifts" /\ r.shifts = f
<1>1. /\ r = [pc |-> "shifts", s |-> Idle.s, row |-> Idle.row, l |-> Idle.l, leave |-> Idle.leave,
              marks |-> Idle.marks, shifts |-> f, days |-> Idle.days, todo |-> Idle.todo]
  BY DEF ForShifts, Idle
<1>2. Sensible(r)
  BY <1>1, IdleSensible DEF Sensible, IsRequest
<1> QED
  BY <1>1, <1>2 DEF AtItsOffice

\* New records of attendance, of one day and by one rank.
LEMMA MarkRows ==
  ASSUME NEW f, DOMAIN f \subseteq Marks, NEW d \in 0..LastDay, NEW tier \in 0..3,
         \A m \in DOMAIN f : \E s \in Staff :
           f[m] = [there |-> TRUE, staff |-> s, day |-> d, tier |-> tier]
  PROVE  Rows(f, Marks, Mark)
<1>1. \A s \in Staff : [there |-> TRUE, staff |-> s, day |-> d, tier |-> tier] \in Mark
  BY DEF Mark
<1>2. \A m \in DOMAIN f : f[m] \in Mark
  BY <1>1, Zenon
<1> QED
  BY <1>2, Zenon DEF Rows

LEMMA AttendanceLoads ==
  ASSUME WorkforceInv, Turn, NEW h \in Clerks, AttendanceStep(h), office' = office
  PROVE  WorkforceInv'
<1>1. \A m \in Marks : mark[m] \in Mark
  BY DEF WorkforceInv, TypesKept, TypeOK
<1>2. ASSUME NEW f, Rows(f, Marks, Mark), Writes(h, f) PROVE WorkforceInv'
  <2>1. Goes(h, ForMarks(f))
    BY <1>2, Zenon DEF Writes, ForMarks
  <2>2. Sensible(ForMarks(f)) /\ AtItsOffice(ForMarks(f)) /\ ForMarks(f).pc = "marks"
    BY <1>2, MarksRequest
  <2> QED
    BY <2>1, <2>2, LoadKeeps
<1>3. ASSUME NEW m \in Marks, NEW row \in Mark PROVE Rows(Only(m, row), Marks, Mark)
  BY DEF Only, Rows
<1>4. NoMark \in Mark
  BY WorkforceAssumption DEF WorkforceAssumption, NoMark, Mark
<1>5. ASSUME NEW tier \in Tiers, NEW m \in Marks, NEW s \in Staff, NEW d \in Days,
             CreateAttendanceRecord(h, m, s, d, tier)
      PROVE  WorkforceInv'
  <2> DEFINE row == [there |-> TRUE, staff |-> s, day |-> d, tier |-> tier]
  <2>1. Writes(h, Only(m, row))
    BY <1>5 DEF CreateAttendanceRecord
  <2>2. row \in Mark
    BY WorkforceAssumption DEF WorkforceAssumption, Mark, Days
  <2> HIDE DEF row
  <2> QED
    BY <1>2, <1>3, <2>1, <2>2
<1>6. ASSUME NEW tier \in Tiers, NEW m \in Marks,
             UpdateAttendanceRecord(h, m, tier) \/ DeleteAttendanceRecord(h, m, tier)
      PROVE  WorkforceInv'
  <2> DEFINE row == [mark[m] EXCEPT !.tier = tier]
  <2>1. Writes(h, Only(m, row)) \/ Writes(h, Only(m, NoMark))
    BY <1>6, Zenon DEF UpdateAttendanceRecord, DeleteAttendanceRecord
  <2>2. row \in Mark
    BY <1>1, WorkforceAssumption DEF WorkforceAssumption, Mark
  <2> HIDE DEF row
  <2> QED
    BY <1>2, <1>3, <1>4, <2>1, <2>2
<1>7. ASSUME NEW tier \in Tiers, NEW ms \in SUBSET Marks,
             BulkDeleteAttendanceRecords(h, ms, tier)
      PROVE  WorkforceInv'
  <2> DEFINE gone == {m \in ms : mark[m].there /\ CanOverrideAttendance(mark[m].tier, tier)}
             f == [m \in gone |-> NoMark]
  <2>1. Writes(h, f)
    BY <1>7, Zenon DEF BulkDeleteAttendanceRecords
  <2>2. gone \subseteq Marks
    OBVIOUS
  <2>3. Rows(f, Marks, Mark)
    <3> HIDE DEF gone
    <3> QED
      BY <1>4, <2>2 DEF Rows
  <2> HIDE DEF f
  <2> QED
    BY <1>2, <2>1, <2>3
<1>8. ASSUME NEW tier \in Tiers, NEW ss \in SUBSET Staff, NEW d \in Days, NEW timed \in BOOLEAN,
             NEW onDayOff \in BOOLEAN, BulkCreateAttendance(h, ss, d, tier, timed, onDayOff)
      PROVE  WorkforceInv'
  <2> DEFINE passed == {s \in ss \cap InClub : ~OnLeave(s, d) /\ Attends(s, d, timed, onDayOff)}
             Taken(to) == {s \in passed : Recorded(to[s], s, d, tier)}
             F(to) == [m \in {to[s] : s \in Taken(to)} |->
                        [there |-> TRUE, staff |-> CHOOSE s \in Taken(to) : to[s] = m, day |-> d,
                         tier |-> tier]]
  <2>1. \E to \in [passed -> Marks] : Writes(h, F(to))
    BY <1>8, Zenon DEF BulkCreateAttendance
  <2>2. PICK to \in [passed -> Marks] : Writes(h, F(to))
    BY <2>1
  <2> DEFINE T == Taken(to)
  <2>3. T \subseteq passed /\ passed \subseteq Staff
    OBVIOUS
  <2>4. to \in [passed -> Marks]
    OBVIOUS
  <2>5. {to[s] : s \in T} \subseteq Marks
    <3> HIDE DEF T, passed
    <3> QED
      BY <2>3, <2>4
  <2>6. ASSUME NEW m \in {to[s] : s \in T} PROVE (CHOOSE s \in T : to[s] = m) \in Staff
    <3> HIDE DEF T, passed
    <3>1. \E s \in T : to[s] = m
      BY <2>6
    <3> QED
      BY <2>3, <3>1
  <2>7. F(to) = [m \in {to[s] : s \in T} |->
                  [there |-> TRUE, staff |-> CHOOSE s \in T : to[s] = m, day |-> d, tier |-> tier]]
    OBVIOUS
  <2>8. d \in 0..LastDay /\ tier \in 0..3
    BY WorkforceAssumption DEF WorkforceAssumption, Days
  <2> HIDE DEF F, T
  <2>9. DOMAIN F(to) \subseteq Marks
    BY <2>5, <2>7, Zenon
  <2>10. ASSUME NEW m \in DOMAIN F(to)
         PROVE  \E s \in Staff :
                  F(to)[m] = [there |-> TRUE, staff |-> s, day |-> d, tier |-> tier]
    <3>1. m \in {to[s] : s \in T}
      BY <2>7, <2>10, Zenon
    <3>2. F(to)[m] = [there |-> TRUE, staff |-> CHOOSE s \in T : to[s] = m, day |-> d,
                      tier |-> tier]
      BY <2>7, <3>1, Zenon
    <3> QED
      BY <2>6, <3>1, <3>2, Zenon
  <2>11. Rows(F(to), Marks, Mark)
    BY <2>8, <2>9, <2>10, MarkRows, Zenon
  <2> QED
    BY <1>2, <2>2, <2>11
<1> QED
  BY <1>5, <1>6, <1>7, <1>8 DEF AttendanceStep

\* Of the numbers that are free, the first is there if any is.
LEMMA FirstFree ==
  ASSUME WorkforceInv, Free # {}
  PROVE  Nth(1) \in Free
<1>1. Free \in SUBSET Nat
  BY WorkforceAssumption DEF WorkforceAssumption, Free, Shifts
<1>2. PICK x \in Free : \A y \in Free : x <= y
  BY <1>1, Least
<1>3. {y \in Free : y <= x} = {x}
  <2>1. \A y \in Free : y <= x <=> y = x
    BY <1>1, <1>2
  <2> QED
    BY <2>1, Zenon
<1>4. Cardinality({y \in Free : y <= x}) = 1
  BY <1>3, FS_Singleton
<1> QED
  BY <1>4, Zenon DEF Nth

LEMMA ShiftLoads ==
  ASSUME WorkforceInv, Turn, NEW h \in Clerks, ShiftStep(h), office = "shifts", office' = office
  PROVE  WorkforceInv'
<1>1. \A x \in Shifts : shift[x] \in Shift /\ Filed(shift[x])
  BY DEF WorkforceInv, TypesKept, TypeOK
<1>2. ASSUME NEW f, Rows(f, Shifts, Shift), \A x \in DOMAIN f : Filed(f[x]), Places(h, f),
             \A x \in DOMAIN f : f[x].there =>
               shift[x].there \/ (DOMAIN f = {x} /\ ShiftsOn(f[x].staff, f[x].day) = {})
      PROVE  WorkforceInv'
  <2>1. Goes(h, ForShifts(f))
    BY <1>2, Zenon DEF Places, ForShifts
  <2>2. /\ Sensible(ForShifts(f)) /\ AtItsOffice(ForShifts(f)) /\ ForShifts(f).pc = "shifts"
        /\ ForShifts(f).shifts = f
    BY <1>2, ShiftsRequest
  <2>3. FindsRoom(ForShifts(f))
    BY <1>2, <2>2, Zenon DEF FindsRoom
  <2> QED
    BY <2>1, <2>2, <2>3, LoadKeeps
<1>3. ASSUME NEW x \in Shifts, NEW row \in Shift, Filed(row), Places(h, Only(x, row)),
             row.there => shift[x].there \/ ShiftsOn(row.staff, row.day) = {}
      PROVE  WorkforceInv'
  <2> DEFINE f == Only(x, row)
  <2>1. DOMAIN f = {x} /\ f[x] = row
    BY DEF Only
  <2> HIDE DEF f
  <2>2. Rows(f, Shifts, Shift)
    BY <2>1 DEF Rows
  <2>3. Places(h, f)
    BY <1>3 DEF f
  <2> QED
    BY <1>2, <1>3, <2>1, <2>2, <2>3
<1>4. NoShift \in Shift /\ ~NoShift.there
  BY WorkforceAssumption DEF WorkforceAssumption, NoShift, Shift
<1>5. Filed(NoShift)
  BY <1>4 DEF Filed
<1>6. ASSUME NEW d \in Days, NEW hours \in Days
      PROVE  d \in 0..LastDay /\ hours \in -LastDay..2 * LastDay /\ hours - d \in -LastDay..LastDay
  BY WorkforceAssumption DEF WorkforceAssumption, Days
<1>7. ASSUME NEW d \in Days, NEW hours \in Days, NEW off \in BOOLEAN, NEW s \in Staff,
             CreateShift(h, s, d, hours, off)
      PROVE  WorkforceInv'
  <2> DEFINE row == [there |-> TRUE, staff |-> s, day |-> d, hours |-> hours, off |-> off]
  <2>1. Places(h, Only(Nth(1), row)) /\ Free # {} /\ ShiftsOn(s, d) = {}
    BY <1>7, Zenon DEF CreateShift
  <2>2. Nth(1) \in Shifts
    BY <2>1, FirstFree DEF Free
  <2>3. row \in Shift /\ row.staff = s /\ row.day = d
    BY <1>6 DEF Shift
  <2>4. Filed(row)
    BY <1>6 DEF Filed
  <2> HIDE DEF row
  <2> QED
    BY <1>3, <2>1, <2>2, <2>3, <2>4
<1>8. ASSUME NEW d \in Days, NEW hours \in Days, NEW off \in BOOLEAN, NEW x \in Shifts,
             UpdateShift(h, x, d, hours, off)
      PROVE  WorkforceInv'
  <2> DEFINE row == [shift[x] EXCEPT !.day = d, !.hours = hours, !.off = off]
  <2>1. Places(h, Only(x, row)) /\ shift[x].there
    BY <1>8, Zenon DEF UpdateShift
  <2>2. shift[x] \in Shift
    BY <1>1
  <2>3. row \in Shift /\ row.day = d /\ row.hours = hours
    BY <1>6, <2>2 DEF Shift
  <2> HIDE DEF row
  <2>4. Filed(row)
    BY <1>6, <2>3 DEF Filed
  <2> QED
    BY <1>3, <2>1, <2>3, <2>4
<1>9. ASSUME NEW x \in Shifts, DeleteShift(h, x) PROVE WorkforceInv'
  <2>1. Places(h, Only(x, NoShift))
    BY <1>9 DEF DeleteShift
  <2> QED
    BY <1>3, <1>4, <1>5, <2>1
<1>10. ASSUME NEW xs \in SUBSET Shifts, DeleteMultipleShifts(h, xs) PROVE WorkforceInv'
  <2> DEFINE gone == {y \in xs : shift[y].there}
             f == [x \in gone |-> NoShift]
  <2>1. Places(h, f)
    BY <1>10, Zenon DEF DeleteMultipleShifts
  <2>2. gone \subseteq Shifts
    OBVIOUS
  <2> HIDE DEF gone
  <2>3. DOMAIN f \subseteq Shifts /\ \A x \in DOMAIN f : f[x] = NoShift
    BY <2>2
  <2> HIDE DEF f
  <2> QED
    BY <1>2, <1>4, <1>5, <2>1, <2>3 DEF Rows
<1>11. ASSUME NEW x \in Shifts, NEW days \in SUBSET Days, CopyShifts(h, x, days)
       PROVE  WorkforceInv'
  <2> DEFINE f == Only(x, shift[x])
  <2> PICK r : r = [Idle EXCEPT !.pc = "copy", !.shifts = f, !.days = days]
    OBVIOUS
  <2>1. Goes(h, r) /\ shift[x].there
    BY <1>11, Zenon DEF CopyShifts
  <2>2. DOMAIN f = {x} /\ f[x] = shift[x]
    BY DEF Only
  <2> HIDE DEF f
  <2>3. r = [pc |-> "copy", s |-> Idle.s, row |-> Idle.row, l |-> Idle.l, leave |-> Idle.leave,
             marks |-> Idle.marks, shifts |-> f, days |-> days, todo |-> Idle.todo]
    BY DEF Idle
  <2>4. r.pc = "copy" /\ AtItsOffice(r)
    BY <2>3 DEF AtItsOffice
  <2>5. Rows(f, Shifts, Shift)
    BY <1>1, <2>2 DEF Rows
  <2>6. DOMAIN f # {} /\ \A y \in DOMAIN f : Filed(f[y]) /\ f[y].there
    BY <1>1, <2>1, <2>2
  <2>7. Sensible(r)
    BY <2>3, <2>5, <2>6, IdleSensible DEF Sensible, IsRequest
  <2> QED
    BY <2>1, <2>4, <2>7, LoadKeeps
<1> QED
  BY <1>7, <1>8, <1>9, <1>10, <1>11 DEF ShiftStep

\* Policies, templates and the day of the year may change under everything else.
LEMMA RestKeeps ==
  ASSUME WorkforceInv, today' \in Days, policy' \in [Roles -> Quotas \cup {0}],
         template' \in [Staff -> Template], UNCHANGED <<staff, logins, leave, mark, shift, req, office>>
  PROVE  WorkforceInv'
<1>1. TypesKept'
  BY DEF WorkforceInv, TypesKept, TypeOK, Sensible, IsRequest, Rows, Filed
<1>2. StaffEmailsApart' /\ (\A h \in Clerks : AtItsOffice(req[h]))' /\ OneUnderWay'
  BY DEF WorkforceInv, StaffEmailsApart, InClub, EmailTaken, AtItsOffice, OneUnderWay, At
<1>3. LeavesKept'
  BY DEF WorkforceInv, LeavesKept, PendingLeavesApart, At, KeepsClear
<1>4. ShiftsKept'
  BY DEF WorkforceInv, ShiftsKept, At, FindsRoom, ShiftsOn
<1> QED
  BY <1>1, <1>2, <1>3, <1>4 DEF WorkforceInv

LEMMA PolicySteps ==
  ASSUME WorkforceInv, NEW s \in Focus, PolicyOf(s), office' = office
  PROVE  WorkforceInv'
<1>1. RoleOf(s) \in Roles
  BY DEF RoleOf, Roles
<1>2. ASSUME NEW n \in Quotas \cup {0}, SetPolicy(RoleOf(s), n) PROVE WorkforceInv'
  <2>1. policy' = [policy EXCEPT ![RoleOf(s)] = n]
        /\ UNCHANGED <<today, staff, logins, leave, mark, shift, template, req>>
    BY <1>2 DEF SetPolicy
  <2>2. today \in Days /\ policy \in [Roles -> Quotas \cup {0}] /\ template \in [Staff -> Template]
    BY DEF WorkforceInv, TypesKept, TypeOK
  <2> QED
    BY <1>1, <2>1, <2>2, RestKeeps
<1> QED
  BY <1>2 DEF PolicyOf, CreateLeavePolicy, UpdateLeavePolicy, DeleteLeavePolicy

LEMMA DayPasses ==
  ASSUME WorkforceInv, NextDay, office' = office
  PROVE  WorkforceInv'
<1>1. today \in Days /\ policy \in [Roles -> Quotas \cup {0}] /\ template \in [Staff -> Template]
  BY DEF WorkforceInv, TypesKept, TypeOK
<1>2. today' \in Days
  BY <1>1, WorkforceAssumption DEF WorkforceAssumption, NextDay, Days
<1> QED
  BY <1>1, <1>2, RestKeeps DEF NextDay

LEMMA TemplateSteps ==
  ASSUME WorkforceInv, NEW s \in Staff, NEW active \in BOOLEAN, NEW off \in {{}, OffDays},
         \/ CreateOrUpdateTemplate(s, active, off) \/ UpdateTemplate(s, active, off)
         \/ DeleteTemplate(s),
         office' = office
  PROVE  WorkforceInv'
<1>1. ASSUME NEW row \in Template, SetTemplate(s, row) PROVE WorkforceInv'
  <2>1. template' = [template EXCEPT ![s] = row]
        /\ UNCHANGED <<today, staff, logins, policy, leave, mark, shift, req>>
    BY <1>1 DEF SetTemplate
  <2>2. today \in Days /\ policy \in [Roles -> Quotas \cup {0}] /\ template \in [Staff -> Template]
    BY DEF WorkforceInv, TypesKept, TypeOK
  <2> QED
    BY <2>1, <2>2, RestKeeps
<1>2. NoTemplate \in Template /\ [there |-> TRUE, active |-> active, off |-> off] \in Template
  BY WorkforceAssumption DEF WorkforceAssumption, NoTemplate, Template, Days
<1> QED
  BY <1>1, <1>2 DEF CreateOrUpdateTemplate, UpdateTemplate, DeleteTemplate

-----------------------------------------------------------------------------
(* What requests write.                                                    *)

\* Where requests take turns, the others are idle.
LEMMA OthersIdle ==
  ASSUME WorkforceInv, NEW h \in Clerks, Turn \/ ~At(h, "idle"), office \notin Racing
  PROVE  \A g \in Clerks \ {h} : req[g].pc = "idle"
BY DEF WorkforceInv, OneUnderWay, Turn, At

\* A write keeps what it is about, and the request goes on to something else
\* than a leave application or a set of shifts that were checked before.
LEMMA WriteKeeps ==
  ASSUME WorkforceInv, NEW h \in Clerks, Turn \/ ~At(h, "idle"), office' = office,
         NEW q, Sensible(q), AtItsOffice(q), q.pc \notin {"leave", "shifts"}, Becomes(h, q),
         today' = today, policy' = policy, logins' \subseteq Staff,
         staff' \in [Staff -> Member], StaffEmailsApart',
         leave' \in [Leaves -> Leave],
         (office \in {"leave", "attendance"} => office \notin Racing) => PendingLeavesApart',
         mark' \in [Marks -> Mark],
         shift' \in [Shifts -> Shift], \A x \in Shifts : Filed(shift'[x]),
         template' \in [Staff -> Template]
  PROVE  WorkforceInv'
<1>1. /\ DOMAIN req' = Clerks /\ req'[h] = q /\ \A g \in Clerks \ {h} : req'[g] = req[g]
  BY DEF WorkforceInv, TypesKept, Becomes
<1>2. TypesKept'
  <2>1. \A g \in Clerks : Sensible(req'[g])
    BY <1>1 DEF WorkforceInv, TypesKept
  <2>2. \A g \in Clerks : IsRequest(req'[g])
    BY <2>1 DEF Sensible
  <2>3. today \in Days /\ policy \in [Roles -> Quotas \cup {0}]
    BY DEF WorkforceInv, TypesKept, TypeOK
  <2>4. TypeOK'
    BY <2>2, <2>3 DEF TypeOK, IsRequest, Rows
  <2>5. (\A g \in Clerks : Sensible(req[g]))'
    BY <2>1 DEF Sensible, IsRequest, Rows, Filed
  <2> QED
    BY <1>1, <2>4, <2>5 DEF TypesKept, Filed
<1>3. (\A g \in Clerks : AtItsOffice(req[g]))'
  BY <1>1 DEF WorkforceInv, AtItsOffice
<1>4. office \notin Racing => \A g \in Clerks \ {h} : req'[g].pc = "idle"
  BY <1>1, OthersIdle
<1>5. OneUnderWay'
  BY <1>4 DEF OneUnderWay, At
<1>6. LeavesKept'
  <2>1. ASSUME NEW g \in Clerks, office \in {"leave", "attendance"} => office \notin Racing
        PROVE  req'[g].pc # "leave"
    <3>1. CASE office \in {"leave", "attendance"}
      BY <1>1, <1>4, <2>1, <3>1
    <3>2. CASE office \notin {"leave", "attendance"}
      BY <1>3, <3>2 DEF AtItsOffice
    <3> QED
      BY <3>1, <3>2
  <2> QED
    BY <2>1 DEF LeavesKept, At
<1>7. ShiftsKept'
  <2>1. ASSUME NEW g \in Clerks, office = "shifts" => office \notin Racing
        PROVE  req'[g].pc # "shifts"
    <3>1. CASE office = "shifts"
      BY <1>1, <1>4, <2>1, <3>1
    <3>2. CASE office # "shifts"
      BY <1>3, <3>2 DEF AtItsOffice
    <3> QED
      BY <3>1, <3>2
  <2> QED
    BY <2>1 DEF ShiftsKept, At
<1> QED
  BY <1>2, <1>3, <1>5, <1>6, <1>7 DEF WorkforceInv

LEMMA IdleDone == Sensible(Idle) /\ AtItsOffice(Idle) /\ Idle.pc \notin {"leave", "shifts"}
BY IdleSensible DEF AtItsOffice

\* What the rows are, and that those a request leaves alone are as they should be.
LEMMA RowTypes ==
  ASSUME WorkforceInv
  PROVE  /\ logins \subseteq Staff /\ staff \in [Staff -> Member] /\ leave \in [Leaves -> Leave]
         /\ mark \in [Marks -> Mark] /\ shift \in [Shifts -> Shift] /\ template \in [Staff -> Template]
         /\ \A x \in Shifts : Filed(shift[x])
         /\ \A h \in Clerks : Sensible(req[h]) /\ AtItsOffice(req[h])
         /\ (leave' = leave =>
              ((office \in {"leave", "attendance"} => office \notin Racing) => PendingLeavesApart'))
         /\ staff' = staff => StaffEmailsApart'
<1>1. leave' = leave => (PendingLeavesApart' <=> PendingLeavesApart)
  BY DEF PendingLeavesApart
<1>2. staff' = staff => StaffEmailsApart'
  BY DEF WorkforceInv, StaffEmailsApart, InClub, EmailTaken
<1> QED
  BY <1>1, <1>2 DEF WorkforceInv, TypesKept, TypeOK, LeavesKept

\* The index keeps the addresses apart whatever row is written.
LEMMA IndexKeeps ==
  ASSUME WorkforceInv, NEW s, NEW row, ~Clash(s, row), staff' = [staff EXCEPT ![s] = row]
  PROVE  StaffEmailsApart'
<1>1. staff \in [Staff -> Member]
  BY RowTypes
<1>2. CASE s \notin Staff
  <2>1. staff' = staff
    BY <1>1, <1>2
  <2> QED
    BY <2>1, RowTypes
<1>3. CASE s \in Staff
  <2>1. staff'[s] = row /\ \A t \in Staff \ {s} : staff'[t] = staff[t]
    BY <1>1, <1>3
  <2>2. \A t \in Staff \ {s} : staff[t].there => ~(row.email # "none" /\ staff[t].email = row.email)
    BY DEF Clash, EmailTaken, InClub
  <2>3. \A t, u \in Staff : t # u /\ staff[t].there /\ staff[u].there /\ staff[t].email # "none"
                            => staff[u].email # staff[t].email
    BY DEF WorkforceInv, StaffEmailsApart, InClub, EmailTaken
  <2>4. ASSUME NEW t \in Staff, NEW u \in Staff, t # u, staff'[t].there, staff'[u].there,
               staff'[t].email # "none"
        PROVE  staff'[u].email # staff'[t].email
    BY <1>3, <2>1, <2>2, <2>3, <2>4
  <2> QED
    BY <2>4 DEF StaffEmailsApart, InClub, EmailTaken
<1> QED
  BY <1>2, <1>3

LEMMA StaffWrites ==
  ASSUME WorkforceInv, NEW h \in Clerks, office' = office,
         \/ InsertStaff(h) \/ SaveStaff(h) \/ \E kept \in BOOLEAN : RemoveStaff(h, kept)
         \/ \E fails \in BOOLEAN : GiveAccount(h, fails)
  PROVE  WorkforceInv'
<1> DEFINE r == req[h]
<1>1. r.row \in Member /\ Sensible(r) /\ r.s \in Staff \cup {"none"}
  BY RowTypes DEF Sensible, IsRequest
<1>2. CASE InsertStaff(h)
  <2>1. At(h, "hire") /\ UNCHANGED <<today, logins, policy, leave, mark, shift, template>>
    BY <1>2 DEF InsertStaff
  <2>2. CASE Clash(r.s, r.row)
    <3>1. Becomes(h, Idle) /\ staff' = staff
      BY <1>2, <2>2, Zenon DEF InsertStaff, Done
    <3> QED
      BY <2>1, <3>1, IdleDone, RowTypes, WriteKeeps DEF At
  <2>3. CASE ~Clash(r.s, r.row)
    <3> DEFINE q == [r EXCEPT !.pc = "account"]
    <3>1. Becomes(h, q) /\ staff' = [staff EXCEPT ![r.s] = r.row]
      BY <1>2, <2>3, Zenon DEF InsertStaff
    <3>2. q = [pc |-> "account", s |-> r.s, row |-> r.row, l |-> r.l, leave |-> r.leave,
               marks |-> r.marks, shifts |-> r.shifts, days |-> r.days, todo |-> r.todo]
      BY <1>1 DEF Sensible
    <3> HIDE DEF q
    <3>3. q.pc = "account" /\ Sensible(q) /\ AtItsOffice(q)
      BY <1>1, <2>1, <3>2 DEF At, Sensible, IsRequest, AtItsOffice
    <3>4. StaffEmailsApart'
      BY <2>3, <3>1, IndexKeeps
    <3>5. staff' \in [Staff -> Member]
      BY <1>1, <3>1, RowTypes
    <3> QED
      BY <2>1, <3>1, <3>3, <3>4, <3>5, RowTypes, WriteKeeps DEF At
  <2> QED
    BY <2>2, <2>3
<1>3. CASE SaveStaff(h)
  <2>1. /\ At(h, "staff") /\ Becomes(h, Idle)
        /\ UNCHANGED <<today, logins, policy, leave, mark, shift, template>>
    BY <1>3 DEF SaveStaff, Done
  <2>2. CASE Clash(r.s, r.row)
    <3>1. staff' = staff
      BY <1>3, <2>2, Zenon DEF SaveStaff
    <3> QED
      BY <2>1, <3>1, IdleDone, RowTypes, WriteKeeps DEF At
  <2>3. CASE ~Clash(r.s, r.row)
    <3>1. staff' = [staff EXCEPT ![r.s] = r.row]
      BY <1>3, <2>3, Zenon DEF SaveStaff
    <3>2. StaffEmailsApart'
      BY <2>3, <3>1, IndexKeeps
    <3>3. staff' \in [Staff -> Member]
      BY <1>1, <3>1, RowTypes
    <3> QED
      BY <2>1, <3>2, <3>3, IdleDone, RowTypes, WriteKeeps DEF At
  <2> QED
    BY <2>2, <2>3
<1>4. ASSUME NEW kept \in BOOLEAN, RemoveStaff(h, kept) PROVE WorkforceInv'
  <2>1. /\ At(h, "remove") /\ Becomes(h, Idle) /\ UNCHANGED <<today, logins, policy, leave>>
        /\ \/ UNCHANGED <<staff, mark, shift, template>>
           \/ /\ staff' = [staff EXCEPT ![r.s] = NoMember]
              /\ mark' = [m \in Marks |-> IF mark[m].staff = r.s THEN NoMark ELSE mark[m]]
              /\ shift' = [x \in Shifts |-> IF shift[x].staff = r.s THEN NoShift ELSE shift[x]]
              /\ template' = [template EXCEPT ![r.s] = NoTemplate]
    BY <1>4, Zenon DEF RemoveStaff, Done
  <2>2. CASE UNCHANGED <<staff, mark, shift, template>>
    BY <2>1, <2>2, IdleDone, RowTypes, WriteKeeps DEF At
  <2>3. CASE /\ staff' = [staff EXCEPT ![r.s] = NoMember]
             /\ mark' = [m \in Marks |-> IF mark[m].staff = r.s THEN NoMark ELSE mark[m]]
             /\ shift' = [x \in Shifts |-> IF shift[x].staff = r.s THEN NoShift ELSE shift[x]]
             /\ template' = [template EXCEPT ![r.s] = NoTemplate]
    <3>1. NoMember \in Member /\ NoMember.email = "none" /\ NoMark \in Mark /\ NoTemplate \in Template
      BY WorkforceAssumption
      DEF WorkforceAssumption, NoMember, Member, NoMark, Mark, NoTemplate, Template
    <3>2. NoShift \in Shift /\ Filed(NoShift)
      BY WorkforceAssumption DEF WorkforceAssumption, NoShift, Shift, Filed
    <3>3. ~Clash(r.s, NoMember)
      BY <3>1 DEF Clash, EmailTaken
    <3>4. StaffEmailsApart'
      BY <2>3, <3>3, IndexKeeps
    <3>5. staff' \in [Staff -> Member] /\ template' \in [Staff -> Template]
      BY <2>3, <3>1, RowTypes
    <3>6. mark' \in [Marks -> Mark]
      BY <2>3, <3>1, RowTypes
    <3>7. shift' \in [Shifts -> Shift] /\ \A x \in Shifts : Filed(shift'[x])
      BY <2>3, <3>2, RowTypes
    <3> QED
      BY <2>1, <3>4, <3>5, <3>6, <3>7, IdleDone, RowTypes, WriteKeeps DEF At
  <2> QED
    BY <2>1, <2>2, <2>3
<1>5. ASSUME NEW fails \in BOOLEAN, GiveAccount(h, fails) PROVE WorkforceInv'
  <2>1. /\ At(h, "account") /\ Becomes(h, Idle)
        /\ UNCHANGED <<today, staff, policy, leave, mark, shift, template>>
        /\ logins' = IF fails THEN logins ELSE logins \cup {r.s}
    BY <1>5 DEF GiveAccount, Done
  <2>2. r.s \in Staff
    BY <1>1, <2>1 DEF At, Sensible
  <2>3. logins' \subseteq Staff
    BY <2>1, <2>2, RowTypes
  <2> QED
    BY <2>1, <2>3, IdleDone, RowTypes, WriteKeeps DEF At
<1> QED
  BY <1>2, <1>3, <1>4, <1>5

LEMMA LeaveWrites ==
  ASSUME WorkforceInv, NEW h \in Clerks, SaveLeave(h), office' = office
  PROVE  WorkforceInv'
<1> DEFINE r == req[h]
<1>1. r.leave \in Leave /\ AtItsOffice(r)
  BY RowTypes DEF Sensible, IsRequest
<1>2. /\ At(h, "leave") /\ Becomes(h, Idle) /\ leave' = [leave EXCEPT ![r.l] = r.leave]
      /\ UNCHANGED <<today, staff, logins, policy, mark, shift, template>>
  BY Zenon DEF SaveLeave, Done
<1>3. leave \in [Leaves -> Leave]
  BY RowTypes
<1>4. leave' \in [Leaves -> Leave]
  BY <1>1, <1>2, <1>3
<1>5. ASSUME office \in {"leave", "attendance"} => office \notin Racing
      PROVE  PendingLeavesApart'
  <2>1. PendingLeavesApart /\ KeepsClear(r)
    BY <1>2, <1>5 DEF WorkforceInv, LeavesKept
  <2>2. CASE r.l \notin Leaves
    <3>1. leave' = leave
      BY <1>2, <1>3, <2>2
    <3> QED
      BY <2>1, <3>1 DEF PendingLeavesApart
  <2>3. CASE r.l \in Leaves
    <3>1. leave'[r.l] = r.leave /\ \A k \in Leaves \ {r.l} : leave'[k] = leave[k]
      BY <1>2, <1>3, <2>3
    <3>2. ASSUME NEW k \in Leaves, NEW l \in Leaves, k # l, leave'[k].status = "pending",
                 leave'[l].status = "pending", leave'[k].staff = leave'[l].staff
          PROVE  leave'[k].to < leave'[l].from \/ leave'[l].to < leave'[k].from
      <4>1. CASE k = r.l
        BY <2>1, <3>1, <3>2, <4>1 DEF KeepsClear
      <4>2. CASE l = r.l
        BY <2>1, <3>1, <3>2, <4>2 DEF KeepsClear
      <4>3. CASE k # r.l /\ l # r.l
        BY <2>1, <3>1, <3>2, <4>3 DEF PendingLeavesApart
      <4> QED
        BY <4>1, <4>2, <4>3
    <3> QED
      BY <3>2 DEF PendingLeavesApart
  <2> QED
    BY <2>2, <2>3
<1> QED
  BY <1>2, <1>4, <1>5, IdleDone, RowTypes, WriteKeeps DEF At

LEMMA MarkWrites ==
  ASSUME WorkforceInv, NEW h \in Clerks, SaveMarks(h), office' = office
  PROVE  WorkforceInv'
<1> DEFINE f == req[h].marks
<1>1. Rows(f, Marks, Mark)
  BY RowTypes DEF Sensible, IsRequest
<1>2. /\ At(h, "marks") /\ Becomes(h, Idle)
      /\ mark' = [m \in Marks |-> IF m \in DOMAIN f THEN f[m] ELSE mark[m]]
      /\ UNCHANGED <<today, staff, logins, policy, leave, shift, template>>
  BY Zenon DEF SaveMarks, Done
<1>3. mark' \in [Marks -> Mark]
  BY <1>1, <1>2, RowTypes DEF Rows
<1> QED
  BY <1>2, <1>3, IdleDone, RowTypes, WriteKeeps DEF At

\* A request that copies or generates goes on with less to do, or is done.
LEMMA GoesOn ==
  ASSUME NEW r, Sensible(r), AtItsOffice(r), NEW q,
         \/ q = [r EXCEPT !.days = @ \ {r.s}]
         \/ \E d : q = [r EXCEPT !.days = @ \ {d}]
         \/ \E s : q = [r EXCEPT !.todo = @ \ {s}],
         r.pc \in {"copy", "generate"}
  PROVE  Sensible(q) /\ AtItsOffice(q) /\ q.pc \notin {"leave", "shifts"}
<1>1. PICK days \in SUBSET r.days, todo \in SUBSET r.todo :
        q = [pc |-> r.pc, s |-> r.s, row |-> r.row, l |-> r.l, leave |-> r.leave,
             marks |-> r.marks, shifts |-> r.shifts, days |-> days, todo |-> todo]
  <2>1. r = [pc |-> r.pc, s |-> r.s, row |-> r.row, l |-> r.l, leave |-> r.leave,
             marks |-> r.marks, shifts |-> r.shifts, days |-> r.days, todo |-> r.todo]
    BY DEF Sensible
  <2> QED
    BY <2>1
<1>2. Sensible(q)
  BY <1>1 DEF Sensible, IsRequest
<1> QED
  BY <1>1, <1>2 DEF AtItsOffice

LEMMA ShiftWrites ==
  ASSUME WorkforceInv, NEW h \in Clerks, office' = office,
         \/ SaveShifts(h) \/ \E d \in Days : CopyShift(h, d)
         \/ \E s \in Staff : GenerateShiftsForStaff(h, s)
  PROVE  WorkforceInv'
<1> DEFINE r == req[h]
<1>1. Sensible(r) /\ AtItsOffice(r) /\ shift \in [Shifts -> Shift] /\ \A x \in Shifts : Filed(shift[x])
  BY RowTypes
<1>2. CASE SaveShifts(h)
  <2>1. /\ At(h, "shifts") /\ Becomes(h, Idle)
        /\ shift' = [x \in Shifts |-> IF x \in DOMAIN r.shifts THEN r.shifts[x] ELSE shift[x]]
        /\ UNCHANGED <<today, staff, logins, policy, leave, mark, template>>
    BY <1>2, Zenon DEF SaveShifts, Done
  <2>2. Rows(r.shifts, Shifts, Shift) /\ \A x \in DOMAIN r.shifts : Filed(r.shifts[x])
    BY <1>1 DEF Sensible, IsRequest
  <2>3. shift' \in [Shifts -> Shift] /\ \A x \in Shifts : Filed(shift'[x])
    BY <1>1, <2>1, <2>2 DEF Rows
  <2> QED
    BY <2>1, <2>3, IdleDone, RowTypes, WriteKeeps DEF At
<1>3. ASSUME NEW d \in Days, CopyShift(h, d) PROVE WorkforceInv'
  <2> DEFINE source == r.shifts[CHOOSE x \in DOMAIN r.shifts : TRUE]
             copy == [source EXCEPT !.day = d, !.hours = @ + d - source.day]
  <2>1. At(h, "copy") /\ UNCHANGED <<today, staff, logins, policy, leave, mark, template>>
    BY <1>3 DEF CopyShift
  <2>2. shift' = shift \/ shift' = [shift EXCEPT ![Nth(1)] = copy]
    BY <1>3, Zenon DEF CopyShift
  <2>3. Becomes(h, Idle) \/ Becomes(h, [r EXCEPT !.days = @ \ {d}])
    BY <1>3, Zenon DEF CopyShift, Done
  <2>4. source \in Shift /\ source.there /\ Filed(source)
    BY <1>1, <2>1 DEF At, Sensible, IsRequest, Rows
  <2>5. copy \in Shift /\ Filed(copy)
    <3>1. source.hours \in Int /\ source.day \in Int /\ d \in 1..LastDay /\ LastDay \in Nat
      BY <2>4, WorkforceAssumption DEF WorkforceAssumption, Shift, Days
    <3>2. source.hours - source.day \in -LastDay..LastDay
      BY <2>4 DEF Filed
    <3>3. PICK n : n = source.hours + d - source.day
      OBVIOUS
    <3>4. copy = [source EXCEPT !.day = d, !.hours = n]
      BY <3>3
    <3> HIDE DEF source, copy
    <3>5. n \in -LastDay..2 * LastDay /\ n - d \in -LastDay..LastDay
      BY <3>1, <3>2, <3>3
    <3>6. copy \in Shift /\ copy.day = d /\ copy.hours = n
      <4>1. d \in 0..LastDay
        BY <3>1
      <4>2. copy = [there |-> source.there, staff |-> source.staff, day |-> d, hours |-> n,
                    off |-> source.off]
        BY <2>4, <3>4 DEF Shift
      <4>3. source.there \in BOOLEAN /\ source.staff \in Staff \cup {"none"} /\ source.off \in BOOLEAN
        BY <2>4 DEF Shift
      <4> QED
        BY <3>5, <4>1, <4>2, <4>3, Zenon DEF Shift
    <3> QED
      BY <3>5, <3>6 DEF Filed
  <2> HIDE DEF copy
  <2>6. shift' \in [Shifts -> Shift] /\ \A x \in Shifts : Filed(shift'[x])
    BY <1>1, <2>2, <2>5
  <2>7. PICK q : Becomes(h, q) /\ (q = Idle \/ q = [r EXCEPT !.days = @ \ {d}])
    BY <2>3
  <2>8. Sensible(q) /\ AtItsOffice(q) /\ q.pc \notin {"leave", "shifts"}
    <3>1. CASE q = Idle
      BY <3>1, IdleDone
    <3>2. CASE q = [r EXCEPT !.days = @ \ {d}]
      <4>1. r.pc = "copy"
        BY <2>1 DEF At
      <4> HIDE DEF r
      <4> QED
        BY <1>1, <3>2, <4>1, GoesOn
    <3> QED
      BY <2>7, <3>1, <3>2
  <2> QED
    BY <2>1, <2>6, <2>7, <2>8, RowTypes, WriteKeeps, SMTT(30) DEF At
<1>4. ASSUME NEW s \in Staff, GenerateShiftsForStaff(h, s) PROVE WorkforceInv'
  <2> DEFINE open == Open(s, r.days)
             nr(d) == Nth(Cardinality({e \in open : e <= d}))
             DayOf(x) == CHOOSE e \in open : x = nr(e)
  <2>1. At(h, "generate") /\ UNCHANGED <<today, staff, logins, policy, leave, mark, template>>
    BY <1>4, Zenon DEF GenerateShiftsForStaff
  <2>2. \/ shift' = shift
        \/ shift' = [x \in Shifts |->
             IF \E d \in open : x = nr(d)
             THEN [there |-> TRUE, staff |-> s, day |-> DayOf(x), hours |-> DayOf(x),
                   off |-> DayOf(x) \in template[s].off]
             ELSE shift[x]]
    BY <1>4, Zenon DEF GenerateShiftsForStaff
  <2>3. Becomes(h, Idle) \/ Becomes(h, [r EXCEPT !.todo = @ \ {s}])
    BY <1>4, Zenon DEF GenerateShiftsForStaff, Done
  <2>4. open \subseteq Days
    BY <1>1 DEF Sensible, IsRequest, Open
  <2>5. ASSUME NEW x \in Shifts, \E d \in open : x = nr(d) PROVE DayOf(x) \in Days
    <3> HIDE DEF open, nr
    <3> QED
      BY <2>4, <2>5
  <2>6. ASSUME NEW d \in Days, NEW b \in BOOLEAN,
               NEW row, row = [there |-> TRUE, staff |-> s, day |-> d, hours |-> d, off |-> b]
        PROVE  row \in Shift /\ Filed(row)
    BY <2>6, WorkforceAssumption DEF WorkforceAssumption, Shift, Filed, Days
  <2> HIDE DEF open, nr, DayOf
  <2>7. shift' \in [Shifts -> Shift] /\ \A x \in Shifts : Filed(shift'[x])
    <3>1. CASE shift' = shift
      BY <1>1, <3>1
    <3>2. CASE shift' = [x \in Shifts |->
             IF \E d \in open : x = nr(d)
             THEN [there |-> TRUE, staff |-> s, day |-> DayOf(x), hours |-> DayOf(x),
                   off |-> DayOf(x) \in template[s].off]
             ELSE shift[x]]
      <4>1. ASSUME NEW x \in Shifts PROVE shift'[x] \in Shift /\ Filed(shift'[x])
        <5>1. CASE \E d \in open : x = nr(d)
          <6>1. shift'[x] = [there |-> TRUE, staff |-> s, day |-> DayOf(x), hours |-> DayOf(x),
                             off |-> DayOf(x) \in template[s].off]
            BY <3>2, <5>1
          <6>2. DayOf(x) \in Days /\ (DayOf(x) \in template[s].off) \in BOOLEAN
            BY <2>5, <5>1
          <6> QED
            BY <2>6, <6>1, <6>2
        <5>2. CASE ~\E d \in open : x = nr(d)
          BY <1>1, <3>2, <5>2
        <5> QED
          BY <5>1, <5>2
      <4> QED
        BY <3>2, <4>1
    <3> QED
      BY <2>2, <3>1, <3>2
  <2>8. PICK q : Becomes(h, q) /\ (q = Idle \/ q = [r EXCEPT !.todo = @ \ {s}])
    BY <2>3
  <2>9. Sensible(q) /\ AtItsOffice(q) /\ q.pc \notin {"leave", "shifts"}
    <3>1. CASE q = Idle
      BY <3>1, IdleDone
    <3>2. CASE q = [r EXCEPT !.todo = @ \ {s}]
      <4>1. r.pc = "generate"
        BY <2>1 DEF At
      <4> HIDE DEF r
      <4> QED
        BY <1>1, <3>2, <4>1, GoesOn
    <3> QED
      BY <2>8, <3>1, <3>2
  <2> QED
    BY <2>1, <2>7, <2>8, <2>9, RowTypes, WriteKeeps DEF At
<1> QED
  BY <1>2, <1>3, <1>4

\* Generating a roster drops shifts where it begins.
LEMMA RosterLoads ==
  ASSUME WorkforceInv, Turn, NEW h \in Clerks, RosterStep(h), office = "shifts", office' = office
  PROVE  WorkforceInv'
<1>1. ASSUME NEW days \in SUBSET Days, NEW overwrite \in BOOLEAN, GenerateRoster(h, days, overwrite)
      PROVE  WorkforceInv'
  <2> DEFINE planned == {s \in Staff : template[s].active}
  <2> PICK q : q = [Idle EXCEPT !.pc = "generate", !.days = days, !.todo = planned]
    OBVIOUS
  <2>1. /\ Becomes(h, q) /\ UNCHANGED <<today, staff, logins, policy, leave, mark, template>>
        /\ shift' = [x \in Shifts |->
             IF overwrite /\ shift[x].day \in days THEN NoShift ELSE shift[x]]
    BY <1>1, Zenon DEF GenerateRoster
  <2>2. planned \subseteq Staff
    OBVIOUS
  <2> HIDE DEF planned
  <2>3. q = [pc |-> "generate", s |-> Idle.s, row |-> Idle.row, l |-> Idle.l, leave |-> Idle.leave,
             marks |-> Idle.marks, shifts |-> Idle.shifts, days |-> days, todo |-> planned]
    BY DEF Idle
  <2>4. Sensible(q) /\ AtItsOffice(q) /\ q.pc \notin {"leave", "shifts"}
    BY <2>2, <2>3, IdleSensible, ZenonT(30) DEF Sensible, IsRequest, AtItsOffice
  <2>5. NoShift \in Shift /\ Filed(NoShift)
    BY WorkforceAssumption DEF WorkforceAssumption, NoShift, Shift, Filed
  <2>6. shift' \in [Shifts -> Shift] /\ \A x \in Shifts : Filed(shift'[x])
    BY <2>1, <2>5, RowTypes
  <2> QED
    BY <2>1, <2>4, <2>6, RowTypes, WriteKeeps
<1> QED
  BY <1>1, TemplateSteps DEF RosterStep

-----------------------------------------------------------------------------
(* Shifts that are added.                                                  *)

\* What is added falls on a day its staff member has no shift on.
LandsApart ==
  \A x, y \in Shifts :
    x # y /\ ~shift[x].there /\ shift'[x].there /\ shift'[y].there
    => shift'[x].staff # shift'[y].staff \/ shift'[x].day # shift'[y].day

\* Where nothing is added, and where one shift is added on a day that is free.
LEMMA NothingLands ==
  ASSUME \A x \in Shifts : shift'[x].there => shift[x].there
  PROVE  LandsApart
BY DEF LandsApart

LEMMA OneLands ==
  ASSUME NEW x \in Shifts, \A y \in Shifts \ {x} : shift'[y] = shift[y],
         ShiftsOn(shift'[x].staff, shift'[x].day) = {}
  PROVE  LandsApart
BY DEF LandsApart, ShiftsOn

LEMMA SavedLand ==
  ASSUME WorkforceInv, "shifts" \notin Racing, NEW h \in Clerks, SaveShifts(h)
  PROVE  LandsApart
<1> DEFINE f == req[h].shifts
<1>1. /\ At(h, "shifts")
      /\ shift' = [x \in Shifts |-> IF x \in DOMAIN f THEN f[x] ELSE shift[x]]
  BY Zenon DEF SaveShifts
<1>2. office = "shifts" => office \notin Racing
  OBVIOUS
<1>3. \A x \in DOMAIN f : f[x].there =>
        shift[x].there \/ (DOMAIN f = {x} /\ ShiftsOn(f[x].staff, f[x].day) = {})
  BY <1>1, <1>2 DEF WorkforceInv, ShiftsKept, FindsRoom
<1>4. CASE \A x \in Shifts : shift'[x].there => shift[x].there
  BY <1>4, NothingLands
<1>5. CASE ~\A x \in Shifts : shift'[x].there => shift[x].there
  <2>1. PICK x \in Shifts : shift'[x].there /\ ~shift[x].there
    BY <1>5
  <2>2. x \in DOMAIN f /\ shift'[x] = f[x]
    BY <1>1, <2>1
  <2>3. DOMAIN f = {x} /\ ShiftsOn(shift'[x].staff, shift'[x].day) = {}
    BY <1>3, <2>1, <2>2
  <2>4. \A y \in Shifts \ {x} : shift'[y] = shift[y]
    BY <1>1, <2>3
  <2> QED
    BY <2>3, <2>4, OneLands
<1> QED
  BY <1>4, <1>5

LEMMA CopiesLand ==
  ASSUME WorkforceInv, NEW h \in Clerks, NEW d \in Days, CopyShift(h, d)
  PROVE  LandsApart
<1> DEFINE r == req[h]
           source == r.shifts[CHOOSE x \in DOMAIN r.shifts : TRUE]
           copy == [source EXCEPT !.day = d, !.hours = @ + d - source.day]
<1>1. CASE shift' = shift
  BY <1>1, NothingLands
<1>2. CASE shift' # shift
  <2>1. At(h, "copy") /\ ~(OnLeave(source.staff, d) \/ ShiftsOn(source.staff, d) # {} \/ Free = {})
        /\ shift' = [shift EXCEPT ![Nth(1)] = copy]
    BY <1>2, Zenon DEF CopyShift
  <2>2. Nth(1) \in Shifts
    BY <2>1, FirstFree DEF Free
  <2>3. source \in Shift
    BY <2>1, RowTypes DEF At, Sensible, IsRequest, Rows
  <2>4. copy.staff = source.staff /\ copy.day = d
    <3> HIDE DEF source
    <3> QED
      BY <2>3 DEF Shift
  <2> HIDE DEF copy, source
  <2>5. shift'[Nth(1)] = copy /\ \A y \in Shifts \ {Nth(1)} : shift'[y] = shift[y]
    BY <2>1, <2>2, RowTypes
  <2> QED
    BY <2>1, <2>2, <2>4, <2>5, OneLands
<1> QED
  BY <1>1, <1>2

\* Of one staff member's open days, each is given one number, so that two of
\* the shifts generated for him are on different days.
LEMMA GeneratedLand ==
  ASSUME WorkforceInv, NEW h \in Clerks, NEW s \in Staff, GenerateShiftsForStaff(h, s)
  PROVE  LandsApart
<1> DEFINE open == Open(s, req[h].days)
           nr(d) == Nth(Cardinality({e \in open : e <= d}))
           DayOf(x) == CHOOSE e \in open : x = nr(e)
<1>1. CASE shift' = shift
  BY <1>1, NothingLands
<1>2. CASE shift' # shift
  <2>1. shift' = [x \in Shifts |->
             IF \E d \in open : x = nr(d)
             THEN [there |-> TRUE, staff |-> s, day |-> DayOf(x), hours |-> DayOf(x),
                   off |-> DayOf(x) \in template[s].off]
             ELSE shift[x]]
    BY <1>2, Zenon DEF GenerateShiftsForStaff
  <2>2. \A d \in open : ShiftsOn(s, d) = {}
    BY DEF Open
  <2>3. ASSUME NEW x \in Shifts, \E d \in open : x = nr(d)
        PROVE  DayOf(x) \in open /\ x = nr(DayOf(x))
    <3> HIDE DEF open, nr
    <3> QED
      BY <2>3
  <2>4. ASSUME NEW x \in Shifts, NEW y \in Shifts, x # y, ~shift[x].there, shift'[x].there,
               shift'[y].there
        PROVE  shift'[x].staff # shift'[y].staff \/ shift'[x].day # shift'[y].day
    <3> HIDE DEF open, nr, DayOf
    <3>1. \E d \in open : x = nr(d)
      BY <2>1, <2>4
    <3>2. shift'[x].staff = s /\ shift'[x].day = DayOf(x)
      BY <2>1, <3>1
    <3>3. CASE \E d \in open : y = nr(d)
      <4>1. shift'[y].day = DayOf(y)
        BY <2>1, <3>3
      <4>2. DayOf(x) # DayOf(y)
        BY <2>3, <2>4, <3>1, <3>3
      <4> QED
        BY <3>2, <4>1, <4>2
    <3>4. CASE ~\E d \in open : y = nr(d)
      <4>1. shift'[y] = shift[y]
        BY <2>1, <3>4
      <4>2. DayOf(x) \in open
        BY <2>3, <3>1
      <4>3. y \notin ShiftsOn(s, DayOf(x))
        BY <2>2, <4>2
      <4> QED
        BY <2>4, <3>2, <4>1, <4>3 DEF ShiftsOn
    <3> QED
      BY <3>3, <3>4
  <2> QED
    BY <2>4 DEF LandsApart
<1> QED
  BY <1>1, <1>2

LEMMA StepsLandApart ==
  ASSUME WorkforceInv, "shifts" \notin Racing, WorkforceStep
  PROVE  LandsApart
<1>1. CASE shift' = shift
  BY <1>1, NothingLands
<1>2. ASSUME NEW h \in Clerks, WriteStep(h) PROVE LandsApart
  <2>1. ASSUME NEW kept \in BOOLEAN, RemoveStaff(h, kept) PROVE LandsApart
    <3>1. shift' = shift \/ shift' = [x \in Shifts |-> IF shift[x].staff = req[h].s THEN NoShift
                                                       ELSE shift[x]]
      BY <2>1, Zenon DEF RemoveStaff
    <3> QED
      BY <3>1, NothingLands DEF NoShift
  <2>2. CASE SaveShifts(h) \/ \E d \in Days : CopyShift(h, d)
    BY <2>2, SavedLand, CopiesLand
  <2>3. CASE \E s \in Staff : GenerateShiftsForStaff(h, s)
    BY <2>3, GeneratedLand
  <2>4. CASE \/ InsertStaff(h) \/ SaveStaff(h) \/ SaveLeave(h) \/ SaveMarks(h)
             \/ \E fails \in BOOLEAN : GiveAccount(h, fails)
    <3>1. shift' = shift
      BY <2>4, Zenon DEF InsertStaff, SaveStaff, SaveLeave, SaveMarks, GiveAccount
    <3> QED
      BY <1>1, <3>1
  <2> QED
    BY <1>2, <2>1, <2>2, <2>3, <2>4 DEF WriteStep
<1>3. ASSUME NEW h \in Clerks, RosterStep(h) PROVE LandsApart
  <2>1. ASSUME NEW days \in SUBSET Days, NEW overwrite \in BOOLEAN,
               GenerateRoster(h, days, overwrite)
        PROVE  LandsApart
    <3>1. shift' = [x \in Shifts |->
             IF overwrite /\ shift[x].day \in days THEN NoShift ELSE shift[x]]
      BY <2>1, Zenon DEF GenerateRoster
    <3> QED
      BY <3>1, NothingLands DEF NoShift
  <2>2. ASSUME NEW s \in Staff, NEW active \in BOOLEAN, NEW off \in {{}, OffDays},
               \/ CreateOrUpdateTemplate(s, active, off) \/ UpdateTemplate(s, active, off)
               \/ DeleteTemplate(s)
        PROVE  LandsApart
    BY <1>1, <2>2 DEF CreateOrUpdateTemplate, UpdateTemplate, DeleteTemplate, SetTemplate
  <2> QED
    BY <1>3, <2>1, <2>2 DEF RosterStep
<1>4. CASE NextDay \/ \E s \in Focus : PolicyOf(s)
  <2>1. shift' = shift
    BY <1>4 DEF NextDay, PolicyOf, CreateLeavePolicy, UpdateLeavePolicy, DeleteLeavePolicy, SetPolicy
  <2> QED
    BY <1>1, <2>1
<1>5. ASSUME NEW h \in Clerks, StaffStep(h) \/ LeaveStep(h) \/ AttendanceStep(h) \/ ShiftStep(h)
      PROVE  LandsApart
  <2>1. ASSUME NEW r, Goes(h, r) PROVE LandsApart
    BY <1>1, <2>1, SMTT(30) DEF Goes, Reading
  <2>2. CASE StaffStep(h)
    BY <2>1, <2>2 DEF StaffStep, CreateStaff, UpdateStaff, SuspendStaff, ReactivateStaff,
                      UpdateStaffSalary, ResetStaffPassword, DeleteStaff, Rewrites
  <2>3. CASE LeaveStep(h)
    <3>1. \E r : Goes(h, r)
      BY <2>3, ZenonT(30) DEF LeaveStep, CreateLeaveApplication, ApproveLeaveApplication,
                         RejectLeaveApplication, CancelLeaveApplication, Decides
    <3> QED
      BY <2>1, <3>1
  <2>4. CASE AttendanceStep(h)
    <3>1. ASSUME NEW f, Writes(h, f) PROVE LandsApart
      BY <2>1, <3>1 DEF Writes
    <3>2. ASSUME NEW ss, NEW d, NEW tier, NEW timed, NEW onDayOff,
                 BulkCreateAttendance(h, ss, d, tier, timed, onDayOff)
          PROVE  LandsApart
      BY <3>1, <3>2, Zenon DEF BulkCreateAttendance
    <3>3. ASSUME NEW m, NEW s, NEW d, NEW tier, CreateAttendanceRecord(h, m, s, d, tier)
          PROVE  LandsApart
      BY <3>1, <3>3, Zenon DEF CreateAttendanceRecord
    <3>4. ASSUME NEW m, NEW tier,
                 \/ UpdateAttendanceRecord(h, m, tier) \/ DeleteAttendanceRecord(h, m, tier)
                 \/ BulkDeleteAttendanceRecords(h, m, tier)
          PROVE  LandsApart
      BY <3>1, <3>4, Zenon DEF UpdateAttendanceRecord, DeleteAttendanceRecord,
                               BulkDeleteAttendanceRecords
    <3> QED
      BY <2>4, <3>2, <3>3, <3>4, Zenon DEF AttendanceStep
  <2>5. CASE ShiftStep(h)
    <3>1. \E r : Goes(h, r)
      BY <2>5, Zenon DEF ShiftStep, CreateShift, UpdateShift, DeleteShift, DeleteMultipleShifts,
                         CopyShifts, Places
    <3> QED
      BY <2>1, <3>1
  <2> QED
    BY <1>5, <2>2, <2>3, <2>4, <2>5
<1> QED
  BY <1>2, <1>3, <1>4, <1>5 DEF WorkforceStep

-----------------------------------------------------------------------------
(* The invariant of staff, leave, attendance and shifts.                   *)

LEMMA WorkforceStart == ASSUME Init PROVE WorkforceInv
<1>1. \A h \in Clerks : req[h] = Idle
  BY DEF Init
<1>2. TypesKept
  <2>1. ASSUME NEW s \in Staff PROVE [NoMember EXCEPT !.there = s \in Hired] \in Member
    <3>1. \A b \in BOOLEAN : [NoMember EXCEPT !.there = b] \in Member
      BY DEF NoMember, Member
    <3>2. (s \in Hired) \in BOOLEAN
      OBVIOUS
    <3> QED
      BY <3>1, <3>2, Zenon
  <2>2. staff \in [Staff -> Member] /\ logins \subseteq Staff
    BY <2>1, WorkforceAssumption DEF WorkforceAssumption, Init
  <2>3. NoLeave \in Leave /\ NoMark \in Mark /\ NoShift \in Shift /\ NoTemplate \in Template
    BY WorkforceAssumption DEF WorkforceAssumption, NoLeave, Leave, NoMark, Mark, NoShift, Shift,
                               NoTemplate, Template
  <2>4. today \in Days /\ policy \in [Roles -> Quotas \cup {0}] /\ leave \in [Leaves -> Leave]
        /\ mark \in [Marks -> Mark] /\ shift \in [Shifts -> Shift] /\ template \in [Staff -> Template]
    BY <2>3, WorkforceAssumption DEF WorkforceAssumption, Init, Days
  <2>5. \A h \in Clerks : Sensible(req[h])
    BY <1>1, IdleSensible
  <2>6. DOMAIN req = Clerks /\ \A x \in Shifts : Filed(shift[x])
    BY DEF Init, Filed, NoShift
  <2> QED
    BY <2>2, <2>4, <2>5, <2>6 DEF TypesKept, TypeOK, Sensible
<1>3. StaffEmailsApart
  BY DEF Init, StaffEmailsApart, EmailTaken, InClub, NoMember
<1>4. LeavesKept
  BY <1>1 DEF Init, LeavesKept, PendingLeavesApart, NoLeave, At, Idle
<1> QED
  BY <1>1, <1>2, <1>3, <1>4, IdleDone DEF WorkforceInv, OneUnderWay, ShiftsKept, At, Idle

LEMMA WorkforceSteps ==
  ASSUME WorkforceInv, WorkforceStep, office' = office
  PROVE  WorkforceInv'
<1>1. ASSUME NEW h \in Clerks, WriteStep(h) PROVE WorkforceInv'
  BY <1>1, StaffWrites, LeaveWrites, MarkWrites, ShiftWrites DEF WriteStep
<1>2. CASE NextDay
  BY <1>2, DayPasses
<1>3. ASSUME NEW h \in Clerks, Turn, office = "staff", StaffStep(h) PROVE WorkforceInv'
  BY <1>3, StaffLoads
<1>4. ASSUME NEW h \in Clerks, Turn, office \in {"leave", "attendance"}, LeaveStep(h)
      PROVE  WorkforceInv'
  BY <1>4, LeaveLoads
<1>5. ASSUME NEW s \in Focus, PolicyOf(s) PROVE WorkforceInv'
  BY <1>5, PolicySteps
<1>6. ASSUME NEW h \in Clerks, Turn, AttendanceStep(h) PROVE WorkforceInv'
  BY <1>6, AttendanceLoads
<1>7. ASSUME NEW h \in Clerks, Turn, office = "shifts", ShiftStep(h) \/ RosterStep(h)
      PROVE  WorkforceInv'
  BY <1>7, ShiftLoads, RosterLoads
<1> QED
  BY <1>1, <1>2, <1>3, <1>4, <1>5, <1>6, <1>7 DEF WorkforceStep

LEMMA WorkforceStutters ==
  ASSUME WorkforceInv, UNCHANGED <<vars, office>>
  PROVE  WorkforceInv'
<1>1. today \in Days /\ policy \in [Roles -> Quotas \cup {0}] /\ template \in [Staff -> Template]
  BY DEF WorkforceInv, TypesKept, TypeOK
<1> QED
  BY <1>1, RestKeeps DEF vars

LEMMA WorkforceInvariant == MCSpec => []WorkforceInv
<1>1. MCInit => WorkforceInv
  BY WorkforceStart DEF MCInit
<1>2. WorkforceInv /\ [MCNext]_<<allVars, office>> => WorkforceInv'
  <2> SUFFICES ASSUME WorkforceInv, [MCNext]_<<allVars, office>> PROVE WorkforceInv'
    OBVIOUS
  <2>1. (WorkforceStep /\ office' = office) \/ UNCHANGED <<vars, office>>
    BY DEF MCNext, allVars
  <2> QED
    BY <2>1, WorkforceSteps, WorkforceStutters
<1> QED
  BY <1>1, <1>2, PTL DEF MCSpec

\* No two staff of the club share an address, whatever is under way at the same
\* time: the checks may both pass, the index refuses the second row.
THEOREM EmailsStayApart == MCSpec => []StaffEmailsApart
<1>1. WorkforceInv => StaffEmailsApart
  BY DEF WorkforceInv
<1> QED
  BY <1>1, WorkforceInvariant, PTL

\* One request at a time, no two applications that wait for a decision ask for
\* the same day of one staff member: the one that is being made was compared
\* with those that wait, and none was added or set back to waiting since.
THEOREM PendingLeavesStayApart ==
  ASSUME {"leave", "attendance"} \cap Racing = {}
  PROVE  MCSpec => []PendingLeavesApart
<1>1. WorkforceInv => PendingLeavesApart
  BY DEF WorkforceInv, LeavesKept
<1> QED
  BY <1>1, WorkforceInvariant, PTL

\* One request at a time, a shift that is created, copied or generated is filed
\* under a day its staff member has no shift on.
THEOREM ShiftsLandApart ==
  ASSUME "shifts" \notin Racing
  PROVE  MCSpec => NewShiftsApart
<1>1. WorkforceInv /\ [MCNext]_<<allVars, office>> => [LandsApart]_vars
  <2> SUFFICES ASSUME WorkforceInv, [MCNext]_<<allVars, office>> PROVE [LandsApart]_vars
    OBVIOUS
  <2>1. WorkforceStep \/ UNCHANGED vars
    BY DEF MCNext, allVars
  <2> QED
    BY <2>1, StepsLandApart
<1>2. NewShiftsApart <=> [][LandsApart]_vars
  BY DEF NewShiftsApart, LandsApart
<1> QED
  BY <1>1, <1>2, WorkforceInvariant, PTL DEF MCSpec

-----------------------------------------------------------------------------
(* The kitchen: what is kept.                                              *)

\* A request names the order it saves, and the station whose row it saves.
Aims(r) ==
  /\ r.pc \in {"queue", "count", "counting", "order", "ordering"} => r.o \in K!Orders
  /\ r.pc \in {"count", "counting", "station", "changing"} => r.s \in Stations

KitchenInv == K!TypeOK /\ \A h \in Clerks : Aims(serving[h])

-----------------------------------------------------------------------------
(* The numbers given out.                                                  *)

LEMMA KitchenBounds == MaxOrders \in Nat /\ MaxCount \in Nat
BY BackOfficeAssumption DEF BackOfficeAssumption

\* Max chooses a greatest member of a set of numbers that is bounded: the one
\* with the least gap to the bound.
LEMMA MaxOfBounded ==
  ASSUME NEW n \in Nat, NEW S \in SUBSET (0..n), S # {}
  PROVE  K!Max(S) \in S /\ \A y \in S : K!Max(S) >= y
<1> DEFINE Gap == {k \in Nat : \E x \in S : k = n - x}
<1>1. Gap \in SUBSET Nat /\ Gap # {}
  <2>1. PICK x \in S : TRUE
    OBVIOUS
  <2>2. n - x \in Gap
    OBVIOUS
  <2> QED
    BY <2>2
<1>2. PICK g \in Gap : \A k \in Gap : g <= k
  <2> HIDE DEF Gap
  <2> QED
    BY <1>1, Least
<1>3. PICK x \in S : g = n - x
  BY <1>2
<1>4. \A y \in S : x >= y
  <2> TAKE y \in S
  <2>1. n - y \in Gap
    OBVIOUS
  <2> QED
    BY <1>2, <1>3, <2>1
<1> QED
  BY <1>4, Zenon DEF K!Max

\* The next order number is a number, and not the one that stands for NULL.
LEMMA NextNumberType ==
  ASSUME K!TypeOK
  PROVE  K!NextNumber \in Nat \ {0}
<1>1. CASE K!Numbered = {}
  BY <1>1 DEF K!NextNumber
<1>2. CASE K!Numbered # {}
  <2>1. K!Numbered \in SUBSET (0..MaxOrders)
    BY DEF K!Numbered, K!Orders
  <2>2. K!Max(K!Numbered) \in K!Numbered
    BY <2>1, <1>2, MaxOfBounded, KitchenBounds
  <2>3. K!Max(K!Numbered) \in K!Orders
    BY <2>2 DEF K!Numbered
  <2>4. order[K!Max(K!Numbered)] \in K!Order
    BY <2>3 DEF K!TypeOK
  <2>5. order[K!Max(K!Numbered)].number \in Nat
    BY <2>4, KitchenBounds DEF K!Order
  <2> QED
    BY <1>2, <2>5 DEF K!NextNumber
<1> QED
  BY <1>1, <1>2

\* So is the next invoice number.
LEMMA NextInvoiceType ==
  ASSUME K!TypeOK
  PROVE  K!NextInvoice \in Nat \ {0}
<1> DEFINE S == {0} \cup {order[o].invoice : o \in K!Orders}
<1>1. \A o \in K!Orders : order[o].invoice \in 0..MaxCount
  BY DEF K!TypeOK, K!Order
<1>2. S \in SUBSET (0..MaxCount) /\ S # {}
  BY <1>1, KitchenBounds
<1>3. K!Max(S) \in 0..MaxCount
  <2> HIDE DEF S
  <2> QED
    BY <1>2, MaxOfBounded, KitchenBounds
<1> QED
  BY <1>3, KitchenBounds DEF K!NextInvoice

\* A station that is gone, and one that is new, have no orders yet.
LEMMA NewStations ==
  K!NoStation \in K!Station /\ [K!NoStation EXCEPT !.there = TRUE, !.active = TRUE] \in K!Station
<1>1. K!NoStation \in K!Station
  BY KitchenBounds DEF K!NoStation, K!Station
<1> QED
  BY <1>1 DEF K!Station

\* The request that is over holds nothing.
LEMMA KitchenIdle == K!Idle \in K!Request /\ Aims(K!Idle)
<1>1. K!NoStation \in K!Station
  BY NewStations
<1>2. K!NoOrder \in K!Order
  BY KitchenBounds DEF K!NoOrder, K!Order, K!Status
<1> QED
  BY <1>1, <1>2 DEF K!Idle, K!Request, Aims

\* A save writes a row of the right type, and the whole row it holds when it
\* finds what is there.
LEMMA OrderSavedFacts ==
  ASSUME NEW mine \in K!Order, NEW found \in K!Order, NEW now \in K!Order
  PROVE  K!OrderSaved(mine, found, now) \in K!Order /\ K!OrderSaved(mine, now, now) = mine
BY DEF K!OrderSaved, K!Column, K!Order

LEMMA StationSavedFacts ==
  ASSUME NEW mine \in K!Station, NEW found \in K!Station, NEW now \in K!Station
  PROVE  /\ K!StationSaved(mine, found, now) \in K!Station
         /\ mine.there = now.there => K!StationSaved(mine, now, now) = mine
BY DEF K!StationSaved, K!Column, K!Station

-----------------------------------------------------------------------------
(* A request that has loaded what it needs.                                *)

\* A request may hold any row and go on from there.
LEMMA KitchenGoes ==
  ASSUME KitchenInv, NEW h \in Clerks, NEW o \in K!Orders, NEW row \in K!Order,
         NEW pc \in {"queue", "order"}, K!Goes(h, pc, o, row)
  PROVE  KitchenInv'
<1> DEFINE r == [K!Idle EXCEPT !.pc = pc, !.o = o, !.row = row, !.s = row.station]
<1>1. r \in K!Request /\ Aims(r)
  <2>1. row.station \in Stations \cup {"none"}
    BY DEF K!Order
  <2>2. K!NoStation \in K!Station /\ K!NoOrder \in K!Order
    BY NewStations, KitchenBounds DEF K!NoOrder, K!Order, K!Status
  <2> QED
    BY <2>1, <2>2 DEF K!Request, K!Idle, Aims
<1>2. serving' = [serving EXCEPT ![h] = r] /\ UNCHANGED <<order, station>>
  BY DEF K!Goes, K!Becomes, K!Reading
<1> HIDE DEF r
<1> QED
  BY <1>1, <1>2 DEF KitchenInv, K!TypeOK, Aims

\* A request may hold the row it has, whatever it has found out about the station.
LEMMA KitchenMovesOn ==
  ASSUME KitchenInv, NEW h \in Clerks, NEW r \in K!Request, Aims(r), K!Becomes(h, r),
         order' \in [K!Orders -> K!Order], station' \in [Stations -> K!Station]
  PROVE  KitchenInv'
BY DEF K!Becomes, KitchenInv, K!TypeOK, Aims

LEMMA StatusSet ==
  ASSUME KitchenInv, NEW o \in K!Orders, NEW status \in K!Status
  PROVE  [order[o] EXCEPT !.status = status] \in K!Order
BY DEF KitchenInv, K!TypeOK, K!Order

\* A delivery gives the order its invoice together with its status.
LEMMA DeliveredType ==
  ASSUME KitchenInv, NEW o \in K!Orders, K!NextInvoice <= MaxCount
  PROVE  K!Delivered(o) \in K!Order
<1>1. order[o] \in K!Order
  BY DEF KitchenInv, K!TypeOK
<1>2. K!NextInvoice \in 0..MaxCount
  BY NextInvoiceType, KitchenBounds DEF KitchenInv
<1> QED
  BY <1>1, <1>2 DEF K!Delivered, K!Order, K!Status

-----------------------------------------------------------------------------
(* Every action keeps KitchenInv.                                          *)

LEMMA OrderLoads ==
  ASSUME KitchenInv, NEW h \in Clerks, NEW o \in K!Orders,
         \/ K!CreateOrder(o) \/ K!RejectOrder(h, o) \/ K!MarkOrderReady(h, o) \/ K!MarkOrderDelivered(h, o)
         \/ K!CancelOrder(h, o)
         \/ \E s \in Stations : K!AcceptOrder(h, o, s)
         \/ \E status \in K!Status : K!UpdateOrderStatus(h, o, status)
  PROVE  KitchenInv'
<1>1. CASE K!CreateOrder(o)
  <2> DEFINE new == [K!NoOrder EXCEPT !.status = "pending"]
  <2>1. new \in K!Order
    BY KitchenBounds DEF K!NoOrder, K!Order, K!Status
  <2>2. order' = [order EXCEPT ![o] = new] /\ UNCHANGED <<station, serving>>
    BY <1>1 DEF K!CreateOrder
  <2> HIDE DEF new
  <2> QED
    BY <2>1, <2>2 DEF KitchenInv, K!TypeOK, Aims
<1>2. CASE K!RejectOrder(h, o)
  <2> DEFINE row == [order[o] EXCEPT !.status = "cancelled", !.accepted = "false"]
  <2>1. order[o] \in K!Order
    BY DEF KitchenInv, K!TypeOK
  <2>2. row \in K!Order
    BY <2>1 DEF K!Order, K!Status
  <2>3. K!Goes(h, "order", o, row)
    BY <1>2 DEF K!RejectOrder
  <2> HIDE DEF row
  <2> QED
    BY <2>2, <2>3, KitchenGoes
<1>3. CASE K!MarkOrderReady(h, o)
  <2>1. K!Goes(h, "order", o, [order[o] EXCEPT !.status = "ready"])
    BY <1>3 DEF K!MarkOrderReady
  <2> QED
    BY <2>1, StatusSet, KitchenGoes DEF K!Status
<1>4. CASE K!MarkOrderDelivered(h, o)
  <2>1. K!NextInvoice <= MaxCount /\ K!Goes(h, "queue", o, K!Delivered(o))
    BY <1>4 DEF K!MarkOrderDelivered
  <2> QED
    BY <2>1, DeliveredType, KitchenGoes
<1>5. CASE K!CancelOrder(h, o)
  <2>1. \E pc \in {"queue", "order"} : K!Goes(h, pc, o, [order[o] EXCEPT !.status = "cancelled"])
    BY <1>5 DEF K!CancelOrder
  <2> QED
    BY <2>1, StatusSet, KitchenGoes DEF K!Status
<1>6. ASSUME NEW s \in Stations, K!AcceptOrder(h, o, s) PROVE KitchenInv'
  <2> DEFINE row == [order[o] EXCEPT !.status = "processing", !.accepted = "true",
                                     !.number = K!NextNumber, !.station = s]
             books == [station[s] EXCEPT !.pending = @ + 1]
             r == [K!Idle EXCEPT !.pc = "count", !.o = o, !.s = s, !.row = row, !.books = books]
  <2>1. order[o] \in K!Order /\ station[s] \in K!Station
    BY DEF KitchenInv, K!TypeOK
  <2>2. K!NextNumber \in 0..MaxCount
    <3>1. K!NextNumber <= MaxCount
      BY <1>6, Zenon DEF K!AcceptOrder
    <3>2. K!NextNumber \in Nat
      BY NextNumberType DEF KitchenInv
    <3> QED
      BY <3>1, <3>2, KitchenBounds
  <2>3. row \in K!Order
    BY <2>1, <2>2 DEF K!Order, K!Status
  <2>4. station[s].pending + 1 \in 0..MaxCount
    <3>1. station[s].pending < MaxCount
      BY <1>6 DEF K!AcceptOrder
    <3>2. station[s].pending \in 0..MaxCount
      BY <2>1 DEF K!Station
    <3> QED
      BY <3>1, <3>2, KitchenBounds
  <2>5. books \in K!Station
    BY <2>1, <2>4 DEF K!Station
  <2>6. K!Becomes(h, r) /\ order' = order /\ station' = station
    BY <1>6, Zenon DEF K!AcceptOrder, K!Reading
  <2>7. order' \in [K!Orders -> K!Order] /\ station' \in [Stations -> K!Station]
    BY <2>6 DEF KitchenInv, K!TypeOK
  <2> HIDE DEF row, books
  <2>8. r \in K!Request /\ Aims(r)
    BY <2>3, <2>5, KitchenIdle DEF K!Request, K!Idle, Aims
  <2> HIDE DEF r
  <2> QED
    BY <2>6, <2>7, <2>8, KitchenMovesOn
<1>7. ASSUME NEW status \in K!Status, K!UpdateOrderStatus(h, o, status) PROVE KitchenInv'
  <2>1. CASE status = "delivered" /\ order[o].invoice = 0
    <3>1. K!NextInvoice <= MaxCount /\ K!Goes(h, "queue", o, K!Delivered(o))
      BY <1>7, <2>1 DEF K!UpdateOrderStatus
    <3> QED
      BY <3>1, DeliveredType, KitchenGoes
  <2>2. CASE ~(status = "delivered" /\ order[o].invoice = 0)
    <3>1. K!Goes(h, "order", o, [order[o] EXCEPT !.status = status])
      BY <1>7, <2>2 DEF K!UpdateOrderStatus
    <3> QED
      BY <3>1, StatusSet, KitchenGoes
  <2> QED
    BY <2>1, <2>2
<1> QED
  BY <1>1, <1>2, <1>3, <1>4, <1>5, <1>6, <1>7

LEMMA StationLoads ==
  ASSUME KitchenInv, NEW h \in Clerks, NEW s \in Stations,
         \/ K!CreateKitchenStation(s) \/ K!DeleteKitchenStation(h, s)
         \/ \E active \in BOOLEAN : K!UpdateKitchenStation(h, s, active)
  PROVE  KitchenInv'
<1>1. CASE K!CreateKitchenStation(s)
  <2> DEFINE new == [K!NoStation EXCEPT !.there = TRUE, !.active = TRUE]
  <2>1. new \in K!Station
    BY NewStations
  <2>2. station' = [station EXCEPT ![s] = new] /\ UNCHANGED <<order, serving>>
    BY <1>1 DEF K!CreateKitchenStation
  <2> HIDE DEF new
  <2> QED
    BY <2>1, <2>2 DEF KitchenInv, K!TypeOK, Aims
<1>2. CASE K!DeleteKitchenStation(h, s)
  <2> DEFINE r == [K!Idle EXCEPT !.pc = "remove", !.s = s]
  <2>1. K!Becomes(h, r) /\ order' = order /\ station' = station
    BY <1>2 DEF K!DeleteKitchenStation, K!Reading
  <2>2. r \in K!Request /\ Aims(r)
    BY KitchenIdle DEF K!Request, K!Idle, Aims
  <2>3. order' \in [K!Orders -> K!Order] /\ station' \in [Stations -> K!Station]
    BY <2>1 DEF KitchenInv, K!TypeOK
  <2> HIDE DEF r
  <2> QED
    BY <2>1, <2>2, <2>3, KitchenMovesOn
<1>3. ASSUME NEW active \in BOOLEAN, K!UpdateKitchenStation(h, s, active) PROVE KitchenInv'
  <2> DEFINE books == [station[s] EXCEPT !.active = active]
             r == [K!Idle EXCEPT !.pc = "station", !.s = s, !.books = books]
  <2>1. K!Becomes(h, r) /\ order' = order /\ station' = station
    BY <1>3, Zenon DEF K!UpdateKitchenStation, K!Reading
  <2>2. books \in K!Station
    BY DEF KitchenInv, K!TypeOK, K!Station
  <2> HIDE DEF books
  <2>3. r \in K!Request /\ Aims(r)
    BY <2>2, KitchenIdle DEF K!Request, K!Idle, Aims
  <2>4. order' \in [K!Orders -> K!Order] /\ station' \in [Stations -> K!Station]
    BY <2>1 DEF KitchenInv, K!TypeOK
  <2> HIDE DEF r
  <2> QED
    BY <2>1, <2>3, <2>4, KitchenMovesOn
<1> QED
  BY <1>1, <1>2, <1>3

\* What a request saves comes from the rows it holds and the rows it finds.
LEMMA StationWrites ==
  ASSUME KitchenInv, NEW h \in Clerks, serving[h].s \in Stations, K!StationWritten(h)
  PROVE  station' \in [Stations -> K!Station]
<1> PICK r : r = serving[h]
  OBVIOUS
<1>1. /\ r.books \in K!Station /\ r.was \in K!Station /\ r.s \in Stations
      /\ station \in [Stations -> K!Station] /\ station[r.s] \in K!Station
  BY DEF KitchenInv, K!TypeOK, K!Request
<1>2. K!StationSaved(r.books, r.was, station[r.s]) \in K!Station
  BY <1>1, StationSavedFacts
<1>3. station' = [station EXCEPT ![r.s] = K!StationSaved(r.books, r.was, station[r.s])]
      \/ station' = station
  BY Zenon DEF K!StationWritten
<1> QED
  BY <1>1, <1>2, <1>3

LEMMA KitchenWrites ==
  ASSUME KitchenInv, NEW h \in Clerks, K!WriteStep(h)
  PROVE  KitchenInv'
<1> PICK r : r = serving[h]
  OBVIOUS
<1>1. r \in K!Request /\ r.row \in K!Order /\ r.base \in K!Order /\ r.books \in K!Station /\ Aims(r)
      /\ order \in [K!Orders -> K!Order] /\ station \in [Stations -> K!Station]
  BY DEF KitchenInv, K!TypeOK, K!Request
<1>2. K!Idle \in K!Request /\ Aims(K!Idle)
  BY KitchenIdle
<1>3. CASE K!LoadStation(h)
  <2>1. r.pc = "queue" /\ order' = order /\ station' = station
    BY <1>3 DEF K!LoadStation, K!Reading, K!At
  <2>2. CASE r.s # "none" /\ station[r.s].there
    <3> DEFINE books == [station[r.s] EXCEPT !.pending = K!OneLess(@),
                                             !.completed = @ + K!CompletedBy(r.row)]
               next == [r EXCEPT !.pc = "count", !.books = books]
    <3>1. K!Becomes(h, next)
      BY <1>3, <2>2, Zenon DEF K!LoadStation
    <3>2. r.s \in Stations
      BY <1>1, <2>2 DEF K!Request
    <3>3. station[r.s] \in K!Station
      BY <1>1, <3>2
    <3>4. K!OneLess(station[r.s].pending) \in 0..MaxCount
      <4>1. station[r.s].pending \in 0..MaxCount
        BY <3>3 DEF K!Station
      <4> QED
        BY <4>1, KitchenBounds DEF K!OneLess
    <3>5. station[r.s].completed + K!CompletedBy(r.row) \in 0..MaxCount
      <4>1. station[r.s].completed \in 0..MaxCount
        BY <3>3 DEF K!Station
      <4>2. station[r.s].completed < MaxCount
        BY <1>3, <2>2 DEF K!LoadStation
      <4>3. K!CompletedBy(r.row) \in {0, 1}
        BY DEF K!CompletedBy
      <4> QED
        BY <4>1, <4>2, <4>3, KitchenBounds
    <3>6. books \in K!Station
      BY <3>3, <3>4, <3>5 DEF K!Station
    <3> HIDE DEF books
    <3>7. next \in K!Request /\ Aims(next)
      BY <1>1, <2>1, <3>2, <3>6 DEF K!Request, Aims
    <3> HIDE DEF next
    <3> QED
      BY <1>1, <2>1, <3>1, <3>7, KitchenMovesOn
  <2>3. CASE ~(r.s # "none" /\ station[r.s].there)
    <3> DEFINE next == [r EXCEPT !.pc = "order"]
    <3>1. K!Becomes(h, next)
      BY <1>3, <2>3, Zenon DEF K!LoadStation
    <3>2. next \in K!Request /\ Aims(next)
      BY <1>1, <2>1 DEF K!Request, Aims
    <3> HIDE DEF next
    <3> QED
      BY <1>1, <2>1, <3>1, <3>2, KitchenMovesOn
  <2> QED
    BY <2>2, <2>3
<1>4. CASE K!ReloadCount(h)
  <2> DEFINE next == [r EXCEPT !.pc = "counting", !.was = station[r.s]]
  <2>1. /\ r.pc = "count" /\ order' = order /\ station' = station
        /\ K!Becomes(h, next) \/ K!Becomes(h, K!Idle)
    BY <1>4, Zenon DEF K!ReloadCount, K!Reading, K!At
  <2>2. r.s \in Stations /\ station[r.s] \in K!Station
    BY <1>1, <2>1 DEF Aims
  <2>3. next \in K!Request /\ Aims(next)
    BY <1>1, <2>1, <2>2 DEF K!Request, Aims
  <2> HIDE DEF next
  <2> QED
    BY <1>1, <1>2, <2>1, <2>3, KitchenMovesOn
<1>5. CASE K!CountAtStation(h)
  <2> DEFINE next == [r EXCEPT !.pc = "order"]
  <2>1. r.pc = "counting" /\ K!Becomes(h, next) /\ order' = order /\ K!StationWritten(h)
    BY <1>5, Zenon DEF K!CountAtStation, K!At
  <2>2. next \in K!Request /\ Aims(next)
    BY <1>1, <2>1 DEF K!Request, Aims
  <2>3. station' \in [Stations -> K!Station]
    BY <1>1, <2>1, StationWrites DEF Aims
  <2> HIDE DEF next
  <2> QED
    BY <1>1, <2>1, <2>2, <2>3, KitchenMovesOn
<1>6. CASE K!ReloadOrder(h)
  <2> DEFINE next == [r EXCEPT !.pc = "ordering", !.base = order[r.o]]
  <2>1. r.pc = "order" /\ order' = order /\ station' = station /\ K!Becomes(h, next)
    BY <1>6, Zenon DEF K!ReloadOrder, K!Reading, K!At
  <2>2. r.o \in K!Orders /\ order[r.o] \in K!Order
    BY <1>1, <2>1 DEF Aims
  <2>3. next \in K!Request /\ Aims(next)
    BY <1>1, <2>1, <2>2 DEF K!Request, Aims
  <2> HIDE DEF next
  <2> QED
    BY <1>1, <2>1, <2>3, KitchenMovesOn
<1>7. CASE K!SaveOrder(h)
  <2>1. r.pc = "ordering" /\ K!Becomes(h, K!Idle) /\ station' = station
    BY <1>7 DEF K!SaveOrder, K!At
  <2>2. order' = order \/ order' = [order EXCEPT ![r.o] = K!OrderSaved(r.row, r.base, order[r.o])]
    BY <1>7, Zenon DEF K!SaveOrder
  <2>3. r.o \in K!Orders /\ order[r.o] \in K!Order
    BY <1>1, <2>1 DEF Aims
  <2>4. K!OrderSaved(r.row, r.base, order[r.o]) \in K!Order
    BY <1>1, <2>3, OrderSavedFacts
  <2>5. order' \in [K!Orders -> K!Order]
    BY <1>1, <2>2, <2>4
  <2> QED
    BY <1>1, <1>2, <2>1, <2>5, KitchenMovesOn
<1>8. CASE K!ReloadStation(h)
  <2>1. r.pc = "station" /\ order' = order
    BY <1>8 DEF K!ReloadStation, K!At
  <2>2. r.s \in Stations /\ station[r.s] \in K!Station
    BY <1>1, <2>1 DEF Aims
  <2>3. CASE station[r.s].there
    <3> DEFINE next == [r EXCEPT !.pc = "changing", !.was = station[r.s]]
    <3>1. K!Becomes(h, next) /\ station' = station
      BY <1>8, <2>3, Zenon DEF K!ReloadStation
    <3>2. next \in K!Request /\ Aims(next)
      BY <1>1, <2>1, <2>2 DEF K!Request, Aims
    <3> HIDE DEF next
    <3> QED
      BY <1>1, <2>1, <3>1, <3>2, KitchenMovesOn
  <2>4. CASE ~station[r.s].there
    <3>1. K!Becomes(h, K!Idle) /\ station' = [station EXCEPT ![r.s] = r.books]
      BY <1>8, <2>4, Zenon DEF K!ReloadStation
    <3>2. station' \in [Stations -> K!Station]
      BY <1>1, <3>1
    <3> QED
      BY <1>1, <1>2, <2>1, <3>1, <3>2, KitchenMovesOn
  <2> QED
    BY <2>3, <2>4
<1>9. CASE K!SaveStation(h)
  <2>1. r.pc = "changing" /\ K!Becomes(h, K!Idle) /\ order' = order /\ K!StationWritten(h)
    BY <1>9 DEF K!SaveStation, K!At
  <2>2. station' \in [Stations -> K!Station]
    BY <1>1, <2>1, StationWrites DEF Aims
  <2> QED
    BY <1>1, <1>2, <2>1, <2>2, KitchenMovesOn
<1>10. CASE K!RemoveStation(h)
  <2>1. K!Becomes(h, K!Idle) /\ station' = [station EXCEPT ![r.s] = K!NoStation]
    BY <1>10, Zenon DEF K!RemoveStation
  <2>2. station' \in [Stations -> K!Station]
    BY <1>1, <2>1, NewStations
  <2>3. order' = [o \in K!Orders |->
          IF order[o].station = r.s THEN [order[o] EXCEPT !.station = "none"] ELSE order[o]]
    BY <1>10, Zenon DEF K!RemoveStation
  <2>4. ASSUME NEW o \in K!Orders PROVE order'[o] \in K!Order
    <3>1. order[o] \in K!Order
      BY <1>1
    <3>2. order'[o] = order[o] \/ order'[o] = [order[o] EXCEPT !.station = "none"]
      BY <2>3
    <3> QED
      BY <3>1, <3>2 DEF K!Order
  <2>5. order' \in [K!Orders -> K!Order]
    BY <2>3, <2>4
  <2> QED
    BY <1>2, <2>1, <2>2, <2>5, KitchenMovesOn
<1> QED
  BY <1>3, <1>4, <1>5, <1>6, <1>7, <1>8, <1>9, <1>10 DEF K!WriteStep

LEMMA KitchenStart == ASSUME K!Init PROVE KitchenInv
<1>1. K!NoOrder \in K!Order
  BY KitchenBounds DEF K!NoOrder, K!Order, K!Status
<1>2. K!NoStation \in K!Station /\ K!Idle \in K!Request /\ Aims(K!Idle)
  BY NewStations, KitchenIdle
<1> QED
  BY <1>1, <1>2 DEF K!Init, KitchenInv, K!TypeOK, Aims

LEMMA KitchenStutters ==
  ASSUME KitchenInv, UNCHANGED kitchenVars
  PROVE  KitchenInv'
BY DEF kitchenVars, KitchenInv, K!TypeOK, Aims

LEMMA KitchenInvariant == MCSpec => []KitchenInv
<1>1. MCInit => KitchenInv
  BY KitchenStart DEF MCInit
<1>2. KitchenInv /\ [MCNext]_<<allVars, office>> => KitchenInv'
  <2> SUFFICES ASSUME KitchenInv, [MCNext]_<<allVars, office>> PROVE KitchenInv'
    OBVIOUS
  <2>1. UNCHANGED kitchenVars \/ \E h \in Clerks : K!LoadStep(h) \/ K!WriteStep(h)
    BY DEF MCNext, allVars
  <2>2. ASSUME NEW h \in Clerks, K!LoadStep(h) PROVE KitchenInv'
    BY <2>2, OrderLoads, StationLoads DEF K!LoadStep
  <2> QED
    BY <2>1, <2>2, KitchenWrites, KitchenStutters
<1> QED
  BY <1>1, <1>2, PTL DEF MCSpec

-----------------------------------------------------------------------------
(* The kitchen's books, where requests take turns.                         *)

\* How many of the orders ord are at a station and in one of some statuses.
Counts(row, s, S) == row.station = s /\ row.status \in S
Served(ord, s, S) == Cardinality({o \in K!Orders : Counts(ord[o], s, S)})

Cooking == {"processing", "ready"}

\* The stations st account for the orders ord, and no two of the orders have
\* one invoice number.
BooksAgree(ord, st) ==
  \A s \in Stations : st[s].there =>
    /\ st[s].completed = Served(ord, s, {"delivered"})
    /\ st[s].pending >= Served(ord, s, Cooking)

NumbersApart(ord) ==
  \A o, p \in K!Orders : o # p /\ ord[o].invoice # 0 => ord[o].invoice # ord[p].invoice

\* A row has an invoice if and only if it was delivered.
Sound(row) == row.invoice # 0 <=> row.status = "delivered"

\* Every order is sound; one that waits has no station, another one, none or
\* one that is there.
Regular(ord, st) ==
  \A o \in K!Orders :
    /\ Sound(ord[o])
    /\ IF ord[o].status \in {"unused", "pending"} THEN ord[o].station = "none"
       ELSE ord[o].station # "none" => st[ord[o].station].there

\* The orders, and the stations, as they will be when the request r is through.
Replacing(ord, o, row) == [ord EXCEPT ![o] = row]
Saved(r) == Replacing(order, r.o, r.row)
Counted(r) == [station EXCEPT ![r.s] = r.books]

\* The order a request is about to save, if it can.
Placed(r) ==
  /\ r.o \in K!Orders /\ NumbersApart(Saved(r)) /\ Sound(r.row)
  /\ r.row.status \notin {"unused", "pending"}
  /\ r.row.station # "none" => station[r.row.station].there

\* A request that is under way accounts for what it has written and has not.
Accounted(r) ==
  /\ r.pc \in {"queue", "station", "changing", "remove"} => BooksAgree(order, station)
  /\ r.pc \in {"queue", "count", "counting", "order", "ordering"} => Placed(r)
  /\ r.pc = "queue" =>
       /\ r.s = r.row.station /\ order[r.o].station = r.s
       /\ \/ order[r.o].status = "ready" /\ r.row.status = "delivered"
          \/ order[r.o].status = "processing" /\ r.row.status = "cancelled"
  /\ r.pc \in {"count", "counting"} =>
       /\ r.s \in Stations /\ station[r.s].there /\ r.books.there
       /\ BooksAgree(Saved(r), Counted(r))
  /\ r.pc \in {"order", "ordering"} => BooksAgree(Saved(r), station)
  /\ r.pc \in {"counting", "changing"} => r.was = station[r.s]
  /\ r.pc = "ordering" => r.base = order[r.o]
  /\ r.pc \in {"station", "changing"} =>
       /\ r.s \in Stations /\ station[r.s].there /\ r.books.there
       /\ r.books.pending = station[r.s].pending /\ r.books.completed = station[r.s].completed

BooksInv ==
  office \notin Racing =>
    /\ \A g, h \in Clerks : ~K!At(g, "idle") /\ ~K!At(h, "idle") => g = h
    /\ NumbersApart(order) /\ Regular(order, station)
    /\ K!InTurn => BooksAgree(order, station)
    /\ \A h \in Clerks : Accounted(serving[h])

LEMMA OrdersFinite == IsFiniteSet(K!Orders)
BY KitchenBounds, FS_Interval DEF K!Orders

\* One order more or less among those that are counted.
LEMMA ServedChanges ==
  ASSUME NEW ord \in [K!Orders -> K!Order], NEW o \in K!Orders, NEW row \in K!Order, NEW s, NEW S
  PROVE  LET new == Replacing(ord, o, row) IN
         /\ Served(ord, s, S) \in Nat /\ Served(new, s, S) \in Nat
         /\ (Counts(row, s, S) <=> Counts(ord[o], s, S)) => Served(new, s, S) = Served(ord, s, S)
         /\ Counts(row, s, S) /\ ~Counts(ord[o], s, S) => Served(new, s, S) = Served(ord, s, S) + 1
         /\ ~Counts(row, s, S) /\ Counts(ord[o], s, S) => Served(new, s, S) = Served(ord, s, S) - 1
<1> DEFINE new == Replacing(ord, o, row)
           A == {p \in K!Orders : Counts(ord[p], s, S)}
           B == {p \in K!Orders : Counts(new[p], s, S)}
<1>1. new[o] = row /\ \A p \in K!Orders \ {o} : new[p] = ord[p]
  BY DEF Replacing
<1>2. IsFiniteSet(A) /\ IsFiniteSet(B)
  BY OrdersFinite, FS_Subset
<1>3. Cardinality(A) \in Nat /\ Cardinality(B) \in Nat
  BY <1>2, FS_CardinalityType
<1>4. Served(ord, s, S) = Cardinality(A) /\ Served(new, s, S) = Cardinality(B)
  BY DEF Served
<1> HIDE DEF new
<1>5. (Counts(row, s, S) <=> Counts(ord[o], s, S)) => B = A
  BY <1>1
<1>6. ASSUME Counts(row, s, S), ~Counts(ord[o], s, S) PROVE Cardinality(B) = Cardinality(A) + 1
  <2>1. B = A \cup {o} /\ o \notin A
    BY <1>1, <1>6
  <2> QED
    BY <1>2, <2>1, FS_AddElement
<1>7. ASSUME ~Counts(row, s, S), Counts(ord[o], s, S) PROVE Cardinality(B) = Cardinality(A) - 1
  <2>1. B = A \ {o} /\ o \in A
    BY <1>1, <1>7
  <2> QED
    BY <1>2, <2>1, FS_RemoveElement
<1> HIDE DEF A, B
<1>8. /\ Served(ord, s, S) \in Nat /\ Served(new, s, S) \in Nat
      /\ (Counts(row, s, S) <=> Counts(ord[o], s, S)) => Served(new, s, S) = Served(ord, s, S)
      /\ Counts(row, s, S) /\ ~Counts(ord[o], s, S) => Served(new, s, S) = Served(ord, s, S) + 1
      /\ ~Counts(row, s, S) /\ Counts(ord[o], s, S) => Served(new, s, S) = Served(ord, s, S) - 1
  BY <1>3, <1>4, <1>5, <1>6, <1>7
<1> QED
  BY <1>8 DEF new

\* What requests hold, and the rows, have their types.
LEMMA KitchenTypes ==
  ASSUME KitchenInv
  PROVE  /\ order \in [K!Orders -> K!Order] /\ station \in [Stations -> K!Station]
         /\ DOMAIN serving = Clerks
         /\ \A h \in Clerks : serving[h] \in K!Request /\ serving[h].row \in K!Order
         /\ \A s \in Stations : station[s].pending \in Nat /\ station[s].completed \in Nat
                                /\ station[s].there \in BOOLEAN
<1>1. /\ order \in [K!Orders -> K!Order] /\ station \in [Stations -> K!Station]
      /\ serving \in [Clerks -> K!Request]
  BY DEF KitchenInv, K!TypeOK
<1>2. \A s \in Stations : station[s].pending \in Nat /\ station[s].completed \in Nat
                          /\ station[s].there \in BOOLEAN
  BY <1>1, KitchenBounds DEF K!Station
<1> QED
  BY <1>1, <1>2 DEF K!Request

\* A new row that is counted nowhere else, and not as delivered, leaves the
\* books right.
LEMMA BooksLeft ==
  ASSUME KitchenInv, BooksAgree(order, station), NEW o \in K!Orders, NEW row \in K!Order,
         row.station = order[o].station, row.status # "delivered", order[o].status # "delivered",
         row.status \in Cooking => order[o].status \in Cooking \/ row.station = "none"
  PROVE  BooksAgree(Replacing(order, o, row), station)
<1> DEFINE new == Replacing(order, o, row)
<1>1. ASSUME NEW s \in Stations, station[s].there
      PROVE  /\ station[s].completed = Served(new, s, {"delivered"})
             /\ station[s].pending >= Served(new, s, Cooking)
  <2>1. station[s].completed = Served(order, s, {"delivered"})
        /\ station[s].pending >= Served(order, s, Cooking)
    BY <1>1 DEF BooksAgree
  <2>2. Served(new, s, {"delivered"}) = Served(order, s, {"delivered"})
    <3>1. ~Counts(row, s, {"delivered"}) /\ ~Counts(order[o], s, {"delivered"})
      BY DEF Counts
    <3> QED
      BY <3>1, KitchenTypes, ServedChanges
  <2>3. Counts(row, s, Cooking) => Counts(order[o], s, Cooking)
    BY BackOfficeAssumption DEF BackOfficeAssumption, Counts
  <2>4. /\ Served(order, s, Cooking) \in Nat
        /\ \/ Served(new, s, Cooking) = Served(order, s, Cooking)
           \/ Served(new, s, Cooking) = Served(order, s, Cooking) - 1
    BY <2>3, KitchenTypes, ServedChanges
  <2>5. station[s].pending \in Nat
    BY KitchenTypes
  <2> HIDE DEF new
  <2> QED
    BY <2>1, <2>2, <2>4, <2>5
<1> QED
  BY <1>1 DEF BooksAgree

\* A row keeps the invoice it has, or gets the next one.
LEMMA NumbersLeft ==
  ASSUME KitchenInv, NumbersApart(order), NEW o \in K!Orders, NEW row,
         row.invoice = order[o].invoice
  PROVE  NumbersApart(Replacing(order, o, row))
<1> DEFINE new == Replacing(order, o, row)
<1>1. \A p \in K!Orders : new[p].invoice = order[p].invoice
  BY KitchenTypes DEF Replacing
<1> HIDE DEF new
<1>2. NumbersApart(new)
  BY <1>1 DEF NumbersApart
<1> QED
  BY <1>2 DEF new

LEMMA NextNumberApart ==
  ASSUME KitchenInv, NumbersApart(order), NEW o \in K!Orders, NEW row,
         row.invoice = K!NextInvoice
  PROVE  NumbersApart(Replacing(order, o, row))
<1> DEFINE new == Replacing(order, o, row)
           S == {0} \cup {order[p].invoice : p \in K!Orders}
<1>1. \A p \in K!Orders : order[p].invoice \in 0..MaxCount
  BY KitchenTypes DEF K!Order
<1>2. S \in SUBSET (0..MaxCount) /\ S # {} /\ \A p \in K!Orders : order[p].invoice \in S
  BY <1>1, KitchenBounds
<1>3. K!NextInvoice = K!Max(S) + 1
  BY DEF K!NextInvoice
<1> HIDE DEF S
<1>4. K!Max(S) \in 0..MaxCount /\ \A y \in S : K!Max(S) >= y
  BY <1>2, MaxOfBounded, KitchenBounds
<1>5. \A p \in K!Orders : order[p].invoice # K!NextInvoice
  BY <1>1, <1>2, <1>3, <1>4, KitchenBounds
<1>6. new[o].invoice = K!NextInvoice /\ \A p \in K!Orders \ {o} : new[p] = order[p]
  BY KitchenTypes DEF Replacing
<1> HIDE DEF new
<1>7. NumbersApart(new)
  BY <1>5, <1>6 DEF NumbersApart
<1> QED
  BY <1>7 DEF new

\* In turn, a load begins when nothing is under way, with the books right.
LEMMA LoadsInTurn ==
  ASSUME BooksInv, Turn, office \notin Racing
  PROVE  /\ \A h \in Clerks : serving[h].pc = "idle"
         /\ NumbersApart(order) /\ Regular(order, station) /\ BooksAgree(order, station)
BY DEF Turn, BooksInv, K!InTurn, K!At

\* A request that has loaded what it accounts for.
LEMMA LoadAccounts ==
  ASSUME KitchenInv, BooksInv, Turn, NEW h \in Clerks, NEW r, K!Becomes(h, r), K!Reading,
         office' = office, office \notin Racing => Accounted(r), r.pc # "idle"
  PROVE  BooksInv'
<1> SUFFICES ASSUME office \notin Racing PROVE BooksInv'
  BY DEF BooksInv
<1>1. serving' = [serving EXCEPT ![h] = r] /\ UNCHANGED <<order, station>>
  BY DEF K!Becomes, K!Reading
<1>2. serving'[h] = r /\ \A g \in Clerks \ {h} : serving'[g].pc = "idle"
  BY <1>1, KitchenTypes, LoadsInTurn
<1>3. (\A f, g \in Clerks : ~K!At(f, "idle") /\ ~K!At(g, "idle") => f = g)'
  BY <1>2 DEF K!At
<1>4. ~K!InTurn'
  BY <1>2 DEF K!InTurn, K!At
<1>5. Accounted(r)'
  <2>1. Accounted(r)
    OBVIOUS
  <2> QED
    BY <1>1, <2>1 DEF Accounted, Placed, Saved, Replacing, Counted
<1>6. (\A g \in Clerks : Accounted(serving[g]))'
  <2>1. \A g \in Clerks \ {h} : Accounted(serving[g])'
    BY <1>2 DEF Accounted
  <2>2. Accounted(serving[h])'
    BY <1>2, <1>5 DEF Accounted, Placed, Saved, Replacing, Counted
  <2> QED
    BY <2>1, <2>2
<1>7. NumbersApart(order)' /\ Regular(order, station)'
  BY <1>1, LoadsInTurn DEF NumbersApart, Regular, Sound
<1> QED
  BY <1>3, <1>4, <1>6, <1>7 DEF BooksInv

\* A request that goes on to save a row with another status.
LEMMA GoesAccounts ==
  ASSUME KitchenInv, BooksInv, Turn, office' = office, NEW h \in Clerks, NEW o \in K!Orders,
         NEW row \in K!Order, NEW pc \in {"queue", "order"}, K!Goes(h, pc, o, row),
         row.status \notin {"unused", "pending"}, row.station = order[o].station,
         \/ row.status = "delivered" /\ row.invoice = K!NextInvoice
         \/ /\ row.status # "delivered" /\ order[o].status # "delivered"
            /\ row.invoice = order[o].invoice,
         pc = "queue" => \/ order[o].status = "ready" /\ row.status = "delivered"
                         \/ order[o].status = "processing" /\ row.status = "cancelled",
         pc = "order" => /\ order[o].status # "delivered" /\ row.status # "delivered"
                         /\ row.status \in Cooking =>
                              order[o].status \in Cooking \/ row.station = "none"
  PROVE  BooksInv'
<1> PICK r : r = [K!Idle EXCEPT !.pc = pc, !.o = o, !.row = row, !.s = row.station]
  OBVIOUS
<1>1. r.pc = pc /\ r.o = o /\ r.row = row /\ r.s = row.station
  BY DEF K!Idle
<1>2. K!Becomes(h, r) /\ K!Reading
  BY Zenon DEF K!Goes
<1>3. ASSUME office \notin Racing PROVE Accounted(r)
  <2>1. NumbersApart(order) /\ Regular(order, station) /\ BooksAgree(order, station)
    BY <1>3, LoadsInTurn
  <2>2. NumbersApart(Saved(r))
    BY <1>1, <2>1, NumbersLeft, NextNumberApart DEF Saved
  <2>3. row.station # "none" => station[row.station].there
    BY <2>1 DEF Regular, Sound
  <2>6. Sound(row)
    BY <2>1, NextInvoiceType DEF Regular, Sound, KitchenInv
  <2>4. Placed(r)
    BY <1>1, <2>2, <2>3, <2>6 DEF Placed
  <2>5. pc = "order" => BooksAgree(Saved(r), station)
    BY <1>1, <2>1, BooksLeft DEF Saved
  <2> QED
    BY <1>1, <2>1, <2>4, <2>5 DEF Accounted
<1> QED
  BY <1>1, <1>2, <1>3, LoadAccounts

\* A row whose status is set keeps the rest.
LEMMA RestKept ==
  ASSUME KitchenInv, NEW o \in K!Orders, NEW status
  PROVE  LET row == [order[o] EXCEPT !.status = status] IN
         row.status = status /\ row.station = order[o].station /\ row.invoice = order[o].invoice
<1>1. order[o] \in K!Order
  BY KitchenTypes
<1> QED
  BY <1>1 DEF K!Order

LEMMA DeliveredKept ==
  ASSUME KitchenInv, NEW o \in K!Orders
  PROVE  /\ K!Delivered(o).status = "delivered" /\ K!Delivered(o).station = order[o].station
         /\ K!Delivered(o).invoice = K!NextInvoice
<1>1. order[o] \in K!Order
  BY KitchenTypes
<1> QED
  BY <1>1 DEF K!Delivered, K!Order

LEMMA OrderLoadsAccount ==
  ASSUME KitchenInv, BooksInv, Turn, office' = office, NEW h \in Clerks, NEW o \in K!Orders,
         \/ K!RejectOrder(h, o) \/ K!MarkOrderReady(h, o) \/ K!MarkOrderDelivered(h, o)
         \/ K!CancelOrder(h, o)
         \/ \E status \in K!Status : K!UpdateOrderStatus(h, o, status)
  PROVE  BooksInv'
<1>1. order[o] \in K!Order
  BY KitchenTypes
<1>2. ASSUME NEW status \in K!Status \ {"unused", "pending", "delivered"},
             K!Goes(h, "order", o, [order[o] EXCEPT !.status = status]),
             order[o].status # "delivered",
             status \in Cooking => order[o].status \in Cooking \/ order[o].station = "none"
      PROVE  BooksInv'
  <2> DEFINE row == [order[o] EXCEPT !.status = status]
  <2>1. row \in K!Order
    BY <1>1 DEF K!Order
  <2>2. row.status = status /\ row.station = order[o].station /\ row.invoice = order[o].invoice
    BY RestKept
  <2>3. K!Goes(h, "order", o, row)
    BY <1>2
  <2> HIDE DEF row
  <2> QED
    BY <1>2, <2>1, <2>2, <2>3, GoesAccounts
<1>3. ASSUME K!Goes(h, "queue", o, K!Delivered(o)), order[o].status = "ready",
             K!NextInvoice <= MaxCount
      PROVE  BooksInv'
  BY <1>3, DeliveredKept, DeliveredType, GoesAccounts
<1>4. CASE K!RejectOrder(h, o)
  <2> DEFINE row == [order[o] EXCEPT !.status = "cancelled", !.accepted = "false"]
  <2>1. K!Goes(h, "order", o, row) /\ order[o].status = "pending"
    BY <1>4, Zenon DEF K!RejectOrder
  <2>2. row \in K!Order /\ row.status = "cancelled" /\ row.station = order[o].station
        /\ row.invoice = order[o].invoice
    BY <1>1 DEF K!Order, K!Status
  <2> HIDE DEF row
  <2> QED
    BY <2>1, <2>2, GoesAccounts DEF Cooking
<1>5. CASE K!MarkOrderReady(h, o)
  <2>1. order[o].status = "processing" /\ K!Goes(h, "order", o, [order[o] EXCEPT !.status = "ready"])
    BY <1>5 DEF K!MarkOrderReady
  <2> QED
    BY <1>2, <2>1 DEF K!Status, Cooking
<1>6. CASE K!MarkOrderDelivered(h, o)
  BY <1>3, <1>6 DEF K!MarkOrderDelivered
<1>7. CASE K!CancelOrder(h, o)
  <2> DEFINE row == [order[o] EXCEPT !.status = "cancelled"]
  <2>1. /\ order[o].status \in {"pending", "processing", "ready"}
        /\ K!Goes(h, IF order[o].status = "processing" THEN "queue" ELSE "order", o, row)
    BY <1>7 DEF K!CancelOrder
  <2>2. CASE order[o].status = "processing"
    <3>1. K!Goes(h, "queue", o, row)
      BY <2>1, <2>2
    <3>2. row \in K!Order
      BY <1>1 DEF K!Order, K!Status
    <3>3. row.status = "cancelled" /\ row.station = order[o].station
          /\ row.invoice = order[o].invoice
      BY RestKept
    <3> HIDE DEF row
    <3> QED
      BY <2>2, <3>1, <3>2, <3>3, GoesAccounts
  <2>3. CASE order[o].status # "processing"
    <3>1. K!Goes(h, "order", o, row)
      BY <2>1, <2>3
    <3> QED
      BY <1>2, <2>1, <3>1 DEF K!Status, Cooking
  <2> QED
    BY <2>2, <2>3
<1>8. ASSUME NEW status \in K!Status, K!UpdateOrderStatus(h, o, status) PROVE BooksInv'
  <2>1. status \in K!Follows(order[o].status) /\ (status = "delivered" => K!NextInvoice <= MaxCount)
    BY <1>8 DEF K!UpdateOrderStatus
  <2>2. CASE status = "delivered"
    <3>1. order[o].status = "ready"
      BY <2>1, <2>2 DEF K!Follows
    <3>2. CASE order[o].invoice = 0
      <4>1. K!Goes(h, "queue", o, K!Delivered(o))
        BY <1>8, <2>2, <3>2 DEF K!UpdateOrderStatus
      <4> QED
        BY <1>3, <2>1, <2>2, <3>1, <4>1
    <3>3. CASE order[o].invoice # 0
      <4>1. office \in Racing
        BY <3>1, <3>3, LoadsInTurn DEF Regular, Sound
      <4> QED
        BY <4>1 DEF BooksInv
    <3> QED
      BY <3>2, <3>3
  <2>3. CASE status # "delivered"
    <3>1. K!Goes(h, "order", o, [order[o] EXCEPT !.status = status])
      BY <1>8, <2>3 DEF K!UpdateOrderStatus
    <3>2. status \notin {"unused", "pending"} /\ order[o].status # "delivered"
      BY <2>1 DEF K!Follows
    <3>3. status \in Cooking => order[o].status \in Cooking \/ order[o].status = "pending"
      BY <2>1 DEF K!Follows, Cooking
    <3>4. CASE office \in Racing
      BY <3>4 DEF BooksInv
    <3>5. CASE office \notin Racing
      <4>1. order[o].status = "pending" => order[o].station = "none"
        BY <3>5, LoadsInTurn DEF Regular, Sound
      <4> QED
        BY <1>2, <2>3, <3>1, <3>2, <3>3, <4>1
    <3> QED
      BY <3>4, <3>5
  <2> QED
    BY <2>2, <2>3
<1> QED
  BY <1>4, <1>5, <1>6, <1>7, <1>8

\* An order is placed: it is at no station yet.
LEMMA PlacedAccounts ==
  ASSUME KitchenInv, BooksInv, Turn, office' = office, NEW o \in K!Orders, K!CreateOrder(o)
  PROVE  BooksInv'
<1> SUFFICES ASSUME office \notin Racing PROVE BooksInv'
  BY DEF BooksInv
<1> DEFINE new == [K!NoOrder EXCEPT !.status = "pending"]
<1>1. /\ order[o].status = "unused" /\ order' = Replacing(order, o, new)
      /\ UNCHANGED <<station, serving>>
  BY Zenon DEF K!CreateOrder, Replacing
<1>2. new \in K!Order /\ new.status = "pending" /\ new.station = "none" /\ new.invoice = 0
  BY KitchenBounds DEF K!NoOrder, K!Order, K!Status
<1> HIDE DEF new
<1>3. /\ \A h \in Clerks : serving[h].pc = "idle"
      /\ NumbersApart(order) /\ Regular(order, station) /\ BooksAgree(order, station)
  BY LoadsInTurn
<1>4. order[o].station = "none" /\ order[o].invoice = 0
  BY <1>1, <1>3 DEF Regular, Sound
<1>5. NumbersApart(order') /\ BooksAgree(order', station)
  <2>1. NumbersApart(Replacing(order, o, new))
    BY <1>2, <1>3, <1>4, NumbersLeft
  <2>2. BooksAgree(Replacing(order, o, new), station)
    BY <1>1, <1>2, <1>3, <1>4, BooksLeft DEF Cooking
  <2> QED
    BY <1>1, <2>1, <2>2
<1>6. order'[o] = new /\ \A p \in K!Orders \ {o} : order'[p] = order[p]
  BY <1>1, KitchenTypes DEF Replacing
<1>7. Regular(order', station')
  BY <1>1, <1>2, <1>3, <1>6 DEF Regular, Sound
<1>8. NumbersApart(order)' /\ BooksAgree(order, station)'
  BY <1>1, <1>5 DEF NumbersApart, BooksAgree, Served, Counts
<1>9. (\A h \in Clerks : Accounted(serving[h]))'
  BY <1>1, <1>3, <1>8 DEF Accounted
<1> QED
  BY <1>1, <1>3, <1>7, <1>8, <1>9 DEF BooksInv, K!At, Regular, Sound

\* A row that is counted at one station.
LEMMA AcceptAccounts ==
  ASSUME KitchenInv, BooksInv, Turn, office' = office, NEW h \in Clerks, NEW o \in K!Orders,
         NEW s \in Stations, K!AcceptOrder(h, o, s)
  PROVE  BooksInv'
<1> DEFINE row == [order[o] EXCEPT !.status = "processing", !.accepted = "true",
                                   !.number = K!NextNumber, !.station = s]
           books == [station[s] EXCEPT !.pending = @ + 1]
<1> PICK r : r = [K!Idle EXCEPT !.pc = "count", !.o = o, !.s = s, !.row = row, !.books = books]
  OBVIOUS
<1>1. K!Becomes(h, r) /\ K!Reading
  BY Zenon DEF K!AcceptOrder
<1>2. order[o].status = "pending" /\ station[s].there
  BY Zenon DEF K!AcceptOrder
<1>3. K!NextNumber \in 0..MaxCount
  <2>1. K!NextNumber <= MaxCount
    BY Zenon DEF K!AcceptOrder
  <2>2. K!NextNumber \in Nat
    BY NextNumberType DEF KitchenInv
  <2> QED
    BY <2>1, <2>2, KitchenBounds
<1>4. order[o] \in K!Order /\ station[s] \in K!Station
  BY KitchenTypes
<1>5. row \in K!Order /\ row.status = "processing" /\ row.station = s
      /\ row.invoice = order[o].invoice
  BY <1>3, <1>4 DEF K!Order, K!Status
<1>6. books.there /\ books.pending = station[s].pending + 1 /\ books.completed = station[s].completed
  BY <1>2, <1>4 DEF K!Station
<1> HIDE DEF row, books
<1>7. r.pc = "count" /\ r.o = o /\ r.s = s /\ r.row = row /\ r.books = books
  BY DEF K!Idle
<1>8. ASSUME office \notin Racing PROVE Accounted(r)
  <2>1. NumbersApart(order) /\ Regular(order, station) /\ BooksAgree(order, station)
    BY <1>8, LoadsInTurn
  <2>2. order[o].station = "none"
    BY <1>2, <2>1 DEF Regular, Sound
  <2>3. NumbersApart(Saved(r))
    BY <1>5, <1>7, <2>1, NumbersLeft DEF Saved
  <2>8. Sound(row)
    BY <1>2, <1>5, <2>1 DEF Regular, Sound
  <2>4. Placed(r)
    BY <1>2, <1>5, <1>7, <2>3, <2>8 DEF Placed
  <2>5. Counted(r)[s] = books /\ \A t \in Stations \ {s} : Counted(r)[t] = station[t]
    BY <1>7, KitchenTypes DEF Counted
  <2> DEFINE new == Replacing(order, o, row)
  <2>6. ASSUME NEW t \in Stations, Counted(r)[t].there
        PROVE  /\ Counted(r)[t].completed = Served(new, t, {"delivered"})
               /\ Counted(r)[t].pending >= Served(new, t, Cooking)
    <3>1. /\ station[t].completed = Served(order, t, {"delivered"})
          /\ station[t].pending >= Served(order, t, Cooking)
      BY <1>2, <2>1, <2>5, <2>6 DEF BooksAgree
    <3>2. Served(new, t, {"delivered"}) = Served(order, t, {"delivered"})
      <4>1. ~Counts(row, t, {"delivered"}) /\ ~Counts(order[o], t, {"delivered"})
        BY <1>2, <1>5 DEF Counts
      <4> QED
        BY <1>5, <4>1, KitchenTypes, ServedChanges
    <3>3. ~Counts(order[o], t, Cooking)
      BY <2>2, BackOfficeAssumption DEF BackOfficeAssumption, Counts
    <3>4. /\ Served(order, t, Cooking) \in Nat
          /\ Counts(row, t, Cooking) => Served(new, t, Cooking) = Served(order, t, Cooking) + 1
          /\ ~Counts(row, t, Cooking) => Served(new, t, Cooking) = Served(order, t, Cooking)
      BY <1>5, <3>3, KitchenTypes, ServedChanges
    <3>5. station[t].pending \in Nat
      BY KitchenTypes
    <3> HIDE DEF new
    <3>6. CASE t = s
      BY <1>6, <2>5, <3>1, <3>2, <3>4, <3>5, <3>6
    <3>7. CASE t # s
      <4>1. ~Counts(row, t, Cooking)
        BY <1>5, <3>7 DEF Counts
      <4> QED
        BY <2>5, <3>1, <3>2, <3>4, <3>7, <4>1
    <3> QED
      BY <3>6, <3>7
  <2>7. BooksAgree(Saved(r), Counted(r))
    BY <1>7, <2>6 DEF Saved, BooksAgree
  <2> QED
    BY <1>2, <1>6, <1>7, <2>4, <2>7 DEF Accounted
<1> QED
  BY <1>1, <1>7, <1>8, LoadAccounts

\* A station is added, with nothing at it, or is about to be edited or removed.
LEMMA StationLoadsAccount ==
  ASSUME KitchenInv, BooksInv, Turn, office' = office, NEW h \in Clerks, NEW s \in Stations,
         \/ K!DeleteKitchenStation(h, s)
         \/ \E active \in BOOLEAN : K!UpdateKitchenStation(h, s, active)
  PROVE  BooksInv'
<1>1. CASE K!DeleteKitchenStation(h, s)
  <2> PICK r : r = [K!Idle EXCEPT !.pc = "remove", !.s = s]
    OBVIOUS
  <2>1. K!Becomes(h, r) /\ K!Reading
    BY <1>1, Zenon DEF K!DeleteKitchenStation
  <2>2. r.pc = "remove" /\ r.s = s
    BY DEF K!Idle
  <2>3. office \notin Racing => Accounted(r)
    BY <2>2, LoadsInTurn DEF Accounted
  <2> QED
    BY <2>1, <2>2, <2>3, LoadAccounts
<1>2. ASSUME NEW active \in BOOLEAN, K!UpdateKitchenStation(h, s, active) PROVE BooksInv'
  <2> DEFINE books == [station[s] EXCEPT !.active = active]
  <2> PICK r : r = [K!Idle EXCEPT !.pc = "station", !.s = s, !.books = books]
    OBVIOUS
  <2>1. K!Becomes(h, r) /\ K!Reading /\ station[s].there
    BY <1>2, Zenon DEF K!UpdateKitchenStation
  <2>2. books.there /\ books.pending = station[s].pending /\ books.completed = station[s].completed
    BY <2>1, KitchenTypes DEF K!Station
  <2> HIDE DEF books
  <2>3. r.pc = "station" /\ r.s = s /\ r.books = books
    BY DEF K!Idle
  <2>4. office \notin Racing => Accounted(r)
    BY <2>1, <2>2, <2>3, LoadsInTurn DEF Accounted
  <2> QED
    BY <2>1, <2>3, <2>4, LoadAccounts
<1> QED
  BY <1>1, <1>2

LEMMA StationAddedAccounts ==
  ASSUME KitchenInv, BooksInv, Turn, office' = office, NEW s \in Stations, K!CreateKitchenStation(s)
  PROVE  BooksInv'
<1> SUFFICES ASSUME office \notin Racing PROVE BooksInv'
  BY DEF BooksInv
<1> DEFINE new == [K!NoStation EXCEPT !.there = TRUE, !.active = TRUE]
<1>1. /\ ~station[s].there /\ station' = [station EXCEPT ![s] = new]
      /\ UNCHANGED <<order, serving>>
  BY Zenon DEF K!CreateKitchenStation
<1>2. new.there /\ new.pending = 0 /\ new.completed = 0
  BY DEF K!NoStation
<1> HIDE DEF new
<1>3. /\ \A h \in Clerks : serving[h].pc = "idle"
      /\ NumbersApart(order) /\ Regular(order, station) /\ BooksAgree(order, station)
  BY LoadsInTurn
<1>4. station'[s] = new /\ \A t \in Stations \ {s} : station'[t] = station[t]
  BY <1>1, KitchenTypes
<1>5. \A o \in K!Orders : order[o].station # s
  BY <1>1, <1>3, BackOfficeAssumption DEF Regular, Sound, BackOfficeAssumption
<1>6. \A S : Served(order, s, S) = 0
  <2> TAKE S
  <2>1. {o \in K!Orders : Counts(order[o], s, S)} = {}
    BY <1>5 DEF Counts
  <2> QED
    BY <2>1, FS_EmptySet DEF Served
<1>7. BooksAgree(order, station')
  BY <1>2, <1>3, <1>4, <1>6 DEF BooksAgree
<1>8. Regular(order, station')
  <2>1. \A o \in K!Orders : order[o].station # "none" => order[o].station \in Stations
    BY KitchenTypes DEF K!Order
  <2> QED
    BY <1>3, <1>4, <1>5, <2>1 DEF Regular, Sound
<1>9. NumbersApart(order)' /\ BooksAgree(order, station)' /\ Regular(order, station)'
  BY <1>1, <1>3, <1>7, <1>8 DEF NumbersApart, BooksAgree, Served, Counts, Regular, Sound
<1>10. (\A h \in Clerks : Accounted(serving[h]))'
  BY <1>1, <1>3, <1>9 DEF Accounted
<1> QED
  BY <1>1, <1>3, <1>9, <1>10 DEF BooksInv, K!At

\* The next station row, loaded again: one order less to serve, or one more that
\* was delivered.
LEMMA LoadedAgain ==
  ASSUME KitchenInv, NumbersApart(order), NEW r, Accounted(r), r.pc = "queue", r.row \in K!Order,
         r.s \in Stations, station[r.s].there,
         NEW books, books.there,
         books.pending = K!OneLess(station[r.s].pending),
         books.completed = station[r.s].completed + K!CompletedBy(r.row)
  PROVE  BooksAgree(Saved(r), [station EXCEPT ![r.s] = books])
<1> DEFINE new == Replacing(order, r.o, r.row)
           counted == [station EXCEPT ![r.s] = books]
           old == order[r.o]
<1>1. /\ r.o \in K!Orders /\ old.station = r.s /\ r.row.station = r.s
      /\ \/ old.status = "ready" /\ r.row.status = "delivered"
         \/ old.status = "processing" /\ r.row.status = "cancelled"
      /\ BooksAgree(order, station)
  BY DEF Accounted, Placed
<1>2. counted[r.s] = books /\ \A t \in Stations \ {r.s} : counted[t] = station[t]
  BY KitchenTypes
<1> HIDE DEF counted
<1>3. ASSUME NEW t \in Stations, counted[t].there
      PROVE  /\ counted[t].completed = Served(new, t, {"delivered"})
             /\ counted[t].pending >= Served(new, t, Cooking)
  <2>1. /\ station[t].completed = Served(order, t, {"delivered"})
        /\ station[t].pending >= Served(order, t, Cooking)
        /\ station[t].completed \in Nat /\ station[t].pending \in Nat
    BY <1>1, <1>2, <1>3, KitchenTypes DEF BooksAgree
  <2>2. /\ Served(order, t, Cooking) \in Nat /\ Served(new, t, Cooking) \in Nat
        /\ ~Counts(r.row, t, Cooking) /\ Counts(old, t, Cooking)
           => Served(new, t, Cooking) = Served(order, t, Cooking) - 1
        /\ ~Counts(r.row, t, Cooking) /\ ~Counts(old, t, Cooking)
           => Served(new, t, Cooking) = Served(order, t, Cooking)
    BY <1>1, KitchenTypes, ServedChanges
  <2>3. /\ Served(order, t, {"delivered"}) \in Nat
        /\ Counts(r.row, t, {"delivered"}) /\ ~Counts(old, t, {"delivered"})
           => Served(new, t, {"delivered"}) = Served(order, t, {"delivered"}) + 1
        /\ ~Counts(r.row, t, {"delivered"}) /\ ~Counts(old, t, {"delivered"})
           => Served(new, t, {"delivered"}) = Served(order, t, {"delivered"})
    BY <1>1, KitchenTypes, ServedChanges
  <2>4. ~Counts(r.row, t, Cooking) /\ ~Counts(old, t, {"delivered"})
    BY <1>1 DEF Counts, Cooking
  <2>5. CASE t = r.s
    <3>1. Counts(old, t, Cooking) /\ (Counts(r.row, t, {"delivered"}) <=> r.row.status = "delivered")
      BY <1>1, <2>5 DEF Counts, Cooking
    <3>2. Served(new, t, Cooking) = Served(order, t, Cooking) - 1
      BY <2>2, <2>4, <3>1
    <3>3. Served(new, t, {"delivered"})
            = Served(order, t, {"delivered"}) + K!CompletedBy(r.row)
      BY <2>3, <2>4, <3>1 DEF K!CompletedBy
    <3>4. counted[t].pending = K!OneLess(station[t].pending)
          /\ counted[t].completed = station[t].completed + K!CompletedBy(r.row)
      BY <1>2, <2>5
    <3> HIDE DEF new, old
    <3> QED
      BY <2>1, <2>2, <3>2, <3>3, <3>4 DEF K!OneLess
  <2>6. CASE t # r.s
    <3>1. ~Counts(old, t, Cooking) /\ ~Counts(r.row, t, {"delivered"})
      BY <1>1, <2>6 DEF Counts
    <3> QED
      BY <1>2, <2>1, <2>2, <2>3, <2>4, <2>6, <3>1
  <2> QED
    BY <2>5, <2>6
<1> HIDE DEF new
<1>4. BooksAgree(new, counted)
  BY <1>3 DEF BooksAgree
<1> QED
  BY <1>4 DEF Saved, new, counted

\* What a write leaves: the request it belongs to, and nothing else under way.
LEMMA WriteAccounts ==
  ASSUME KitchenInv, BooksInv, office \notin Racing, office' = office, NEW h \in Clerks,
         ~K!At(h, "idle"), NEW q, K!Becomes(h, q),
         NumbersApart(order)', Regular(order, station)',
         q.pc = "idle" => BooksAgree(order, station)', Accounted(q)'
  PROVE  BooksInv'
<1>1. serving' = [serving EXCEPT ![h] = q]
  BY DEF K!Becomes
<1>2. serving'[h] = q /\ \A g \in Clerks \ {h} : serving'[g].pc = "idle"
  BY <1>1, KitchenTypes DEF BooksInv, K!At
<1>3. (\A f, g \in Clerks : ~K!At(f, "idle") /\ ~K!At(g, "idle") => f = g)'
  BY <1>2 DEF K!At
<1>4. K!InTurn' => BooksAgree(order, station)'
  BY <1>2 DEF K!InTurn, K!At
<1>5. (\A g \in Clerks : Accounted(serving[g]))'
  <2>1. \A g \in Clerks \ {h} : Accounted(serving[g])'
    BY <1>2 DEF Accounted
  <2>2. Accounted(serving[h])'
    BY <1>2 DEF Accounted, Placed, Saved, Replacing, Counted
  <2> QED
    BY <2>1, <2>2
<1> QED
  BY <1>3, <1>4, <1>5 DEF BooksInv

LEMMA NothingHeld == Accounted(K!Idle)' /\ K!Idle.pc = "idle"
BY DEF Accounted, K!Idle

\* The books, seen from the step before.
LEMMA SeenBefore ==
  /\ NumbersApart(order)' <=> NumbersApart(order')
  /\ Regular(order, station)' <=> Regular(order', station')
  /\ BooksAgree(order, station)' <=> BooksAgree(order', station')
BY DEF NumbersApart, Regular, Sound, BooksAgree, Served, Counts

\* A request that has found something goes on to hold what it accounts for.
LEMMA HeldOn ==
  ASSUME NEW q, Accounted(q), UNCHANGED <<order, station>>,
         NumbersApart(order), Regular(order, station)
  PROVE  Accounted(q)' /\ NumbersApart(order)' /\ Regular(order, station)'
<1>1. NumbersApart(order)' /\ Regular(order, station)'
  BY DEF NumbersApart, Regular, Sound
<1>2. Accounted(q)'
  BY DEF Accounted, Placed, Saved, Replacing, Counted, Sound
<1> QED
  BY <1>1, <1>2

\* The station's row is as its save has found it: the save writes what it holds.
LEMMA FoundStation ==
  ASSUME KitchenInv, NEW h \in Clerks, K!StationWritten(h), NEW r, r = serving[h],
         r.s \in Stations, r.was = station[r.s], station[r.s].there, r.books.there
  PROVE  station' = Counted(r)
<1>1. r.books \in K!Station /\ station[r.s] \in K!Station
  BY KitchenTypes DEF K!Request
<1>2. K!StationSaved(r.books, r.was, station[r.s]) = r.books
  <2>1. r.books.there = station[r.s].there
    BY <1>1 DEF K!Station
  <2>2. K!StationSaved(r.books, station[r.s], station[r.s]) = r.books
    BY <1>1, <2>1, StationSavedFacts
  <2> QED
    BY <2>2
<1>3. station' = [station EXCEPT ![r.s] = K!StationSaved(r.books, r.was, station[r.s])]
  BY Zenon DEF K!StationWritten
<1> QED
  BY <1>2, <1>3 DEF Counted

LEMMA WritesAccount ==
  ASSUME KitchenInv, BooksInv, office' = office, NEW h \in Clerks, K!WriteStep(h)
  PROVE  BooksInv'
<1> SUFFICES ASSUME office \notin Racing PROVE BooksInv'
  BY DEF BooksInv
<1> PICK r : r = serving[h]
  OBVIOUS
<1>1. /\ r \in K!Request /\ r.row \in K!Order /\ r.s \in Stations \cup {"none"}
      /\ Accounted(r) /\ NumbersApart(order) /\ Regular(order, station)
  BY KitchenTypes DEF BooksInv, K!Request
<1>2. CASE K!LoadStation(h)
  <2>1. r.pc = "queue" /\ UNCHANGED <<order, station>>
    BY <1>2 DEF K!LoadStation, K!At, K!Reading
  <2>2. NumbersApart(order)' /\ Regular(order, station)'
    BY <1>1, <2>1 DEF NumbersApart, Regular, Sound
  <2>3. CASE r.s # "none" /\ station[r.s].there
    <3> DEFINE books == [station[r.s] EXCEPT !.pending = K!OneLess(@),
                                             !.completed = @ + K!CompletedBy(r.row)]
    <3> PICK q : q = [r EXCEPT !.pc = "count", !.books = books]
      OBVIOUS
    <3>1. K!Becomes(h, q)
      BY <1>2, <2>3, Zenon DEF K!LoadStation
    <3>2. r.s \in Stations
      BY <1>1, <2>3
    <3>3. station[r.s] \in K!Station
      BY <3>2, KitchenTypes
    <3>4. /\ books.there /\ books.pending = K!OneLess(station[r.s].pending)
          /\ books.completed = station[r.s].completed + K!CompletedBy(r.row)
      BY <2>3, <3>3 DEF K!Station
    <3> HIDE DEF books
    <3>5. q.pc = "count" /\ q.o = r.o /\ q.row = r.row /\ q.s = r.s /\ q.books = books
      BY <1>1 DEF K!Request
    <3>6. BooksAgree(Saved(r), [station EXCEPT ![r.s] = books])
      BY <1>1, <2>1, <2>3, <3>2, <3>4, LoadedAgain
    <3>7. BooksAgree(Saved(q), Counted(q))
      BY <3>5, <3>6, Zenon DEF Saved, Counted
    <3>8. Placed(q)
      BY <1>1, <2>1, <3>5 DEF Accounted, Placed, Saved
    <3>9. Accounted(q)
      BY <2>3, <3>2, <3>4, <3>5, <3>7, <3>8 DEF Accounted
    <3>10. Accounted(q)'
      BY <2>1, <3>9 DEF Accounted, Placed, Saved, Replacing, Counted
    <3> QED
      BY <2>1, <2>2, <3>1, <3>5, <3>10, WriteAccounts DEF K!At
  <2>4. CASE ~(r.s # "none" /\ station[r.s].there)
    <3> PICK q : q = [r EXCEPT !.pc = "order"]
      OBVIOUS
    <3>1. K!Becomes(h, q)
      BY <1>2, <2>4, Zenon DEF K!LoadStation
    <3>2. q.pc = "order" /\ q.o = r.o /\ q.row = r.row /\ q.s = r.s
      BY <1>1 DEF K!Request
    <3>3. Placed(r) /\ r.row.station = "none" /\ order[r.o].station = "none"
          /\ BooksAgree(order, station)
      BY <1>1, <2>1, <2>4 DEF Accounted, Placed
    <3>4. BooksAgree(Saved(r), station)
      <4>1. ASSUME NEW s \in Stations, NEW S PROVE Served(Saved(r), s, S) = Served(order, s, S)
        <5>1. ~Counts(r.row, s, S) /\ ~Counts(order[r.o], s, S)
          BY <3>3, BackOfficeAssumption DEF BackOfficeAssumption, Counts
        <5>2. r.o \in K!Orders
          BY <3>3 DEF Placed
        <5> QED
          BY <1>1, <5>1, <5>2, KitchenTypes, ServedChanges DEF Saved
      <4> QED
        BY <3>3, <4>1 DEF BooksAgree
    <3>5. Saved(q) = Saved(r)
      BY <3>2 DEF Saved
    <3>6. Accounted(q)
      BY <3>2, <3>3, <3>4, <3>5 DEF Accounted, Placed
    <3>7. Accounted(q)'
      BY <2>1, <3>6 DEF Accounted, Placed, Saved, Replacing, Counted
    <3> QED
      BY <2>1, <2>2, <3>1, <3>2, <3>7, WriteAccounts DEF K!At
  <2> QED
    BY <2>3, <2>4
<1>3. CASE K!ReloadCount(h)
  <2>1. r.pc = "count" /\ UNCHANGED <<order, station>>
    BY <1>3 DEF K!ReloadCount, K!At, K!Reading
  <2> PICK q : q = [r EXCEPT !.pc = "counting", !.was = station[r.s]]
    OBVIOUS
  <2>2. K!Becomes(h, q)
    BY <1>1, <1>3, <2>1, Zenon DEF K!ReloadCount, Accounted
  <2>3. /\ q.pc = "counting" /\ q.o = r.o /\ q.row = r.row /\ q.s = r.s /\ q.books = r.books
        /\ q.was = station[r.s]
    BY <1>1 DEF K!Request
  <2>4. Accounted(q)
    BY <1>1, <2>1, <2>3 DEF Accounted, Placed, Saved, Counted
  <2> QED
    BY <1>1, <2>1, <2>2, <2>3, <2>4, HeldOn, WriteAccounts DEF K!At
<1>4. CASE K!CountAtStation(h)
  <2>1. r.pc = "counting" /\ order' = order
    BY <1>4 DEF K!CountAtStation, K!At
  <2>2. /\ Placed(r) /\ r.s \in Stations /\ station[r.s].there /\ r.books.there
        /\ r.was = station[r.s] /\ BooksAgree(Saved(r), Counted(r))
    BY <1>1, <2>1 DEF Accounted
  <2> PICK q : q = [r EXCEPT !.pc = "order"]
    OBVIOUS
  <2>3. station' = Counted(r) /\ K!Becomes(h, q)
    <3>1. K!StationWritten(h) /\ K!Becomes(h, q)
      BY <1>4, Zenon DEF K!CountAtStation
    <3> QED
      BY <1>1, <2>2, <3>1, FoundStation
  <2>4. q.pc = "order" /\ q.o = r.o /\ q.row = r.row
    BY <1>1 DEF K!Request
  <2>5. station'[r.s] = r.books /\ \A t \in Stations \ {r.s} : station'[t] = station[t]
    BY <2>2, <2>3, KitchenTypes DEF Counted
  <2>6. \A t \in Stations : station[t].there => station'[t].there
    BY <2>2, <2>5
  <2>7. \A o \in K!Orders : order[o].station # "none" => order[o].station \in Stations
    BY KitchenTypes DEF K!Order
  <2>8. NumbersApart(order)' /\ Regular(order, station)'
    BY <1>1, <2>1, <2>6, <2>7 DEF NumbersApart, Regular, Sound
  <2>9. Placed(q)' /\ Saved(q)' = Saved(r)
    <3>1. Saved(q)' = Saved(r)
      BY <2>1, <2>4 DEF Saved, Replacing
    <3>2. r.row.station # "none" => r.row.station \in Stations
      BY <1>1 DEF K!Order
    <3>3. NumbersApart(Saved(q))'
      BY <2>1, <2>2, <2>4 DEF NumbersApart, Placed, Saved, Replacing
    <3> QED
      BY <2>2, <2>4, <2>6, <3>1, <3>2, <3>3 DEF Placed
  <2>10. BooksAgree(Saved(q), station)'
    <3>1. BooksAgree(Saved(r), station')
      BY <2>2, <2>3
    <3> PICK new : new = Saved(r)
      OBVIOUS
    <3>2. BooksAgree(new, station)'
      BY <3>1 DEF BooksAgree, Served, Counts
    <3> QED
      BY <2>9, <3>2 DEF BooksAgree, Served, Counts
  <2>11. Accounted(q)'
    BY <2>4, <2>9, <2>10 DEF Accounted
  <2> QED
    BY <2>1, <2>3, <2>4, <2>8, <2>11, WriteAccounts DEF K!At
<1>5. CASE K!ReloadOrder(h)
  <2>1. r.pc = "order" /\ UNCHANGED <<order, station>>
    BY <1>5 DEF K!ReloadOrder, K!At, K!Reading
  <2> PICK q : q = [r EXCEPT !.pc = "ordering", !.base = order[r.o]]
    OBVIOUS
  <2>2. K!Becomes(h, q)
    BY <1>5, Zenon DEF K!ReloadOrder
  <2>3. q.pc = "ordering" /\ q.o = r.o /\ q.row = r.row /\ q.base = order[r.o]
    BY <1>1 DEF K!Request
  <2>4. Accounted(q)
    BY <1>1, <2>1, <2>3 DEF Accounted, Placed, Saved
  <2> QED
    BY <1>1, <2>1, <2>2, <2>3, <2>4, HeldOn, WriteAccounts DEF K!At
<1>6. CASE K!SaveOrder(h)
  <2>1. r.pc = "ordering" /\ K!Becomes(h, K!Idle) /\ station' = station
    BY <1>6 DEF K!SaveOrder, K!At
  <2>2. Placed(r) /\ BooksAgree(Saved(r), station) /\ r.base = order[r.o]
    BY <1>1, <2>1 DEF Accounted
  <2>3. order' = Saved(r)
    <3>1. order' = [order EXCEPT ![r.o] = K!OrderSaved(r.row, r.base, order[r.o])]
      BY <1>6, <2>2, Zenon DEF K!SaveOrder, Placed
    <3>2. order[r.o] \in K!Order
      BY <2>2, KitchenTypes DEF Placed
    <3>3. K!OrderSaved(r.row, r.base, order[r.o]) = r.row
      BY <1>1, <2>2, <3>2, OrderSavedFacts
    <3> QED
      BY <3>1, <3>3 DEF Saved, Replacing
  <2>4. NumbersApart(order') /\ BooksAgree(order', station')
    BY <2>1, <2>2, <2>3 DEF Placed
  <2>5. order'[r.o] = r.row /\ \A p \in K!Orders \ {r.o} : order'[p] = order[p]
    BY <2>2, <2>3, KitchenTypes DEF Placed, Saved, Replacing
  <2>6. Regular(order', station')
    BY <1>1, <2>1, <2>2, <2>5 DEF Regular, Sound, Placed
  <2> QED
    BY <2>1, <2>4, <2>6, SeenBefore, NothingHeld, WriteAccounts DEF K!At
<1>7. CASE K!ReloadStation(h)
  <2>1. r.pc = "station" /\ order' = order
    BY <1>7 DEF K!ReloadStation, K!At
  <2> PICK q : q = [r EXCEPT !.pc = "changing", !.was = station[r.s]]
    OBVIOUS
  <2>2. K!Becomes(h, q) /\ station' = station
    BY <1>1, <1>7, <2>1, Zenon DEF K!ReloadStation, Accounted
  <2>3. q.pc = "changing" /\ q.s = r.s /\ q.books = r.books /\ q.was = station[r.s]
    BY <1>1 DEF K!Request
  <2>4. Accounted(q)
    BY <1>1, <2>1, <2>3 DEF Accounted
  <2> QED
    BY <1>1, <2>1, <2>2, <2>3, <2>4, HeldOn, WriteAccounts DEF K!At
<1>8. CASE K!SaveStation(h)
  <2>1. /\ r.pc = "changing" /\ K!Becomes(h, K!Idle) /\ order' = order /\ K!StationWritten(h)
    BY <1>8, Zenon DEF K!SaveStation, K!At
  <2>2. /\ BooksAgree(order, station) /\ r.s \in Stations /\ r.books.there
        /\ station[r.s].there /\ r.was = station[r.s]
        /\ r.books.pending = station[r.s].pending /\ r.books.completed = station[r.s].completed
    BY <1>1, <2>1 DEF Accounted
  <2>7. station' = [station EXCEPT ![r.s] = r.books]
    BY <1>1, <2>1, <2>2, FoundStation DEF Counted
  <2>3. station'[r.s] = r.books /\ \A t \in Stations \ {r.s} : station'[t] = station[t]
    BY <2>2, <2>7, KitchenTypes
  <2>4. \A o \in K!Orders : order[o].station # "none" => order[o].station \in Stations
    BY KitchenTypes DEF K!Order
  <2>5. Regular(order, station')
    BY <1>1, <2>2, <2>3, <2>4 DEF Regular, Sound
  <2>6. BooksAgree(order, station')
    BY <2>2, <2>3 DEF BooksAgree
  <2> QED
    BY <1>1, <2>1, <2>5, <2>6, SeenBefore, NothingHeld, WriteAccounts DEF K!At
<1>9. CASE K!RemoveStation(h)
  <2>1. /\ r.pc = "remove" /\ K!Becomes(h, K!Idle)
        /\ station' = [station EXCEPT ![r.s] = K!NoStation]
        /\ order' = [o \in K!Orders |->
             IF order[o].station = r.s THEN [order[o] EXCEPT !.station = "none"] ELSE order[o]]
    BY <1>9, Zenon DEF K!RemoveStation, K!At
  <2>2. BooksAgree(order, station)
    BY <1>1, <2>1 DEF Accounted
  <2>3. ASSUME NEW o \in K!Orders
        PROVE  /\ order'[o].status = order[o].status /\ order'[o].invoice = order[o].invoice
               /\ order'[o].station = IF order[o].station = r.s THEN "none" ELSE order[o].station
    <3>1. order[o] \in K!Order
      BY KitchenTypes
    <3>2. order'[o] = IF order[o].station = r.s THEN [order[o] EXCEPT !.station = "none"] ELSE order[o]
      BY <2>1
    <3> QED
      BY <3>1, <3>2 DEF K!Order
  <2>4. NumbersApart(order')
    BY <1>1, <2>3 DEF NumbersApart
  <2>5. \A t \in Stations \ {r.s} : station'[t] = station[t]
    BY <2>1, KitchenTypes
  <2>6. r.s \in Stations => ~station'[r.s].there
    BY <2>1, KitchenTypes DEF K!NoStation
  <2>7. \A o \in K!Orders : order[o].station # "none" => order[o].station \in Stations
    BY KitchenTypes DEF K!Order
  <2>8. Regular(order', station')
    BY <1>1, <2>3, <2>5, <2>7 DEF Regular, Sound
  <2>9. BooksAgree(order', station')
    <3>1. ASSUME NEW t \in Stations \ {r.s}, NEW S PROVE Served(order', t, S) = Served(order, t, S)
      <4>1. \A o \in K!Orders : Counts(order'[o], t, S) <=> Counts(order[o], t, S)
        BY <2>3, BackOfficeAssumption DEF BackOfficeAssumption, Counts
      <4>2. {o \in K!Orders : Counts(order'[o], t, S)} = {o \in K!Orders : Counts(order[o], t, S)}
        BY <4>1
      <4> QED
        BY <4>2 DEF Served
    <3> QED
      BY <2>2, <2>5, <2>6, <3>1 DEF BooksAgree
  <2> QED
    BY <2>1, <2>4, <2>8, <2>9, SeenBefore, NothingHeld, WriteAccounts DEF K!At
<1> QED
  BY <1>2, <1>3, <1>4, <1>5, <1>6, <1>7, <1>8, <1>9 DEF K!WriteStep

LEMMA BooksStart == ASSUME K!Init PROVE BooksInv
<1>1. \A h \in Clerks : serving[h] = K!Idle
  BY DEF K!Init
<1>2. \A h \in Clerks : serving[h].pc = "idle" /\ Accounted(serving[h])
  BY <1>1 DEF Accounted, K!Idle
<1>3. NumbersApart(order) /\ Regular(order, station) /\ BooksAgree(order, station)
  BY DEF K!Init, NumbersApart, Regular, Sound, BooksAgree, K!NoOrder, K!NoStation
<1> QED
  BY <1>2, <1>3 DEF BooksInv, K!At

LEMMA BooksStutter ==
  ASSUME KitchenInv, BooksInv, UNCHANGED <<kitchenVars, office>>
  PROVE  BooksInv'
<1>1. UNCHANGED <<order, station, serving, office>>
  BY DEF kitchenVars
<1>2. \A h \in Clerks : Accounted(serving[h])' <=> Accounted(serving[h])
  BY <1>1 DEF Accounted, Placed, Saved, Replacing, Counted, BooksAgree, NumbersApart, Served, Counts
<1> QED
  BY <1>1, <1>2 DEF BooksInv, NumbersApart, Regular, Sound, BooksAgree, Served, Counts, K!InTurn, K!At

LEMMA BooksInvariant == MCSpec => []BooksInv
<1>1. MCInit => BooksInv
  BY BooksStart DEF MCInit
<1>2. KitchenInv /\ BooksInv /\ [MCNext]_<<allVars, office>> => BooksInv'
  <2> SUFFICES ASSUME KitchenInv, BooksInv, [MCNext]_<<allVars, office>> PROVE BooksInv'
    OBVIOUS
  <2>1. \/ UNCHANGED <<kitchenVars, office>>
        \/ office' = office /\ \E h \in Clerks : (Turn /\ K!LoadStep(h)) \/ K!WriteStep(h)
    BY DEF MCNext, allVars
  <2>2. ASSUME NEW h \in Clerks, Turn, office' = office, K!LoadStep(h) PROVE BooksInv'
    BY <2>2, PlacedAccounts, OrderLoadsAccount, AcceptAccounts, StationLoadsAccount,
       StationAddedAccounts DEF K!LoadStep
  <2> QED
    BY <2>1, <2>2, WritesAccount, BooksStutter
<1> QED
  BY <1>1, <1>2, KitchenInvariant, PTL DEF MCSpec

\* One request at a time: exactly the delivered orders have an invoice, no two of
\* them the same, and each station's completed count is the number of its
\* delivered orders, its pending count misses none that is not served, by
\* whatever routes the orders and the stations went.
THEOREM KitchenBooksKept == MCSpec => []KitchenBooksAgree
<1>1. BooksInv => KitchenBooksAgree
  <2> SUFFICES ASSUME BooksInv, InTurn PROVE
            K!InvoicesApart /\ K!InvoicedIffDelivered /\ K!StationBooksAgree
    BY DEF KitchenBooksAgree
  <2>1. NumbersApart(order) /\ Regular(order, station) /\ BooksAgree(order, station)
    BY DEF InTurn, BooksInv
  <2>2. K!InvoicesApart /\ K!InvoicedIffDelivered
    BY <2>1 DEF NumbersApart, Regular, Sound, K!InvoicesApart, K!InvoicedIffDelivered
  <2>3. K!StationBooksAgree
    BY <2>1 DEF BooksAgree, Served, Counts, Cooking, K!StationBooksAgree, K!Cardinality, Cardinality
  <2> QED
    BY <2>2, <2>3
<1> QED
  BY <1>1, BooksInvariant, PTL

-----------------------------------------------------------------------------
(* Tips, cash-outs and bonuses: the types.                                 *)

\* Whom a request is about; a bonus is booked once, after it was given.
PayrollInv ==
  /\ P!TypeOK
  /\ \A g \in Guests : bonus[g].booked <= bonus[g].given
  /\ \A h \in Clerks :
       /\ cashing[h].pc = "pay" => cashing[h].who \in Dealers \cup Managers
       /\ cashing[h].pc = "book" => /\ cashing[h].who \in Guests
                                    /\ bonus[cashing[h].who].given = 1
                                    /\ bonus[cashing[h].who].booked = 0
  /\ \A g, h \in Clerks : cashing[g].pc = "book" /\ cashing[h].pc = "book"
                          /\ cashing[g].who = cashing[h].who => g = h

LEMMA PartIsNat ==
  ASSUME NEW total \in Nat, NEW percent \in Nat
  PROVE  P!Part(total, percent) \in Nat
<1>1. total * percent \in Nat
  OBVIOUS
<1>2. ASSUME NEW n \in Nat PROVE n \div 100 \in Nat
  OBVIOUS
<1> QED
  BY <1>1, <1>2 DEF P!Part

LEMMA InForceIsSplit ==
  ASSUME PayrollInv, NEW d \in Dealers \cup {"club"}
  PROVE  P!InForce(d) \in P!Split
<1>1. settings[d] \in P!Split \cup {P!NoSettings} /\ settings["club"] \in P!Split \cup {P!NoSettings}
  BY DEF PayrollInv, P!TypeOK
<1>2. P!Default \in P!Split
  BY DEF P!Default, P!Split
<1> QED
  BY <1>1, <1>2 DEF P!InForce

LEMMA SettingsTypes ==
  ASSUME PayrollInv, P!SettingsStep
  PROVE  PayrollInv'
<1>1. PICK d \in Dealers \cup {"club"}, split \in P!Split :
        settings' = [settings EXCEPT ![d] = split] /\ UNCHANGED <<tip, paid, bonus, cashing>>
  <2>1. PICK d \in Dealers \cup {"club"} :
          P!GetTipSettings(d) \/ \E split \in Forms : P!UpdateTipSettings(d, split)
    BY DEF P!SettingsStep
  <2>2. P!InForce(d) \in P!Split /\ Forms \subseteq P!Split
    BY InForceIsSplit, BackOfficeAssumption DEF BackOfficeAssumption
  <2> QED
    BY <2>1, <2>2 DEF P!GetTipSettings, P!UpdateTipSettings
<1>2. settings' \in [Dealers \cup {"club"} -> P!Split \cup {P!NoSettings}]
  BY <1>1 DEF PayrollInv, P!TypeOK
<1> QED
  BY <1>1, <1>2 DEF PayrollInv, P!TypeOK

LEMMA TipTypes ==
  ASSUME PayrollInv, NEW t \in Tips, NEW d \in Dealers, NEW m \in Managers \cup {"none"},
         NEW total \in TipTotals, P!ProcessDealerTips(t, d, m, total)
  PROVE  PayrollInv'
<1> PICK split : split = P!InForce(d)
  OBVIOUS
<1>1. split \in P!Split /\ total \in Nat
  BY InForceIsSplit, BackOfficeAssumption DEF BackOfficeAssumption
<1> PICK row : row = [dealer |-> d, manager |-> m, total |-> total,
       hold |-> P!Part(total, split.club), share |-> P!Part(total, split.dealer),
       floor |-> P!Part(total, split.manager)]
  OBVIOUS
<1>2. row \in P!Tip
  <2>1. split.club \in Nat /\ split.dealer \in Nat /\ split.manager \in Nat
    BY <1>1 DEF P!Split
  <2>2. /\ P!Part(total, split.club) \in Nat /\ P!Part(total, split.dealer) \in Nat
        /\ P!Part(total, split.manager) \in Nat
    BY <1>1, <2>1, PartIsNat
  <2> QED
    BY <1>1, <2>2 DEF P!Tip
<1>3. /\ settings' = [settings EXCEPT ![d] = split] /\ tip' = [tip EXCEPT ![t] = row]
      /\ UNCHANGED <<paid, bonus, cashing>>
  BY Zenon DEF P!ProcessDealerTips
<1>4. /\ settings' \in [Dealers \cup {"club"} -> P!Split \cup {P!NoSettings}]
      /\ tip' \in [Tips -> P!Tip]
  BY <1>1, <1>2, <1>3 DEF PayrollInv, P!TypeOK
<1> QED
  BY <1>3, <1>4 DEF PayrollInv, P!TypeOK

LEMMA CashTypes ==
  ASSUME PayrollInv, NEW h \in Clerks, P!CashStep(h)
  PROVE  PayrollInv'
<1>1. ASSUME NEW s \in Dealers \cup Managers, NEW amount \in Amounts, P!Cashout(h, s, amount)
      PROVE  PayrollInv'
  <2> PICK r : r = [pc |-> "pay", who |-> s, amount |-> amount]
    OBVIOUS
  <2>1. cashing' = [cashing EXCEPT ![h] = r] /\ UNCHANGED <<settings, tip, paid, bonus>>
    BY <1>1, Zenon DEF P!Cashout
  <2>2. amount \in Nat
    BY BackOfficeAssumption DEF BackOfficeAssumption
  <2>3. r \in P!Request /\ r.pc = "pay" /\ r.who = s
    BY <2>2 DEF P!Request
  <2>4. cashing' \in [Clerks -> P!Request] /\ cashing'[h] = r
        /\ \A g \in Clerks \ {h} : cashing'[g] = cashing[g]
    BY <2>1, <2>3 DEF PayrollInv, P!TypeOK
  <2> QED
    BY <2>1, <2>3, <2>4 DEF PayrollInv, P!TypeOK
<1>2. ASSUME NEW g \in Guests, P!ProcessPlayerBonus(h, g)
      PROVE  PayrollInv'
  <2> PICK r : r = [pc |-> "book", who |-> g, amount |-> 0]
    OBVIOUS
  <2> PICK n : n = [bonus[g] EXCEPT !.given = @ + 1]
    OBVIOUS
  <2>1. /\ bonus[g].given < P!MaxBonuses /\ bonus' = [bonus EXCEPT ![g] = n]
        /\ cashing' = [cashing EXCEPT ![h] = r] /\ UNCHANGED <<settings, tip, paid>>
    BY <1>2 DEF P!ProcessPlayerBonus
  <2>2. bonus[g] \in P!Bonus /\ bonus[g].booked <= bonus[g].given
    BY DEF PayrollInv, P!TypeOK
  <2>3. bonus[g].given = 0 /\ bonus[g].booked = 0
    BY <2>1, <2>2 DEF P!Bonus, P!MaxBonuses
  <2>4. n \in P!Bonus /\ n.given = 1 /\ n.booked = 0
    BY <2>2, <2>3 DEF P!Bonus, P!MaxBonuses
  <2>5. r \in P!Request /\ r.pc = "book" /\ r.who = g
    BY DEF P!Request
  <2>6. cashing' \in [Clerks -> P!Request] /\ cashing'[h] = r
        /\ \A f \in Clerks \ {h} : cashing'[f] = cashing[f]
    BY <2>1, <2>5 DEF PayrollInv, P!TypeOK
  <2>7. bonus' \in [Guests -> P!Bonus] /\ bonus'[g] = n
        /\ \A f \in Guests \ {g} : bonus'[f] = bonus[f]
    BY <2>1, <2>4 DEF PayrollInv, P!TypeOK
  <2>8. \A f \in Clerks : cashing[f].pc = "book" => cashing[f].who \in Guests \ {g}
    BY <2>3 DEF PayrollInv
  <2>9. P!TypeOK'
    BY <2>1, <2>6, <2>7 DEF PayrollInv, P!TypeOK
  <2>10. \A f \in Guests : bonus'[f].booked <= bonus'[f].given
    <3>1. bonus'[g].booked <= bonus'[g].given
      BY <2>4, <2>7
    <3>2. \A f \in Guests \ {g} : bonus'[f].booked <= bonus'[f].given
      BY <2>7 DEF PayrollInv
    <3> QED
      BY <3>1, <3>2
  <2>11. ASSUME NEW f \in Clerks
         PROVE  /\ cashing'[f].pc = "pay" => cashing'[f].who \in Dealers \cup Managers
                /\ cashing'[f].pc = "book" => /\ cashing'[f].who \in Guests
                                              /\ bonus'[cashing'[f].who].given = 1
                                              /\ bonus'[cashing'[f].who].booked = 0
    <3>1. CASE f = h
      BY <2>4, <2>5, <2>6, <2>7, <3>1
    <3>2. CASE f # h
      BY <2>6, <2>7, <2>8, <3>2 DEF PayrollInv
    <3> QED
      BY <3>1, <3>2
  <2>12. (\A e, f \in Clerks : cashing[e].pc = "book" /\ cashing[f].pc = "book"
                              /\ cashing[e].who = cashing[f].who => e = f)'
    BY <2>5, <2>6, <2>8 DEF PayrollInv
  <2> QED
    BY <2>9, <2>10, <2>11, <2>12 DEF PayrollInv
<1> QED
  BY <1>1, <1>2, TipTypes
  DEF P!CashStep, P!ProcessDealerCashout, P!ProcessManagerCashout

LEMMA PaidTypes ==
  ASSUME PayrollInv, NEW h \in Clerks, P!WriteStep(h)
  PROVE  PayrollInv'
<1>1. cashing[h] \in P!Request /\ P!Idle \in P!Request /\ P!Idle.pc = "idle"
  BY DEF PayrollInv, P!TypeOK, P!Idle, P!Request
<1>2. ASSUME cashing' = [cashing EXCEPT ![h] = P!Idle]
      PROVE  /\ cashing' \in [Clerks -> P!Request] /\ cashing'[h].pc = "idle"
             /\ \A g \in Clerks \ {h} : cashing'[g] = cashing[g]
  BY <1>1, <1>2 DEF PayrollInv, P!TypeOK
<1>3. CASE P!InsertCashout(h)
  <2>1. /\ cashing[h].pc = "pay" /\ cashing' = [cashing EXCEPT ![h] = P!Idle]
        /\ paid' = [paid EXCEPT ![cashing[h].who] = @ + cashing[h].amount]
        /\ UNCHANGED <<settings, tip, bonus>>
    BY <1>3, Zenon DEF P!InsertCashout
  <2>2. cashing[h].who \in Dealers \cup Managers /\ cashing[h].amount \in Nat
    BY <1>1, <2>1 DEF PayrollInv, P!Request
  <2>3. paid' \in [Dealers \cup Managers -> Nat]
    BY <2>1, <2>2 DEF PayrollInv, P!TypeOK
  <2> QED
    BY <1>2, <2>1, <2>3 DEF PayrollInv, P!TypeOK
<1>4. ASSUME NEW fails \in BOOLEAN, P!BookBonus(h, fails)
      PROVE  PayrollInv'
  <2> PICK who : who = cashing[h].who
    OBVIOUS
  <2> PICK n : n = [bonus[who] EXCEPT !.booked = @ + 1]
    OBVIOUS
  <2>1. /\ cashing[h].pc = "book" /\ cashing' = [cashing EXCEPT ![h] = P!Idle]
        /\ bonus' = bonus \/ bonus' = [bonus EXCEPT ![who] = n]
        /\ UNCHANGED <<settings, tip, paid>>
    BY <1>4 DEF P!BookBonus
  <2>2. /\ who \in Guests /\ bonus[who].given = 1 /\ bonus[who].booked = 0
        /\ bonus[who] \in P!Bonus
    BY <2>1 DEF PayrollInv, P!TypeOK
  <2>3. n \in P!Bonus /\ n.given = 1 /\ n.booked = 1
    BY <2>2 DEF P!Bonus, P!MaxBonuses
  <2>4. /\ bonus' \in [Guests -> P!Bonus]
        /\ \A f \in Guests \ {who} : bonus'[f] = bonus[f]
        /\ bonus'[who] \in {n, bonus[who]}
    BY <2>1, <2>2, <2>3 DEF PayrollInv, P!TypeOK
  <2>5. \A g \in Clerks \ {h} : cashing[g].pc = "book" => cashing[g].who # who
    BY <2>1 DEF PayrollInv
  <2>6. P!TypeOK'
    BY <1>2, <2>1, <2>4 DEF PayrollInv, P!TypeOK
  <2>7. \A g \in Guests : bonus'[g].booked <= bonus'[g].given
    <3>1. bonus'[who].booked <= bonus'[who].given
      <4>1. bonus'[who] = n \/ bonus'[who] = bonus[who]
        BY <2>4
      <4>2. n.booked <= n.given /\ bonus[who].booked <= bonus[who].given
        BY <2>2, <2>3
      <4> QED
        BY <4>1, <4>2
    <3>2. \A g \in Guests \ {who} : bonus'[g].booked <= bonus'[g].given
      BY <2>4 DEF PayrollInv
    <3> QED
      BY <3>1, <3>2
  <2> QED
    BY <1>2, <2>1, <2>4, <2>5, <2>6, <2>7 DEF PayrollInv
<1> QED
  BY <1>3, <1>4 DEF P!WriteStep

LEMMA PayrollInvariant == MCSpec => []PayrollInv
<1>1. MCInit => PayrollInv
  <2> SUFFICES ASSUME P!Init PROVE PayrollInv
    BY DEF MCInit
  <2>1. /\ P!NoTip \in P!Tip /\ P!Idle \in P!Request /\ P!Idle.pc = "idle"
        /\ [given |-> 0, booked |-> 0] \in P!Bonus
    BY DEF P!NoTip, P!Tip, P!Idle, P!Request, P!Bonus, P!MaxBonuses
  <2>2. P!TypeOK
    BY <2>1 DEF P!Init, P!TypeOK
  <2> QED
    BY <2>1, <2>2 DEF P!Init, PayrollInv
<1>2. PayrollInv /\ [MCNext]_<<allVars, office>> => PayrollInv'
  <2> SUFFICES ASSUME PayrollInv, [MCNext]_<<allVars, office>> PROVE PayrollInv'
    OBVIOUS
  <2>1. \/ UNCHANGED payrollVars
        \/ P!SettingsStep
        \/ \E h \in Clerks : P!CashStep(h) \/ P!WriteStep(h)
    BY DEF MCNext, allVars
  <2>2. CASE UNCHANGED payrollVars
    BY <2>2 DEF payrollVars, PayrollInv, P!TypeOK
  <2> QED
    BY <2>1, <2>2, SettingsTypes, CashTypes, PaidTypes
<1> QED
  BY <1>1, <1>2, PTL DEF MCSpec

\* Every variable of the three modules keeps its type, at every office, whether
\* requests take turns or overlap: hours and numbers stay within their bounds,
\* and a bonus is booked once at most.
THEOREM TypesKeptEverywhere == MCSpec => []AllTypesOK
<1>1. WorkforceInv /\ KitchenInv /\ PayrollInv => AllTypesOK
  BY DEF WorkforceInv, TypesKept, KitchenInv, PayrollInv, AllTypesOK
<1> QED
  BY <1>1, WorkforceInvariant, KitchenInvariant, PayrollInvariant, PTL

-----------------------------------------------------------------------------
(* Cash-outs.                                                              *)

Shares == [t \in Tips |-> tip[t].share]
Floors == [t \in Tips |-> tip[t].floor]
Earns(s) == IF s \in Dealers THEN Total(Shares, {t \in Tips : tip[t].dealer = s})
            ELSE Total(Floors, {t \in Tips : tip[t].manager = s})

\* What a request under way is about to pay is covered as well.
CoveredInv ==
  office \notin Racing =>
    /\ \A g, h \in Clerks : cashing[g].pc # "idle" /\ cashing[h].pc # "idle" => g = h
    /\ \A s \in Dealers \cup Managers : paid[s] <= Earns(s)
    /\ \A h \in Clerks : cashing[h].pc = "pay" =>
         paid[cashing[h].who] + cashing[h].amount <= Earns(cashing[h].who)

\* What staff earned, as the sums of Sums.
LEMMA EarnedAdded ==
  ASSUME IsFiniteSet(Tips), PayrollInv, NEW s
  PROVE  P!Earned(s) = Earns(s) /\ Earns(s) \in Int
<1>1. ASSUME NEW T \in SUBSET Tips
      PROVE  /\ P!MapThenSumSet(LAMBDA t : tip[t].share, T) = Total(Shares, T)
             /\ Total(Shares, T) \in Int
  <2> DEFINE Adds(h) == h = [x \in SUBSET T |->
                               IF x = {} THEN 0 ELSE tip[Pick(x)].share + h[x \ {Pick(x)}]]
  <2>1. \A t \in Tips : Shares[t] = tip[t].share /\ Shares[t] \in Int
    BY DEF PayrollInv, P!TypeOK, P!Tip, Shares
  <2>2. IsFiniteSet(T) /\ Shares \in [Tips -> Int]
    BY <2>1, FS_Subset DEF Shares
  <2>3. PICK g : g[T] = Total(Shares, T) /\ \A h : AddsUp(h, Shares, T) <=> h = g
    BY <2>1, <2>2, SumSolved
  <2>4. \A h : Adds(h) <=> h = g
    <3>1. \A x \in SUBSET T : x # {} => Shares[Pick(x)] = tip[Pick(x)].share
      BY <2>1, PickIn
    <3>2. \A h : Adds(h) <=> AddsUp(h, Shares, T)
      BY <3>1 DEF AddsUp
    <3> HIDE DEF Adds
    <3> QED
      BY <2>3, <3>2
  <2>5. P!MapThenSumSet(LAMBDA t : tip[t].share, T) = g[T]
    BY <2>4, Zenon DEF P!MapThenSumSet, P!MapThenFoldSet, Pick
  <2> QED
    BY <2>2, <2>3, <2>5, TotalFacts
<1>2. ASSUME NEW T \in SUBSET Tips
      PROVE  /\ P!MapThenSumSet(LAMBDA t : tip[t].floor, T) = Total(Floors, T)
             /\ Total(Floors, T) \in Int
  <2> DEFINE Adds(h) == h = [x \in SUBSET T |->
                               IF x = {} THEN 0 ELSE tip[Pick(x)].floor + h[x \ {Pick(x)}]]
  <2>1. \A t \in Tips : Floors[t] = tip[t].floor /\ Floors[t] \in Int
    BY DEF PayrollInv, P!TypeOK, P!Tip, Floors
  <2>2. IsFiniteSet(T) /\ Floors \in [Tips -> Int]
    BY <2>1, FS_Subset DEF Floors
  <2>3. PICK g : g[T] = Total(Floors, T) /\ \A h : AddsUp(h, Floors, T) <=> h = g
    BY <2>1, <2>2, SumSolved
  <2>4. \A h : Adds(h) <=> h = g
    <3>1. \A x \in SUBSET T : x # {} => Floors[Pick(x)] = tip[Pick(x)].floor
      BY <2>1, PickIn
    <3>2. \A h : Adds(h) <=> AddsUp(h, Floors, T)
      BY <3>1 DEF AddsUp
    <3> HIDE DEF Adds
    <3> QED
      BY <2>3, <3>2
  <2>5. P!MapThenSumSet(LAMBDA t : tip[t].floor, T) = g[T]
    BY <2>4, Zenon DEF P!MapThenSumSet, P!MapThenFoldSet, Pick
  <2> QED
    BY <2>2, <2>3, <2>5, TotalFacts
<1> QED
  BY <1>1, <1>2 DEF P!Earned, Earns

\* A tip adds to what its dealer and its manager earned, and takes from nobody.
LEMMA TipCovers ==
  ASSUME IsFiniteSet(Tips), PayrollInv, "none" \notin Dealers \cup Managers,
         NEW t \in Tips, NEW d \in Dealers, NEW m \in Managers \cup {"none"},
         NEW total \in TipTotals, P!ProcessDealerTips(t, d, m, total),
         NEW s \in Dealers \cup Managers
  PROVE  Earns(s) <= Earns(s)' /\ Earns(s)' \in Int
<1>1. tip[t] = P!NoTip /\ P!TypeOK /\ P!TypeOK'
  BY TipTypes DEF P!ProcessDealerTips, PayrollInv
<1>2. /\ tip'[t].dealer = d /\ tip'[t].manager = m
      /\ \A x \in Tips \ {t} : tip'[x] = tip[x]
  <2> PICK row : row = [dealer |-> d, manager |-> m, total |-> total,
         hold |-> P!Part(total, P!InForce(d).club), share |-> P!Part(total, P!InForce(d).dealer),
         floor |-> P!Part(total, P!InForce(d).manager)]
    OBVIOUS
  <2>1. tip' = [tip EXCEPT ![t] = row]
    BY Zenon DEF P!ProcessDealerTips
  <2>2. row.dealer = d /\ row.manager = m
    OBVIOUS
  <2> QED
    BY <1>1, <2>1, <2>2 DEF P!TypeOK
<1>3. tip[t].dealer # s /\ tip[t].manager # s
  BY <1>1 DEF P!NoTip
<1>4. /\ Shares \in [Tips -> Int] /\ Shares' \in [Tips -> Int] /\ Shares'[t] >= 0
      /\ \A x \in Tips \ {t} : Shares[x] = Shares'[x]
  BY <1>1, <1>2 DEF Shares, P!TypeOK, P!Tip
<1>5. /\ Floors \in [Tips -> Int] /\ Floors' \in [Tips -> Int] /\ Floors'[t] >= 0
      /\ \A x \in Tips \ {t} : Floors[x] = Floors'[x]
  BY <1>1, <1>2 DEF Floors, P!TypeOK, P!Tip
<1>6. CASE s \in Dealers
  <2> DEFINE T == {x \in Tips : tip[x].dealer = s}
             U == {x \in Tips : tip'[x].dealer = s}
  <2>1. T \in SUBSET Tips /\ U = IF s = d THEN T \cup {t} ELSE T
    BY <1>2, <1>3
  <2>2. t \notin T
    BY <1>3
  <2> HIDE DEF T, U
  <2>3. Total(Shares, T) <= Total(Shares', T \cup {t})
    BY <1>4, <2>1, <2>2, TotalGrows
  <2>4. Total(Shares, T) = Total(Shares', T) /\ Total(Shares, T) \in Int
    BY <1>4, <2>1, <2>2, TotalSame, TotalFacts
  <2>5. Earns(s) = Total(Shares, T) /\ Earns(s)' = Total(Shares', U)
    BY <1>6 DEF Earns, T, U
  <2>6. Total(Shares', U) \in Int
    BY <1>4, <2>1, TotalFacts
  <2> QED
    BY <2>1, <2>3, <2>4, <2>5, <2>6
<1>7. CASE s \notin Dealers
  <2> DEFINE T == {x \in Tips : tip[x].manager = s}
             U == {x \in Tips : tip'[x].manager = s}
  <2>1. T \in SUBSET Tips /\ U = IF s = m THEN T \cup {t} ELSE T
    BY <1>2, <1>3
  <2>2. t \notin T
    BY <1>3
  <2> HIDE DEF T, U
  <2>3. Total(Floors, T) <= Total(Floors', T \cup {t})
    BY <1>5, <2>1, <2>2, TotalGrows
  <2>4. Total(Floors, T) = Total(Floors', T) /\ Total(Floors, T) \in Int
    BY <1>5, <2>1, <2>2, TotalSame, TotalFacts
  <2>5. Earns(s) = Total(Floors, T) /\ Earns(s)' = Total(Floors', U)
    BY <1>7 DEF Earns, T, U
  <2>6. Total(Floors', U) \in Int
    BY <1>5, <2>1, TotalFacts
  <2> QED
    BY <2>1, <2>3, <2>4, <2>5, <2>6
<1> QED
  BY <1>6, <1>7

\* Where the tips stay, so does what was earned.
LEMMA EarnedStays ==
  ASSUME UNCHANGED tip
  PROVE  \A s : Earns(s)' = Earns(s)
BY DEF Earns, Shares, Floors


LEMMA CashCovers ==
  ASSUME IsFiniteSet(Tips), "none" \notin Dealers \cup Managers, PayrollInv, CoveredInv,
         Turn, office' = office, NEW h \in Clerks, P!CashStep(h)
  PROVE  CoveredInv'
<1> SUFFICES ASSUME office \notin Racing PROVE CoveredInv'
  BY DEF CoveredInv
<1>1. /\ \A g \in Clerks : cashing[g].pc = "idle"
      /\ \A s \in Dealers \cup Managers : paid[s] <= Earns(s)
  BY DEF Turn, P!InTurn, CoveredInv
<1>2. ASSUME NEW s \in Dealers \cup Managers
      PROVE  paid[s] \in Nat /\ P!Earned(s) = Earns(s) /\ Earns(s) \in Int
  BY EarnedAdded DEF PayrollInv, P!TypeOK
<1>3. DOMAIN cashing = Clerks
  BY DEF PayrollInv, P!TypeOK
<1>4. ASSUME NEW t \in Tips, NEW d \in Dealers, NEW m \in Managers \cup {"none"},
             NEW total \in TipTotals, P!ProcessDealerTips(t, d, m, total)
      PROVE  CoveredInv'
  <2>1. UNCHANGED <<paid, cashing>>
    BY <1>4, Zenon DEF P!ProcessDealerTips
  <2>2. ASSUME NEW s \in Dealers \cup Managers PROVE paid[s] <= Earns(s)'
    <3>1. Earns(s) <= Earns(s)' /\ Earns(s)' \in Int
      BY <1>4, TipCovers
    <3> QED
      BY <1>1, <1>2, <3>1
  <2> QED
    BY <1>1, <2>1, <2>2 DEF CoveredInv
<1>5. ASSUME NEW s \in Dealers \cup Managers, NEW amount \in Amounts, P!Cashout(h, s, amount)
      PROVE  CoveredInv'
  <2> PICK r : r = [pc |-> "pay", who |-> s, amount |-> amount]
    OBVIOUS
  <2>1. /\ amount <= P!Earned(s) - paid[s] /\ cashing' = [cashing EXCEPT ![h] = r]
        /\ UNCHANGED <<tip, paid>>
    BY <1>5, Zenon DEF P!Cashout, P!Available
  <2>2. amount \in Nat
    BY BackOfficeAssumption DEF BackOfficeAssumption
  <2>3. paid[s] + amount <= Earns(s)
    BY <1>2, <2>1, <2>2
  <2>4. cashing'[h] = r /\ \A g \in Clerks \ {h} : cashing'[g].pc = "idle"
    BY <1>1, <1>3, <2>1
  <2>5. \A u : Earns(u)' = Earns(u)
    BY <2>1, EarnedStays
  <2>6. r.pc = "pay" /\ r.who = s /\ r.amount = amount
    OBVIOUS
  <2> QED
    BY <1>1, <2>1, <2>3, <2>4, <2>5, <2>6 DEF CoveredInv
<1>6. ASSUME NEW g \in Guests, P!ProcessPlayerBonus(h, g)
      PROVE  CoveredInv'
  <2> PICK r : r = [pc |-> "book", who |-> g, amount |-> 0]
    OBVIOUS
  <2>1. cashing' = [cashing EXCEPT ![h] = r] /\ UNCHANGED <<tip, paid>>
    BY <1>6, Zenon DEF P!ProcessPlayerBonus
  <2>2. cashing'[h] = r /\ r.pc = "book" /\ \A f \in Clerks \ {h} : cashing'[f].pc = "idle"
    BY <1>1, <1>3, <2>1
  <2>3. \A u : Earns(u)' = Earns(u)
    BY <2>1, EarnedStays
  <2> QED
    BY <1>1, <2>1, <2>2, <2>3 DEF CoveredInv
<1> QED
  BY <1>4, <1>5, <1>6 DEF P!CashStep, P!ProcessDealerCashout, P!ProcessManagerCashout

LEMMA PaidCovers ==
  ASSUME IsFiniteSet(Tips), PayrollInv, CoveredInv, office' = office, NEW h \in Clerks, P!WriteStep(h)
  PROVE  CoveredInv'
<1> SUFFICES ASSUME office \notin Racing PROVE CoveredInv'
  BY DEF CoveredInv
<1>1. /\ cashing[h].pc # "idle" /\ cashing' = [cashing EXCEPT ![h] = P!Idle] /\ UNCHANGED tip
      /\ \/ paid' = paid
         \/ /\ cashing[h].pc = "pay"
            /\ paid' = [paid EXCEPT ![cashing[h].who] = @ + cashing[h].amount]
  BY DEF P!WriteStep, P!InsertCashout, P!BookBonus
<1>2. \A g \in Clerks : cashing'[g].pc = "idle"
  <2>1. P!Idle.pc = "idle" /\ DOMAIN cashing = Clerks
    BY DEF P!Idle, PayrollInv, P!TypeOK
  <2>2. \A g \in Clerks \ {h} : cashing[g].pc = "idle"
    BY <1>1 DEF CoveredInv
  <2> QED
    BY <1>1, <2>1, <2>2
<1>3. \A u : Earns(u)' = Earns(u)
  BY <1>1, EarnedStays
<1>4. ASSUME NEW s \in Dealers \cup Managers PROVE paid'[s] <= Earns(s)
  <2>1. paid[s] <= Earns(s) /\ DOMAIN paid = Dealers \cup Managers
    BY DEF CoveredInv, PayrollInv, P!TypeOK
  <2>2. cashing[h].pc = "pay" =>
          paid[cashing[h].who] + cashing[h].amount <= Earns(cashing[h].who)
    BY DEF CoveredInv
  <2> QED
    BY <1>1, <2>1, <2>2
<1> QED
  BY <1>2, <1>3, <1>4 DEF CoveredInv

\* One request at a time, nobody has cashed out more than his recorded shares,
\* however the percentages went and whatever tips came in between: what is
\* about to be paid was compared with what was earned, and only that request
\* takes from it.
THEOREM CashoutsStayCovered ==
  ASSUME IsFiniteSet(Tips), "none" \notin Dealers \cup Managers
  PROVE  MCSpec => []CashoutsCovered
<1>1. MCInit /\ PayrollInv => CoveredInv
  <2> SUFFICES ASSUME P!Init, PayrollInv PROVE CoveredInv
    BY DEF MCInit
  <2>1. \A h \in Clerks : cashing[h].pc = "idle"
    BY DEF P!Init, P!Idle
  <2>2. ASSUME NEW s \in Dealers \cup Managers PROVE paid[s] = 0 /\ Earns(s) = 0
    <3>1. {t \in Tips : tip[t].dealer = s} = {} /\ {t \in Tips : tip[t].manager = s} = {}
      BY DEF P!Init, P!NoTip
    <3>2. Total(Shares, {}) = 0 /\ Total(Floors, {}) = 0
      <4>1. Shares \in [Tips -> Int] /\ Floors \in [Tips -> Int]
        BY DEF Shares, Floors, PayrollInv, P!TypeOK, P!Tip
      <4> QED
        BY <4>1, TotalFacts
    <3> QED
      BY <3>1, <3>2 DEF P!Init, Earns
  <2> QED
    BY <2>1, <2>2 DEF CoveredInv
<1>2. PayrollInv /\ CoveredInv /\ [MCNext]_<<allVars, office>> => CoveredInv'
  <2> SUFFICES ASSUME PayrollInv, CoveredInv, [MCNext]_<<allVars, office>> PROVE CoveredInv'
    OBVIOUS
  <2>1. office' = office
    BY DEF MCNext
  <2>2. \/ UNCHANGED <<tip, paid, cashing>>
        \/ \E h \in Clerks : (Turn /\ P!CashStep(h)) \/ P!WriteStep(h)
    BY DEF MCNext, allVars, payrollVars, P!SettingsStep, P!GetTipSettings, P!UpdateTipSettings
  <2>3. CASE UNCHANGED <<tip, paid, cashing>>
    BY <2>1, <2>3, EarnedStays DEF CoveredInv
  <2> QED
    BY <2>1, <2>2, <2>3, CashCovers, PaidCovers
<1>3. PayrollInv /\ CoveredInv => CashoutsCovered
  BY EarnedAdded DEF CoveredInv, CashoutsCovered, P!CashoutsCovered
<1> QED
  BY <1>1, <1>2, <1>3, PayrollInvariant, PTL DEF MCSpec
=============================================================================
