SPECIFICATION MCSpec
CONSTANTS
  Staff = {hr, boss, d1, d2}
  Hired = {hr, boss, d1}
  Owners = {boss}
  Approvers = {hr}
  Agents = {}
  Emails = {e1}
  LastDay = 3
  OffDays = {2}
  Leaves = {l1, l2}
  Quotas = {1, 2}
  Marks = {m1, m2}
  Tiers = {1, 2}
  MaxShifts = 2
  Clerks = {h1, h2}
  Offices = {"leave"}
  Racing = {"leave"}
  MaxOrders = 3
  MaxCount = 3
  Focus = {d1}
  Stations = {s1, s2}
  Dealers = {t1}
  Managers = {g1}
  Tips = {p1, p2}
  TipTotals = {20}
  Amounts = {5, 16}
  Forms <- Percentages
  Guests = {c1}
SYMMETRY Symmetry
CHECK_DEADLOCK FALSE
PROPERTIES LeaveDecisionStands
