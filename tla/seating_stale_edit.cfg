SPECIFICATION MCSpec
CONSTANTS
  Players = {p1, p2}
  Entries = {e1, e2}
  Tables = {t1}
  Seats = {1, 2}
  Handlers = {h1, h2}
  PartySizes = {1}
  TableSizes = {2}
  Games = {"poker"}
  MaxCalls = 1
  Ops = {"createWaitlistEntry", "updateWaitlistEntry", "assignSeat", "unseatPlayer"}
  Modes = {"stale edit"}
  NoPlayer = NoPlayer
  NoEntry = NoEntry
  NoTable = NoTable
  NoSeat = NoSeat
SYMMETRY Symmetry
CHECK_DEADLOCK FALSE
INVARIANTS SeatExclusive
