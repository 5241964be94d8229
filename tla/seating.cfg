SPECIFICATION MCSpec
CONSTANTS
  Players = {p1, p2}
  Entries = {e1, e2}
  Tables = {t1}
  Seats = {1, 2}
  Handlers = {h1, h2}
  PartySizes = {1, 2}
  TableSizes = {1, 2}
  Games = {"poker"}
  MaxCalls = 1
  Ops = {"createWaitlistEntry", "joinWaitlist", "updateWaitlistEntry", "cancelWaitlistEntry", "deleteWaitlistEntry", "assignSeat", "unseatPlayer", "createTable", "updateTable", "deleteTable", "pauseSession", "resumeSession", "endSession", "updateSessionParams", "settleAndEnd", "startCallTime", "approveBuyOut", "rejectBuyOut", "manualBuyOut", "crash"}
  Modes = {"locked", "close", "in turn"}
  NoPlayer = NoPlayer
  NoEntry = NoEntry
  NoTable = NoTable
  NoSeat = NoSeat
SYMMETRY Symmetry
CHECK_DEADLOCK FALSE
INVARIANTS TypeOK SeatExclusive PeopleCounted 
PROPERTIES ImplementsSeatMap CancelledIsFinal 
