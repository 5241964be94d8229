SPECIFICATION MCSpec
CONSTANTS
  Players = {p1, p2}
  Handlers = {h1}
  Games = {"rummy"}
  BuyIns = {1}
  Sizes = {1, 2}
  Fees = {1}
  Lates = {1}
  Limit = 1
  Fund = 2
  ExitBalances = {0, 1}
  Prize = 1
  EditStatuses = {"active"}
  MaxColumns = 1
  MaxMinutes = 2
  MaxCharges = 2
  MaxEnds = 2
  Modes = {"rummy"}
  Ops = {"create", "register", "cancel"}
SYMMETRY Symmetry
CHECK_DEADLOCK FALSE
INVARIANTS RefundsWithinCharges
