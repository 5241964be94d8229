SPECIFICATION MCSpec
CONSTANTS
  Players = {p1, p2}
  Handlers = {h1, h2}
  Games = {"poker", "rummy"}
  BuyIns = {1, 2}
  Sizes = {1, 2}
  Fees = {1}
  Lates = {0, 1}
  Limit = 1
  Fund = 2
  ExitBalances = {0, 1}
  Prize = 1
  EditStatuses = {"scheduled", "active"}
  MaxColumns = 1
  MaxMinutes = 2
  MaxCharges = 2
  MaxEnds = 2
  Modes = {"in turn", "stakes kept", "at once"}
  Ops = {"create", "register", "cancel", "start", "stop", "end", "delete", "exit", "rebuy", "update"}
SYMMETRY Symmetry
CHECK_DEADLOCK FALSE
INVARIANTS TypeOK CountIsExact StakesInTurn
PROPERTIES AdmitsInTurn PrizesOnce
