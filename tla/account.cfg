SPECIFICATION MCSpec
CONSTANTS
  Handlers = {h1, h2}
  Amounts = {1}
  Limits = {1, 2}
  MinBuyIn = 0
  MaxBuyIn = 1
  BuyIns = {b1, b2}
  BuyOuts = {o1, o2}
  Credits = {c1, c2}
  Cap = 1
  PostTypes = {}
  Ops = {"assignSeat", "unseatPlayer", "buyInRequest", "approveBuyIn", "rejectBuyIn", "startCallTime", "approveBuyOut", "rejectBuyOut", "manualBuyOut", "settleTable", "requestCredit", "approveCredit", "denyCredit", "updateLimit", "enableCredit", "updateCreditLimit", "disableCredit", "crash", "updateVisibility", "approveByDefault"}
  Modes = {"in turn", "credit"}
  NoId = NoId
SYMMETRY Symmetry
CHECK_DEADLOCK FALSE
INVARIANTS TypeOK LineInTurn OpenRequestHeld
PROPERTIES CreditDecisionFinal JoinWithinFacility
