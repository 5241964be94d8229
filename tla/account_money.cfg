SPECIFICATION MCSpec
CONSTANTS
  Handlers = {h1, h2}
  Amounts = {1}
  Limits = {1}
  MinBuyIn = 0
  MaxBuyIn = 0
  BuyIns = {b1}
  BuyOuts = {o1}
  Credits = {c1}
  Cap = 1
  PostTypes = {"Club Buy In", "Club Buy Out"}
  Ops = {"createTransaction", "assignSeat", "play", "approveBuyIn", "buyInRequest", "startCallTime", "approveBuyOut", "manualBuyOut", "requestCredit", "approveCredit", "enableCredit"}
  Modes = {"money"}
  NoId = NoId
SYMMETRY Symmetry
CHECK_DEADLOCK FALSE
INVARIANTS BooksBalance
