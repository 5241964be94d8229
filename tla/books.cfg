SPECIFICATION MCSpec
CONSTANTS
  Players = {p1}
  Emails = {e1}
  Tilts = {i1}
  Pans = {}
  Changes = {c1}
  Affiliates = {}
  Payments = {}
  Amounts = {}
  Handlers = {h1, h2}
  MaxReferrals = 0
  Desks = {"books"}
  Racing = {}
  Txs = {x1}
  Products = {v1, v2}
  Types = {"Buy In", "Credit"}
  Posted = {1, 2}
  Prices = {1}
  Stocks = {0, 1}
  MaxPlayed = 1
  MaxSold = 2
SYMMETRY Symmetry
CHECK_DEADLOCK FALSE
INVARIANTS BooksTypeOK FirstAmountKept
PROPERTIES CancelledStays PurchaseCovered
