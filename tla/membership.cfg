SPECIFICATION MCSpec
CONSTANTS
  Players = {p1, p2}
  Emails = {e1, e2}
  Tilts = {i1, i2}
  Pans = {n1, n2}
  Changes = {c1, c2}
  Affiliates = {a1, a2}
  Payments = {t1, t2}
  Amounts = {1, 2}
  Handlers = {h1, h2}
  MaxReferrals = 2
  Txs = {x1}
  Products = {v1}
  Types = {"Credit"}
  Posted = {1}
  Prices = {1}
  Stocks = {0}
  MaxPlayed = 0
  MaxSold = 0
  Desks = {"papers", "reviews", "standing", "affiliates", "counter"}
  Racing = {"counter"}
SYMMETRY Symmetry
CHECK_DEADLOCK FALSE
INVARIANTS TypeOK IdentitiesUnique CommissionInSync
PROPERTIES PanImmutable ReviewIsFinal
