\* Two placements that can wait for each other in a cycle, no cart; two events,
\* two deliveries at a time, an administrator who ships or refunds.
SPECIFICATION OrdersFairSpec
CONSTANTS
  None = None NoEvent = NoEvent
  r1 = r1 r2 = r2 p1 = p1 p2 = p2
  s1 = s1 s2 = s2 k1 = k1 c1 = c1 e1 = e1 e2 = e2 n1 = n1 n2 = n2 h1 = h1 h2 = h2
  Products = {p1, p2} Sessions = {s1, s2} Keys = {k1} Coupons = {c1} Emails = {e1, e2}
  InitStock <- MCInitStock MaxUses <- MCMaxUses InitCustomers <- MCInitCustomers
  Requests = {r1, r2} Adds = {}
  Params <- MCCrossParams AddParams = {} InitCart <- MCNoCart
  Events = {n1, n2} Handlers = {h1, h2} AdminStatuses = {"shipped", "refunded"}
CHECK_DEADLOCK FALSE
INVARIANTS OrdersTypeOK RefundedWasPaid
PROPERTIES LegalOrStale EveryEventAcked EveryPlacementEnds
