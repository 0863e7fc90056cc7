SPECIFICATION Spec
CONSTANTS
  None = None
  r1 = r1 r3 = r3 r2 = r2 a1 = a1 a2 = a2 p1 = p1 p2 = p2
  s1 = s1 s2 = s2 k1 = k1 c1 = c1 e1 = e1 e2 = e2
  Requests = {r1, r2} Adds = {a1, a2} Products = {p1, p2} Sessions = {s1, s2}
  Keys = {k1} Coupons = {c1} Emails = {e1, e2}
  Params <- MCParams AddParams <- MCAddParams InitStock <- MCInitStock
  MaxUses <- MCMaxUses InitCustomers <- MCInitCustomers InitCart <- MCInitCart
CHECK_DEADLOCK FALSE
INVARIANTS IInv OneOrderPerKey AnswersArePlaced
  CouponUsesAreOrders PaymentColumnsAgree SecondChargeNeedsRollback CrmHearsTheTruth
PROPERTIES ShortOnlyWhenGone CartRowsLeaveWithAnOrder ImplementsOrderBook
