\* Two placements that redeem the same coupon, capped at one use.
SPECIFICATION Spec
CONSTANTS
  None = None
  r1 = r1 r2 = r2 r3 = r3 a1 = a1 a2 = a2 p1 = p1 p2 = p2
  s1 = s1 s2 = s2 k1 = k1 c1 = c1 e1 = e1 e2 = e2
  Products = {p1, p2} Sessions = {s1, s2} Keys = {k1} Coupons = {c1} Emails = {e1, e2}
  InitStock <- MCInitStock MaxUses <- MCMaxUses InitCustomers <- MCInitCustomers
  Requests = {r1, r2} Adds = {}
  Params <- MCCouponParams AddParams <- MCAddParams InitCart <- MCNoCart
CHECK_DEADLOCK FALSE
INVARIANTS CouponCapRespected
