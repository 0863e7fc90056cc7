\* Two overlapping pulls, a push, two orders, one change, edit or failure.
SPECIFICATION MCFairSpec
CONSTANTS
  p1 = p1 p2 = p2 q1 = q1 c1 = c1 c2 = c2 x1 = x1 Nothing = Nothing
  MaxOrders = 2 Depth = 1 Window = 2 Pulls = {p1, p2} Pushes = {q1}
  Customers = {c1, c2} Products = {x1} CustomerOf <- MCCustomerOf ProductOf <- MCProductOf
  Statuses = {"processing"} MaxEvents = 1
CHECK_DEADLOCK FALSE
INVARIANTS CrmIInv OneSetOfItems CirclesAreAboutNames
PROPERTIES CopiesConverge
