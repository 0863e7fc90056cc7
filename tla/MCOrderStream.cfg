\* Two orders, two workers, one upset, room for three entries; two alarms at
\* two remediators; a payment of 50.00 or 90,000.00;
\* three stress runs.
SPECIFICATION StreamSpec
CONSTANTS
  o1 = o1 o2 = o2 w1 = w1 w2 = w2 n1 = n1 n2 = n2 d1 = d1 d2 = d2 g1 = g1 g2 = g2 g3 = g3
  Orders = {o1, o2} Workers = {w1, w2}
  MaxAttempts = 2 Count = 2 MaxLen = 3 MaxUpsets = 1
  Alarms = {n1, n2} Pods = {d1, d2} AutoMedium = TRUE Annotates = TRUE BaseMin = 1
  NoPod = NoPod NoValue = NoValue
  Amounts = {5000, 9000000} Entropies = {0, 29}
  StressRunIds = {g1, g2, g3} NoRun = NoRun
SYMMETRY Symmetry
CHECK_DEADLOCK FALSE
INVARIANTS StreamTypeOK NothingLost OneCopy ExecutedOnce DecisionStands RunnerKnowsItsK6
PROPERTIES OneStepDown
