\* One order that is dead-lettered and put back by the operator.
SPECIFICATION StreamSpec
CONSTANTS
  o1 = o1 o2 = o2 w1 = w1 w2 = w2 n1 = n1 n2 = n2 d1 = d1 d2 = d2 g1 = g1 g2 = g2 g3 = g3
  Orders = {o1} Workers = {w1, w2}
  MaxAttempts = 2 Count = 2 MaxLen = 2 MaxUpsets = 1
  Alarms = {} Pods = {} AutoMedium = TRUE Annotates = TRUE BaseMin = 1
  NoPod = NoPod NoValue = NoValue
  Amounts = {5000} Entropies = {0}
  StressRunIds = {} NoRun = NoRun
CHECK_DEADLOCK FALSE
INVARIANTS RetryKeepsTheOrder
