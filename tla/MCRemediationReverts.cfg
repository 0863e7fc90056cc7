\* Production's autoscaler: nobody writes the annotations.
SPECIFICATION RemFairSpec
CONSTANTS
  n1 = n1 n2 = n2 d1 = d1 d2 = d2
  Alarms = {n1} Pods = {d1} AutoMedium = FALSE Annotates = FALSE BaseMin = 1
  NoPod = NoPod NoValue = NoValue
CHECK_DEADLOCK FALSE
PROPERTIES BumpRevertsItself
