\* Three runs that the CRM and others ask for.
SPECIFICATION StressSpec
CONSTANTS
  g1 = g1 g2 = g2 g3 = g3
  StressRunIds = {g1, g2, g3} NoRun = NoRun
CHECK_DEADLOCK FALSE
INVARIANTS StartedWasStarted
