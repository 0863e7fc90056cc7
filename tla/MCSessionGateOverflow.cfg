\* One thread, so two slots.
SPECIFICATION GateSpec
CONSTANTS
  c1 = c1 c2 = c2 c3 = c3 t1 = t1 Nobody = Nobody
  Clients = {c1, c2, c3} AuthThreads = {t1} MaxJobs = 3
CHECK_DEADLOCK FALSE
INVARIANTS InFlightBounded
