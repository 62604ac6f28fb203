SPECIFICATION Spec
CONSTANTS
  Rpcs = {r1, r2}
  Probes = {p1, p2}
  ProbeTime = 2
  DrainTime = 5
  Publishing = TRUE
INVARIANTS
  StoreOutlivesUsers
  NothingLeftRunning
PROPERTIES
  CallsGetTheirGrace
  WindsDown
CHECK_DEADLOCK FALSE
