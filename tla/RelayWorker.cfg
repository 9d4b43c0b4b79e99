SPECIFICATION FairSpec
CONSTANTS
  c1 = c1
  c2 = c2
  c3 = c3
  w1 = w1
  w2 = w2
  w3 = w3
  None = None
  Caller = {c1, c2, c3}
  Worker = {w1, w2, w3}
  MaxFaults = 3
  Faults = {"start", "stop", "kill caller", "kill worker", "cli", "port", "supervisor", "tunnel"}
INVARIANTS TypeOK Reachable QuietStop
PROPERTY Recovers
