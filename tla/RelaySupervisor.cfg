SPECIFICATION FairSpec
CONSTANTS
  None = None
  Other = Other
  Child = {k1, k2}
  Port = {p1, p2}
  Conn = {f1}
  ProbeFailures = 2
  MaxLines = 1
  MaxFaults = 3
  Faults = {"spawn", "exit", "silent", "probe", "unknown", "stranger", "crash", "stop"}
INVARIANTS ReadyIsCurrent ForwardsToCurrent LeavesNothing
PROPERTIES Patient ComesBack
CHECK_DEADLOCK FALSE
