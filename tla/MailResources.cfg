SPECIFICATION FairSpec
CONSTANTS
  None = None
  Task = {t1, t2}
  Client = {k1, k2, k3}
  MaxLinks = 2
  MaxFaults = 3
  Faults = {"start", "dead", "torn", "refuse", "create", "model", "stop", "force", "rmtree", "cancel"}
INVARIANTS RuntimeKnown NothingForgotten Attended OpenWasReady
PROPERTIES Answered CloseEnds
CHECK_DEADLOCK FALSE
