CONSTANTS
  None = None
  Folder = {1}
  Message = {1, 2}
  Lookback = {1, 3}
  Overlap = 1
  Delay = 1
  PageSize = 1
  Start0 = 3
  MaxNow = 4
  MaxFaults = 2
  Faults = {"source", "systemic", "identity", "crash", "configure", "pause", "start", "builder"}
SPECIFICATION FairSpec
CHECK_DEADLOCK FALSE
INVARIANTS NothingMissed CursorUsable Scheduled
PROPERTY EveryMessageFound
