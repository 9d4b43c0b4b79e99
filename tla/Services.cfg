CONSTANTS
  Proc = {p1, p2}
  Host = {h1, h2}
  None = None
  Asked = {"start", "stop", "login", "share", "unshare", "connectors"}
  MaxRuns = 3
  MaxFaults = 1
  Faults = {"fail", "die", "kill", "reboot"}
SPECIFICATION FairSpec
INVARIANTS StopHolds KeysAgree HostReachable
PROPERTY Ends
CHECK_DEADLOCK FALSE
