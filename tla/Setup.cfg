CONSTANTS
  Version = {v1, v2}
  None = None
  MaxFaults = 2
  Asked = {"full", "connect"}
  Faults = {"fail", "kill", "damage", "user"}
SPECIFICATION FairSpec
INVARIANTS RuntimeKept ServerComplete StaysStopped OptOutKept ApiIsCurrent
PROPERTY Completes
