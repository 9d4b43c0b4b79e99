CONSTANTS
  Version = {v1}
  None = None
  MaxFaults = 1
  Asked = {"server-only"}
  Faults = {"fail"}
SPECIFICATION Spec
INVARIANT ListensOnAll
