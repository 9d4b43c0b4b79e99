CONSTANTS
  None = None
  Thread = {t1}
  Label = {}
  MaxPrepared = 1
  ParallelThreads = 1
  MaxMail = 1
  MaxOps = 2
  MaxFaults = 1
  Faults = {"extraction"}
SPECIFICATION FairSpec
PROPERTY RetryResumes
