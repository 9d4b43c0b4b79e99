CONSTANTS
  None = None
  Thread = {t1}
  Label = {l1}
  MaxPrepared = 1
  ParallelThreads = 1
  MaxMail = 2
  MaxOps = 3
  MaxFaults = 3
  Faults = {"label", "interrupt"}
SPECIFICATION Spec
INVARIANT LabelsKept
