\* One conversation and one server: every failure of a delivery but extraction
\* errors, four faults in a behaviour.
CONSTANTS
  None = None
  Thread = {t1}
  Label = {l1, l2}
  MaxPrepared = 1
  ParallelThreads = 1
  MaxMail = 3
  MaxOps = 7
  MaxFaults = 4
  Faults = {"identity", "source", "compose", "document", "operation", "retain",
            "lost", "duplicate", "timeout", "execute", "interrupt", "cancel", "delete", "quiet label"}
SPECIFICATION Spec
INVARIANTS TypeOK OneLiveOperation LabelsKept
PROPERTY OutcomePromise
