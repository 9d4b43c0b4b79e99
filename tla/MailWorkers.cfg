\* Two conversations, two workers and a queue of one, under fair scheduling.
CONSTANTS
  None = None
  Thread = {t1, t2}
  Label = {}
  MaxPrepared = 1
  ParallelThreads = 2
  MaxMail = 2
  MaxOps = 4
  MaxFaults = 2
  Faults = {"source", "compose", "document", "operation", "retain", "lost",
            "timeout", "execute", "extraction", "interrupt", "cancel"}
SPECIFICATION FairSpec
INVARIANTS PreparedBound IdleIsCurrent AcceptedAvailable
PROPERTY EveryChangeAccepted
