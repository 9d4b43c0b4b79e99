CONSTANTS
  None = None
  Session = {s1}
  Server = {d1, d2}
  Cli = {c1}
  MaxEpoch = 4
SPECIFICATION Spec
SYMMETRY Symmetry
INVARIANTS NotRetroactive FreshIsSaved
PROPERTY OneServer
