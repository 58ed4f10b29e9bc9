SPECIFICATION Spec
CONSTANTS
  Workers = {w1, w2}
  NoWorker = NoWorker
  Domain = 3
  Chunk = 2
  NSlots = 1
  RCap = 4
  Tries = 2
  Answers = {"job", "exhausted", "stop_condition", "cancelled", "fatal"}
  MaxRuns = 1
SYMMETRY Symmetry
INVARIANTS IInv ReportIsTrue
PROPERTIES ImplementsLedger
