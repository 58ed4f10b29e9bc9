SPECIFICATION PartSpec
CONSTANTS
  Workers = {w1}
  NoWorker = NoWorker
  Domain = 5
  Chunk = 2
  NSlots = 1
  RCap = 4
  Tries = 2
  Answers = {"job", "exhausted", "stop_condition", "cancelled", "fatal"}
  MaxRuns = 2
CHECK_DEADLOCK FALSE
INVARIANTS SlotInv ReportsAreTrue
PROPERTIES RunEnds ProbeEnds
