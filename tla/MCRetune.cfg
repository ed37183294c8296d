SPECIFICATION FairSpec
CONSTANTS
  NUM_THREADS = 1
  NUM_COMPLEX = 3
  NUM_RECURSIVE = 2
  Payloads = {2}
  StreamIds = {0, 1, 2}
  Requests = {1}
  Channels <- OnOrOff
  GuiPhases = {"work"}
  MaxFrame = 1
  MaxSamples = 4
  MaxRetunes = 1
INVARIANTS
  UpdateApplied
  StreamIntact
PROPERTIES
  FillReturnsEventually
  UpdateReturns
  StopReturnsUnlessFull
CHECK_DEADLOCK FALSE
