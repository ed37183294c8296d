SPECIFICATION FairSpec
CONSTANTS
  NUM_THREADS = 1
  NUM_COMPLEX = 2
  NUM_RECURSIVE = 2
  Payloads = {1}
  StreamIds = {0}
  Requests = {1}
  Channels = {1}
  GuiPhases = {}
  MaxFrame = 2
  MaxSamples = 2
  MaxRetunes = 1
PROPERTY StopReturns
CHECK_DEADLOCK FALSE
