SPECIFICATION Spec
CONSTANTS
  NUM_THREADS = 2
  NUM_COMPLEX = 4
  NUM_RECURSIVE = 2
  Payloads = {1, 2}
  StreamIds = {0}
  Requests = {1, 3}
  Channels = {1}
  GuiPhases = {}
  MaxFrame = 2
  MaxSamples = 6
  MaxRetunes = 0
INVARIANTS
  TasksApart
PROPERTIES
  ImplementsStream
CHECK_DEADLOCK FALSE
