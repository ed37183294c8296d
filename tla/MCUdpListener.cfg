SPECIFICATION FairSpec
CONSTANTS
  NUM_BUFFS = 3
  PACKET_SIZE = 2
  UDP_START_INDEX = 1
  Lengths = {1, 2}
  MaxDatagrams = 5
INVARIANTS
  BuffersSound
  Accounting
PROPERTIES
  RequestReturns
  StopReturns
  ImplementsQueue
