SPECIFICATION FairSpec
CONSTANTS
  Shapes <- AllShapes
  Others <- TwoShapes
  Before = {0, 1, 6}
  MaxHole = 12
  Inputs <- AllBlocks
  Headers <- AnyHeader
  FrameSizes = {0, 1, 2, 3, 4, 9, 40}
  WordLimit = 1000
INVARIANTS
  ParsedAsSent
  FieldsInPlace
  PacketsInside
PROPERTIES
  Terminates
CHECK_DEADLOCK FALSE
