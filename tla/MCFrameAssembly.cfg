SPECIFICATION Spec
CONSTANTS
    Sizes <- MCSizes
    Stream <- MCStream
    PacketsPerFrame = 2
    Datagrams = {1, 4, 7}
    Room = 6
    FrameMod = 3
    PacketMod = 4
    Misreadings <- MCMisreadings
    MaxLosses = 1
    MaxUpdates = 1
INVARIANTS
    CarryOverSound
    FramesInOrder
    BackInStep
PROPERTIES
    LossReported
CHECK_DEADLOCK FALSE
