CONSTANTS
    K = 12
    maxSize = 6
    NumBuffers = 5
    MaxChunk = 6
    NumChannels = 1
    PeerChannels = 2
    Payload <- MCPayload
    Crc <- MCCrc
    MaxSent = 2
SPECIFICATION Spec
CHECK_DEADLOCK FALSE
INVARIANT BuffersConserved
INVARIANT DeliveredInOrder
INVARIANT AllDecoded
PROPERTY StopReturns
