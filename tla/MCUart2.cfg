SPECIFICATION Spec
CONSTANTS
  Buffer = {b1, b2, b3, b4}
  NoBuffer = NoBuffer
  RX_CAPACITY = 2
  TX_CAPACITY = 1
  MaxSize = 2
  MaxHeld = 1
SYMMETRY BufferSymmetry
INVARIANT DmaAtPoint
INVARIANT BuffersConserved
INVARIANT DeliveredAsReceived
INVARIANT PollStaysTrue
INVARIANT NeverStalls
