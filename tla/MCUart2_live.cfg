SPECIFICATION FairSpec
CONSTANTS
  Buffer = {b1, b2, b3}
  NoBuffer = NoBuffer
  RX_CAPACITY = 1
  TX_CAPACITY = 2
  MaxSize = 1
  MaxHeld = 1
PROPERTY RingsAreStagedQueues
PROPERTY AcceptedIsSent
