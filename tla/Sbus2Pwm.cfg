SPECIFICATION FairSpec
CONSTANTS
  NUM_PROC = 12
  POOL_NUM_BUFFERS = 8
  NUM_TXT_BUFFERS = 4
  EXECUTOR_CAPACITY = 4
  RX_CAPACITY = 2
  TX_CAPACITY = 1
INVARIANT PoolsSuffice
INVARIANT NothingFails
PROPERTY LoopsLive
