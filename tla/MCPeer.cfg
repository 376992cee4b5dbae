CONSTANTS
  Pushers = {p1}
  HEADER_SIZE = 2
  MessageSizes = {0, 2, 3}
  MaxMessageLength = 2
  Ahead = 1
  PushSizes = {0, 1}
  nReceiveFloodSize = 3
  nSendBufferMaxSize = 3
  MaxRecv = 2
  MaxProcess = 2
  MaxPush = 2
SPECIFICATION FairSpec
INVARIANTS
  RecvAccounting
  SendAsserts
  BytesConserved
  PauseSendExact
PROPERTIES
  PauseHoldsBack
  QueuedMessagesProcessed
  SendQueueDrains
