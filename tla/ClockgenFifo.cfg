SPECIFICATION FairSpec
CONSTANTS
  Space = 3
  NoBuffer = NoBuffer
  Payload = 2
INVARIANT FifoTypeOK
INVARIANT OneOwner
INVARIANT PutNeverBlocks
PROPERTY StreamContinuous
PROPERTY ImplementsChannel
PROPERTY DebugReachesHost
PROPERTY AudioFlows
