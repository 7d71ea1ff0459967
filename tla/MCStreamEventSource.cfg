\* A websocket and an event source of one account.
CONSTANTS
  Conns = {c1, c2}
  Sse = {c2}
  SseStream <- MCSseStream
  Streams = {"list"}
  Guarded = {"list"}
  Channels <- MCChannels
  StreamIds <- MCStreamIds
  TokenChannel <- MCTokenChannel
  SystemChannel <- MCSystemChannel
  Copies = {1, 2}
  Slots = {1}
  MaxNews = 1
  MaxWire = 1
  None = None
SPECIFICATION Spec
INVARIANT RedisAgrees
PROPERTY CloseTakesAll
CHECK_DEADLOCK FALSE
