\* A websocket with three streams, two of which share a channel, and one of which needs a query.
CONSTANTS
  Conns = {c1}
  Sse = {}
  SseStream <- MCSseStream
  Streams = {"user", "user:notification", "list"}
  Guarded = {"list"}
  Channels <- MCChannels
  StreamIds <- MCStreamIds
  TokenChannel <- MCTokenChannel
  SystemChannel <- MCSystemChannel
  Copies = {1, 2}
  Slots = {1, 2}
  MaxNews = 1
  MaxWire = 1
  None = None
SPECIFICATION FairSpec
INVARIANT Indexed
PROPERTIES ImplementsAudience KillsArrive
CHECK_DEADLOCK FALSE
