\* None of these is kept: leave one in to see how.
CONSTANTS
  Conns = {c1, c2}
  Sse = {c2}
  SseStream <- MCSseStream
  Streams = {"list"}
  Guarded = {"list"}
  Channels <- MCChannels
  StreamIds <- MCStreamIds
  TokenChannel <- MCTokenChannel
  SystemChannel <- MCSystemChannel
  Copies = {1, 2}
  Slots = {1}
  MaxNews = 1
  MaxWire = 1
  None = None
SPECIFICATION Spec
INVARIANTS DisabledTerminates NothingHeld NotReadAlong
PROPERTY ServesOn
CHECK_DEADLOCK FALSE
