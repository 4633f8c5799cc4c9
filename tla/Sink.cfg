SPECIFICATION FairSinkSpec
CONSTANTS
  Threads = {t1, t2}
  Buffers = {b1, b2}
  SizeClasses <- MCSizeClasses
  MaxPerClass = 1
  Sizes = {1, 2}
  NoBuf = NoBuf
  Channels = {c1}
  NoChannel = NoChannel
  Lengths = {0, 1, 2, 3}
  MaxChunkBytes = 2
  ComputeCrc = TRUE
INVARIANTS SinkTypeOK AliveWhileUsed CleanExit ChannelOwned CrcOfOwnBytes
  NeverOversize
PROPERTIES RequestsAnswered QuitExits
