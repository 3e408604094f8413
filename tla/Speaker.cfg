\* The speaker: two peers at once, a stereo device; Cap is 3 device frames.
SPECIFICATION FairSpec
CONSTANTS
  MaxMic = 0
  Chunks = {}
  FrameLen = 1
  Hangover = 0
  Peer = {p1, p2}
  MaxFrames = 2
  PerFrame = 2
  Channels = 2
  Cap = 6
  Period = 2
  MaxToggles = 2
INVARIANTS ChannelsTogether HeardInOrder
PROPERTIES LastWordIsHeard
