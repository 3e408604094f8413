\* The microphone: one talker, no peers; FrameLen and Chunks as small as they can meet unevenly.
SPECIFICATION FairSpec
CONSTANTS
  MaxMic = 8
  Chunks = {3, 5}
  FrameLen = 2
  Hangover = 1
  Peer = {}
  MaxFrames = 0
  PerFrame = 1
  Channels = 1
  Cap = 1
  Period = 1
  MaxToggles = 2
INVARIANTS  WordsAreWhole MuteStopsSending
PROPERTIES StaysKnown
