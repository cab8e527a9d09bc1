CONSTANTS
  Channels = {"lamp"}
  Values = {0}
  Dark = 0
  NoFrame = NoFrame
  NoPacket = NoPacket
  Stop <- MCStop
  SettleSamples = 3
  QuietCap = 4
  ReleaseFrames = 1
  SequenceMod = 2
  MaxLives = 2
  PollsPerFrame = 5
SPECIFICATION HistorySpec

PROPERTY EveryStopIsSeen LiveOnlyReleased LoopFollowsTheContacts
CHECK_DEADLOCK FALSE
