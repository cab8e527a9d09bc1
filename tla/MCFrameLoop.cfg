CONSTANTS
  Channels <- MCChannels
  Values <- MCValues
  Stop <- MCStop
  Dark = 0
  NoFrame = NoFrame
  NoPacket = NoPacket
  ReleaseFrames = 3
  SequenceMod = 4
  MaxLives = 2
SPECIFICATION Spec
INVARIANT TypeOK OneBuffer SilentUntilAFrame
PROPERTY StreamIsWhole AskedEnds KeepsTheContract
CHECK_DEADLOCK FALSE
