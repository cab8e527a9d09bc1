CONSTANTS
  SettleSamples = 2
  ChordSamples = 3
  HeldCap = 4
  CounterMod = 2
  PollsPerFrame = 2
  TestModeTimeout = 3
  PulseFrames = 4
  FramesCap = 5
  Off = Off
  Shows <- MCShows
  Horizon = 2
  MaxBehind = 1
SPECIFICATION HistorySpec
INVARIANT TypeOKDoor NoneLostNoneTwice NothingToComeIsMissing
PROPERTY OneChordPerHold PlaysByTheClock ChordsAndTimeoutsOnly
CHECK_DEADLOCK FALSE
