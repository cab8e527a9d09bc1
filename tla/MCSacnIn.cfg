CONSTANTS
  Cids = {1}
  NoCid = 0
  Priorities = {2}
  Floor = 1
  Timeout = 3
  MaxSources = 1
  SequenceMod = 8
  SequenceWindow = 3
  FirstSequence = 7
  ReorderDepth = 2
  NetCap = 3
SPECIFICATION HistorySpec
PROPERTY NoOlderFrame
