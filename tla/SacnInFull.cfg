CONSTANTS
  Cids = {1, 2}
  NoCid = 0
  Priorities = {1, 2}
  Floor = 1
  Timeout = 2
  MaxSources = 1
  SequenceMod = 2
  SequenceWindow = 1
  FirstSequence = 1
  ReorderDepth = 0
  NetCap = 1
SPECIFICATION Spec
INVARIANT TypeOK
PROPERTY TheConsoleOnAirDrives
