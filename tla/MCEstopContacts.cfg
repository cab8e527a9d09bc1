CONSTANTS
  SettleSamples = 3
  QuietCap = 5
SPECIFICATION HistorySpec
INVARIANT TypeOK NeverRunsUnlessReleased DecidedAgrees StopsInTime
PROPERTY DecidedOnQuietSamples StillContactsAreDecided
