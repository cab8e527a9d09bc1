CONSTANTS
  Topics = {"rig", "oversized"}
  Oversized = {"oversized"}
  QueueDepth = 2
  RetryMax = 2
  MaxValue = 2
  MaxFaults = 3
  SocketRoom = 4
SPECIFICATION HistorySpec
INVARIANT GoodbyeComesLast
PROPERTY NeverOlder TreeCatchesUp GoodbyeHolds DeathIsTold NoFalseAlarm
CHECK_DEADLOCK FALSE
