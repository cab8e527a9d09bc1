CONSTANTS
  Topics <- MCTopics
  Facts = {"board"}
  Values <- MCValues
  MaxFaults = 1
  QueueRoom = 1
  None = None
SPECIFICATION HistorySpec
INVARIANT NoSubscriptionMissed CalmStopIsTold
PROPERTY SignalEnds TreeCatchesUp
CHECK_DEADLOCK FALSE
