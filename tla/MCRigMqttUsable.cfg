CONSTANTS
  Topics <- MCTopics
  Facts = {"board"}
  Values <- MCValues
  MaxFaults = 1
  QueueRoom = 1
  None = None
SPECIFICATION HistorySpec
CHECK_DEADLOCK FALSE
INVARIANT AlwaysUsable
