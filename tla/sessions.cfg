SPECIFICATION SessionsFairSpec
CONSTANTS
  SessionIDs = {s1, s2}
  PIDs = {1, 2, 3, 4}
  NumServers = 2
  MaxConcurrent = 1
  None = None
INVARIANT LookupRight
PROPERTY IdleReclaimed
CHECK_DEADLOCK FALSE
INVARIANT WatchFollowsSessions
