SPECIFICATION FairSpec
CONSTANTS
  Pods = {"a", "b"}
  Containers = {"ca", "cb", "host"}
  PodOf <- MCPodOf
  PIDs = {1}
  MaxStarts = 2
  None = None
 
INVARIANT RemovedNotAttributed
PROPERTY AttributedInTheEnd
CHECK_DEADLOCK FALSE
