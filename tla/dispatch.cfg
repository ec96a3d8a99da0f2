SPECIFICATION FairSpec
CONSTANTS
  Calls = {c1, c2}
  Ids = {c1, c2}
  Id <- MCId
  Tools = {"read", "send", "unknown"}
  Servers = {"tickets", "mail"}
  Route <- MCRoute
  MaxAnswers = 2
  NoCall = NoCall
  NoTool = NoTool
INVARIANT NothingLeftBehind
PROPERTY KeepsPromise
CHECK_DEADLOCK FALSE
PROPERTY NobodyStuck
