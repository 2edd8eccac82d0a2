SPECIFICATION Spec
CONSTANTS
  c1 = c1  c2 = c2  s1 = s1  s2 = s2
  NoOne = NoOne
  Callers = {c1, c2}
  Shards = {s1, s2}
  Pids = {1, 2}
  ShardOf <- MCShardOf
  Rules <- MCRules
  Window = 1
  ChanLimit = 1
  MaxNodes = 3
  MaxTime = 1
INVARIANT WithinWindow
CHECK_DEADLOCK FALSE
