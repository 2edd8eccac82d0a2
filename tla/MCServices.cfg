SPECIFICATION ServicesSpec
CONSTANTS
  CorrPids = {1, 2, 3}
  CorrWindow = 0
  MaxEntries = 4
  MaxCorrTime = 1
  Stoppers = {"a", "b"}
  Run = "run"
  Services = {"s1", "s2"}
  SvcNames = {"n1", "n2"}
  Tasks = {"t1", "t2"}
  MaxHooks = 2
  Publishers = {"a", "b"}
  Topics = {"alerts", "events"}
  BusCapacity = 1
  MaxSubs = 3
  MaxPublished = 3
  PlugCallers = {"a", "b"}
  Plugins = {"q1", "q2", "q3"}
  PlugNames = {"n"}
  PlugNameOf <- MCPlugNameOf
  NoName = ""
  OtherApi = {"q3"}
  Offers <- MCOffers
  Capabilities = {"cap"}
  MaxPlugCalls = 6
  f1 = f1  f2 = f2
  FeedCallers = {"a", "b"}
  FeedSources = {f1, f2}
  Serves <- MCServes
  Patterns = {"x"}
  PatternTypes = {"domain", "sha256"}
  MaxSyncs = 2
  k1 = k1  k2 = k2  k3 = k3
  Keys = {k1, k2, k3}
  TTL = 2
  CacheLimit = 1
  MaxCalls = 5
  MaxTime = 4
  Daemons = {"d1", "d2"}
  Clients = {"c"}
  NoDaemon = "none"
  MaxStarts = 4
SYMMETRY Symmetry
INVARIANTS ServicesTypeOK Forest TimelineExact RunningReachable SyncedReach BusOrder HooksBeforeStopped DedupExact Reachable
CHECK_DEADLOCK FALSE
