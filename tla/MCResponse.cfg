SPECIFICATION MCSpec
CONSTANTS
  Platforms = {"linux", "darwin", "windows"}
  Responders = {"a", "b"}
  NetCallers = {"a", "b"}
  Standing <- MCStanding
  KillCallers = {"a", "b"}
  QCallers = {"a", "b"}
  KillPids = {1, 2, 3}
  MaxProcs = 4
  Paths = {"/a/x", "/b/x"}
  Bases = {"x"}
  BaseOf <- MCBaseOf
  MaxContents = 2
  Configured <- MCConfigured
  Scores = {1, 8}
  MaxResponses = 3
  PolicyIds = {"base", "site", "leaf", "gone"}
  NoPolicy = "none"
  Offered <- MCOffered
  ProcPaths = {"/bin/sh", "/bin/ls", "/usr/ssh"}
  PathHas <- MCPathHas
  Stages <- MCStages
  Incoming <- MCIncoming
  Threshold = 5000000
  AlertCapacity = 1
  MaxExamined = 2
INVARIANTS MCTypeOK WhitelistUnlessRaced SurvivorsEscaped QuarantineKeeps ClosestRule VerdictMonotone
CHECK_DEADLOCK FALSE
