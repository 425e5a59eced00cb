CONSTANTS
  Timeout = 5
  Interval = 2
  Latency = 2
  Slack = 1
  Callers = {c1, c2}
  Defs = {d1, d2}
  Names = {web, db}
  Requests = {r1, r2, r3}
  Outside = {r2, r3}
  Calls = {k1, k2}
  Original = Original
  Mixed = Mixed
  OutBuffer = 1
  ErrBuffer = 1
  MaxNoise = 2
SPECIFICATION MCSpec
INVARIANTS ReturnsInTime PromptOnceDecided TimeoutIsTruthful OkIsComplete NoServiceWithoutDeployments RetryOfPartialFails ProxyNeverTruncates CleanOkIsWhole
PROPERTIES WaitsTerminate StacksReturn DeadPodReleasesRequests DropClosesListener QuietCallsReturn
