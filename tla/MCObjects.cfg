CONSTANTS
  Callers = {c1, c2}
  Values = {b1, b2}
  NoValue = NoValue
  MaxRevision = 4
  Fields = {f}
  InList = {x, y}
  Contents = {c1, c2}
  Unset = Unset
  Null = Null
  Quotes <- MCQuotes
  Keys = {"tls.crt", "tls.key"}
  Versions = {c1, c2}
  Missing = Missing
  Selectors <- MCSelectors
  Suffix <- MCSuffix
  PodLabels <- MCPodLabels
  Grantors = {c1, c2}
  Accounts = {b1, b2}
  CustomRoles = {shared}
  NoRole = NoRole
  Nobody = Nobody
  Verbs = {get, delete}
  Resources <- MCResources
  VerbLists <- MCVerbLists
  ResourceLists <- MCResourceLists
  CustomGroups = {"example.com"}
  MaxCalls = 2
SPECIFICATION MCSpec
SYMMETRY Symmetry
INVARIANTS RefusalIsProgress OthersAreKept MessageNamesTheCause SecretIsWhole IsolationHolds BindingNeverDangles OkMeansGranted
PROPERTY IsOptimistic
