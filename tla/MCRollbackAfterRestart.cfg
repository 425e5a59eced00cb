CONSTANTS
  NoTemplate = NoTemplate
  Clients = {c1}
  Images = {v1, v2}
  Asked <- MCAsked
  MaxUid = 1
  MaxClock = 1
  MaxRevision = 3
  Counts = {1, 2}
  MaxPods = 4
  MaxVersion = 2
  MaxCount = 2
  Tags = {t1}
  NoTag = NoTag
  Ports = {80}
  Hosts = {"h1"}
  Anyhost = "any"
  AnyPath = AnyPath
  Segments = {"api", "v1"}
  Paths <- MCPaths
  Backends = {"web", "api"}
  TlsSecrets = {"s1"}
  Ingresses <- MCIngresses
SPECIFICATION MCSpec
PROPERTY RollbackUsesThatTemplate
