CONSTANTS
  Duration = 4
  Interval = 1
  ReplyTimeout = 2
  Slack = 1
  MostAttempts = 9
  FirstBackoff = 1
  MaxBackoff = 50
  CallTime = 1
  Durations = {2, 7}
  MaxSamples = 205
  Needles = {"up"}
  Numbers <- MCNumbers
  Prefixes <- MCPrefixes
  Responses <- MCResponses
  MaxChecks = 3
  Units = {"n", "u", "m", "cores"}
  Parsed = {"n", "m", "cores"}
  Shown = {"m", "cores"}
  Scale <- MCScale
  Amounts = {0, 1, 9, 15}
  Containers = {a, b}
  Names = {api, web}
  Tiers = {front}
  NoLabel = NoLabel
  MaxFixtures = 2
  MaxReplicas = 2
SPECIFICATION MCSpec
INVARIANT MissingServerIsNamed
