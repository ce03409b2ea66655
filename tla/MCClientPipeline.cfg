SPECIFICATION MCPipelineSpec
CONSTANTS
  Handler <- MCHandler
  Descriptor <- MCDescriptor
  Builds <- MCBuilds
  Nobody = Nobody
  Unusable = {"*id", ""}
  Router = {"app", "part"}
  App = "app"
  Segment <- MCSegment
  ParamName <- MCParamName
  Literal <- MCLiteral
  MaxCalls = 3
  NameOf <- MCNameOf
  Named <- MCNamed
  ApiRoot = "api"
  Source <- MCSource
  Mounts <- MCMounts
  Unrecorded <- MCUnrecorded
  Files <- MCFiles
  Prefixes <- MCPrefixes
  AssetName = "{name}"
  MaxRuns = 2
  None = None
INVARIANTS
  NoExportLost
  TableIsTheApp
  ClientReachesItsHandler
  ClientCoversTheApi
  SignaturesAreCurrent
  NewDirectoryIsExact
PROPERTIES
  AppendIsOneStep
  RunsEnd
