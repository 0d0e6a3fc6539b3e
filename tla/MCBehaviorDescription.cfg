SPECIFICATION Spec
CONSTANTS
    Absent = Absent
    Refused = Refused
    NoPath = NoPath
    Blank = Blank
    Malformed = {}
    IndexOf <- MCIndexOf
    Canonical <- CanonicalForm
    NormalizeSchema <- NormalForm
    Depth <- Nesting
    DocumentExposes <- AnyPartExposes
    Pieces <- EveryPiece
    ValueRank <- MCRank
    PathRank <- MCPathRank
    ConfigVersion = 1
    AliasCharacters = {"a", "b"}
    MaxAliasLength = 2
    Metrics <- MCMetrics
    Unit = 10
    Dot = "."
    Hex <- MCHex
    BadNames = {}
    Oversize = {}
    MaxSchemaDepth = 4
    StandardHeaders = 2
    MaxRepeat = 2
    MaxProbes = 2
    MaxFiles = 2
    MaxEntries = 2
    MaxNameLength = 2
    MaxToolCalls = 2
    Runner = "openai"
    Parse <- MCParse
    RunVersion = 1
    TraceVersion = 1
    Projects <- MCProjects
    Edits <- MCEdits
    Respelled <- MCRespelled
    Models <- MCModels
    Installed <- MCInstalled
    Responses <- MCResponses
    Overrides <- MCOverrides
    Version = 1
    Contract = "v1"
    MaxChanges = 1
INVARIANT DescriptionsAreShown
CHECK_DEADLOCK FALSE
