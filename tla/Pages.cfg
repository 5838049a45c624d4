SPECIFICATION Spec
CONSTANTS
  None = None
  Chunks <- MCChunks
  MaxChunks = 4
  Lines <- MCLines
  ColumnLists <- MCColumnLists
  MaxDate = 250000
  CachedFormats = {"json", "ecs"}
  ParseCacheSize = 2
  StoredLines = 2
  MaxStored = 4
  MaxGenerations = 2
  Tokens <- MCTokens
  MaxTokens = 3
  Annotations <- MCAnnotations
  Containers <- MCContainers
  Picks <- MCPicks
  TailLines = 5
  SniffLines = 1
  SniffRetained = 2
  FilterChars = {"k", "-", ","}
  MaxFilter = 3
  Paths = {"journal", "file"}
  MaxWrappers = 3
  MaxHrefs = 2
  MaxClicks = 3
  Zones <- MCZones
  Chosen = {"E"}
  Locales = {"de"}
  Languages = {"en"}
  DayHours = 6
  MonthDays = 3
  MaxMonth = 2
  TzZones <- MCTzZones
  TzSafe <- MCTzSafe
  TzBrowser = "New_York"
  TzYears <- MCTzYears
  Subjects <- MCSubjects
  Targets <- MCTargets
  Letters = {45, 97, 252, 20013, 128512}
  Noise = {33, 45, 57, 97, 122}
  MaxLabel = 4
  Tables <- MCTables
  Extras <- MCExtras
  Conditions <- MCConditions
  MaxClicked = 3
  Limit = 2
  MaxBatches = 2
  Zone <- MCZone
  Families = {"A"}
  Questions <- MCQuestions
  Internal = {"i"}
  MinTTL = 2
  MaxTTL = 4
  FallbackTTL = 3
  Timeout = 1
  Slots = 1
  MaxAsks = 2
  MaxTime = 4
  Specs <- MCSpecs
  MaxRequests = 2
  MaxEdits = 1
\* The user may stop at any time.
CHECK_DEADLOCK FALSE
INVARIANTS  RowsRead FormatHonoured CoreServed DatesMeant  AnswersFresh FluxAgrees
