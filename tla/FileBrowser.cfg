SPECIFICATION BrowserSpec
CONSTANTS
  None = None
  Blank = Blank
  c1 = c1
  c2 = c2
  Containers <- MCContainers
  Preferred = None
  Home <- MCHome
  InitFs <- MCInitFs
  Names <- MCNames
  Destinations <- MCDestinations
  Local <- MCLocal
  Overwrites = {TRUE}
  Picks <- MCPicks
  Stem <- MCStem
  ChunkDefault = 2
  ChunkServed = 1
  MaxSteps = 2
\* The user may stop at any time, and nothing happens without one.
CHECK_DEADLOCK FALSE
INVARIANT TreeHonest
PROPERTY UploadsWhole
