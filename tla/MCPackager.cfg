\* Three ticks to a millisecond; fragments of none, one and two milliseconds; some
\* whole milliseconds are truncated to one less.
CONSTANTS
  MaxSamples = 3
  SampleTimes = {0, 3, 5, 9}
  PairTimes = {0, 3, 6}
  Movies <- MCMovies
  Timesteps = {0, 3, 6}
  Roundings = {{}, {6, 9}}
  Sources <- MCSources
  TicksPerMs = 3
  Truncations = {{}, {3, 9}, {6}}
  U32 = 64
SPECIFICATION PSpec
INVARIANTS
  TableTiles
  MarksEmptyRows
  ManifestWritten
  TableFitsAll
CHECK_DEADLOCK FALSE
