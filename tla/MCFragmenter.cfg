\* Every movie of at most four samples, at most four ticks long; a requested
\* duration of 0 is what --fragmentduration 0 gives.
CONSTANTS
  MaxSamples = 4
  MaxTime = 4
  Movies <- MCMovies
  Timesteps = {0, 1, 2, 3}
  Roundings = {{}, {3}, {2, 4}}
SPECIFICATION Spec
INVARIANTS
  TypeOK
  Lossless
  StartsWithKey
  DurationsTile
  CutAtFirstChance
  NoEmptyFragment
CHECK_DEADLOCK FALSE
