\* A fragment duration of 0 leaves an empty first fragment when the movie
\* starts with a key frame.  The larger files do not fit the width of a size.
CONSTANTS
  MaxSamples = 3
  MaxTime = 3
  Movies <- MCMovies
  Timesteps = {0, 1, 2}
  Roundings = {{}}
  CodecSizes = {5, 6}
  SizeWidth = 96
SPECIFICATION SSpec
INVARIANTS
  SizeDeclared
  FilesHoldMovie
CHECK_DEADLOCK FALSE
