\* The movies of MCStaticFragments.cfg, of which none is too large for its size.
CONSTANTS
  MaxSamples = 3
  MaxTime = 3
  Movies <- MCMovies
  Timesteps = {0, 1, 2}
  Roundings = {{}}
  CodecSizes = {5, 6}
  SizeWidth = 65536
SPECIFICATION SSpec
INVARIANT DumpAssertion
CHECK_DEADLOCK FALSE
