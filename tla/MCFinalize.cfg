\* Tracks of three samples with every time, composition and key frame table in
\* one layout of the chunks, of four with every grouping in at most three
\* chunks, and of up to three with tables that do not agree or are not legal;
\* pairs of tracks of at most three samples on a clock of 6.
CONSTANTS
  MaxSamples = 4
  MaxTimedSamples = 3
  MaxChunks = 3
  MaxPaired = 3
  Clock = 6
  Tracks <- MCTracks
  Parsed <- MCParsed
SPECIFICATION FSpec
INVARIANTS
  TypeOK
  InTables
  OffsetsRight
  TimesRight
  FieldsRight
  Complete
  GivesTimeline
  KeepsOrder
CHECK_DEADLOCK FALSE
