# A TLA+ verification project for OpenHttpStreamer

OpenHttpStreamer publishes MP4 movies as HTTP Dynamic Streaming fragments.  The command line
tool `mp4frag` parses movies, cuts each into fragments, and writes a binary *index* that says,
for each fragment, which bytes of the movie make it up, and a *manifest* for players.  The
nginx module `mod_nginx` answers a request for a fragment by walking the index and copying
samples out of the mapped movie.  Nothing else connects the two programs: what the index
promises is all the server has.  In a second mode the tool writes every fragment to a file.

The modules here follow that pipeline, stage by stage.  Each says what its stage promises to
the next one; `PROJECT.json` maps every definition to the lines it models.

    MP4 file --> BoxParser --> SampleTable, Finalize --> Fragmenter --+
                                                                      |
      +---------------------------------------------------------------+
      +--> IndexWriter --> FragmentServer          PacketBytes: the bytes of both ways
      +--> StaticFragments (files)
      +--> Packager (run table) --> Bootstrap (its bytes and text)

    Publishing: the files of a site over several runs of the tool, beside the handler

## Inventory

| Component | State | Operations | What makes it correct |
|---|---|---|---|
| MP4 box parser (`mp4.cc`: `Context::feed`, parsers; feeding loop of `make_fragments`) | stack of open boxes with bytes left, bytes to skip, bytes wanted, tracks found | read a header, descend, load, skip, pop finished boxes, stop | it keeps its place in the box tree; each table goes to the track it is inside of; it refuses a file for its tables only; it ends on every file |
| Sample tables (`Context::_unfold`, `Context::finalize`) | five cursors over run-length tables, the list of samples | next sample, next entry, next track, sort, close | every sample gets the position, time and flag that the tables mean; no index leaves tables that agree; the list is sorted by time and keeps the order of each track |
| Fragmenter (`generate_fragments`) | fragments so far, cut limit, time base | start a fragment, extend it, finish | no sample lost or doubled; cuts only, and always, at the first key frame allowed; durations tile the movie |
| Index writer (`serialize`) | positions of pass one, cells and position of pass two | measure, write a block | both passes agree; the file describes the media list |
| nginx handler (`ngx_http_mp4frag_module.c`) | cursor in the mapped index, two mappings, response buffer | check and read each table, map the source, write each packet, return | only whole fields inside the index are read; the buffer is not overrun as long as its size fits 32 bits; mappings are released once; the answer is what the index describes, or a refusal |
| Manifest (`get_manifest`, `base64::encode`, loop of `main`) | media list, rows of the run table, nested boxes, text | a row per fragment, exception, close a box, encode three bytes | rows tile the movie, and fit every bitrate; a player that decodes the text finds them |
| Static fragments (`serialize_fragment`, loop of `main`) | file being written | prefix, packets | the files hold the movie and are as long as their header says |
| Command line tool (`mp4frag_main.cc`) | options, files of the site | parse, open, write and close index, static files, manifest; stop on an exception | what a whole manifest lists is whole; a run that fails spoils nothing it did not come to |
| Index reader of the tool (`get_fragment`, only with `TESTING`) | - | walk the index | it throws at the version: a step of `Publishing` |
| File mapping (`mapping.cc`) | a mapping | open, unmap | a throwing wrapper of `mmap`: the exception stops a run in `Publishing`; its counterpart in the handler is modelled |
| Byte order (`serialize.hh`, helpers of the handler) | - | write and read numbers, write a box | what one program packs the other unpacks |
| nginx registration, `mp4frag.conf`, build scripts, `httpd/` | - | - | not modelled: static tables, configuration, and a part announced but not written |

Components interact by call inside the tool (parser, tables, fragmenter, writers run one after
the other in one thread), and by files between the programs: the tool truncates the index and
writes it in place (`mp4frag_main.cc:104`) while nginx workers may map it, so that **any prefix
of an index can be what a handler sees**.  Movies can also be replaced, cut or removed after they
were indexed.  Inside a worker, the handler runs to completion for one request: it has no
callback and does not yield, so requests only share files, which it never writes.  But its mappings are shared:
**it reads what is in a file at the moment it reads**, not what was there when it mapped it.

Hard behaviour, therefore, is not in threads.  It is in (a) coupled cursors and carries
(parser, sample tables), (b) traversals that must agree (the passes of `serialize`; writer
and reader; the packets of the tool and of the handler), (c) truncations and roundings (16-bit
counts, 32-bit places and sizes, milliseconds and cut limits computed with doubles), (d) files changing
between and under two programs, and (e) early exits in the middle of a function, or of a run.
`PROJECT.json` lists each of these at its line under `hazards`.

## Modules

| Module | Models | State and actions |
|---|---|---|
| `BoxParser` | `Context::feed`, the parsers of `mp4.cc`, the `make_fragments` loop | `stack` is the parser stack (`total`, `wants`, `to_skip` are `_total`, `want_bytes`, `to_skip`), `offset` the bytes already passed. One action per outcome of reading a header: `Descend`, `DescendIntoSmall`, `StartLoad`, `SkipBox`, `RejectBox`; `Load` is the parser of a loaded box that takes its content, `RefuseContent` one that throws, `ReadPast` one that follows a count or a size beyond the content; `StopAtTop`, `StopAtEnd`, `Overrun` end the loop. Popping of finished boxes, a loop in the code, is the function `PopEmpty` used by each action. |
| `SampleTable` | `Context::_unfold` | The variables are the locals of the function. `UnfoldSample` is one turn of the inner loop, `NextEntry` one of the outer; `ReadOutside` is a turn that indexes a vector past its end. |
| `Timeline` | what `finalize` hands to `generate_fragments` | The type of the list, shared by `Finalize` (which shows it) and `Fragmenter` (which assumes it). |
| `Finalize` | `Context::finalize`, `SampleSorter` | Extends `SampleTable`: `Unfold` is a step of it, `NextTrack` restarts it on the audio track. `Sort` picks any order without inversions, as `std::sort` may; `Close` takes the longer duration. |
| `Fragmenter` | `generate_fragments` | `StartFragment`, `ExtendFragment` are the branches of the loop, `Finish` what follows it. |
| `IndexFormat` | the layout of the index | Widths, and `Describes`: what it means that a file is an index of a list of sources. Writer and server share it. |
| `IndexWriter` | `serialize` | `MeasureMedia`, `MeasureFragment` are pass one; `WriteHeader`, `WriteMedia`, `WriteFragment` pass two. |
| `FragmentService` | what a reader of the index may expect | An abstract specification: one step, from request and files to answer. |
| `FragmentServer` | `ngx_http_mp4frag_handler` | One action per stretch of the handler between two range checks: `OpenIndex`, `ReadHeader`, `SeekMedia`, `ReadName`, `ReadVideo`, `ReadAudio`, `ReadTable`, `ReadFragment`, `OpenMedia`, `WritePrefix`, `WriteSample`, `Finish` (with `Send`, the end for GET and for HEAD). It implements `FragmentService`. |
| `Packager` | `main`'s loop over sources and the run table of `get_manifest` | Extends `Fragmenter`: `Cut` is a step of it, `NextSource` restarts it. `AddRow`, `RejectRow` (the exception), `ReadEmpty` (a fragment without a first sample), `EndManifest`. |
| `StaticFragments` | `main`'s static loop and `serialize_fragment` | Extends `Fragmenter` likewise: `OpenFile`, `FailToOpen`, `WritePrefix`, `WriteSample`, `CloseFile`, `EndFiles`. |
| `BigEndian` | `write16` to `write64`, `writebox`, `get16` to `get32` | Operators on sequences of bytes. |
| `PacketBytes` | one fragment in both modes: `SampleEntry`, `serialize`'s records, `serialize_fragment`, the packets of the handler | `MakeEntry` per sample, then `WriteIndex`, `WriteFile`, `Respond`: the bytes of the index, of the static file and of the response. |
| `Bootstrap` | the boxes of `get_manifest` and `base64::encode` | `AddRow`, `CloseBoxes`, then the loop `EncodeTriple` and the switch `EncodeRest`. |
| `Publishing` | `main` over several runs, and the handler's view of the index meanwhile | `tool` is where the last run is; one action per open, write and close, and `Stop` at any point. `MapIndex`, `RefuseShort`, `ReadPart`, `Respond` are a request, which reads the index in two parts. |
| `BoxParserProofs`, `FinalizeProofs`, `IndexWriterProofs`, `FragmentServerProofs`, `PublishingProofs` | theorems about the module each is named for (`FinalizeProofs` also about `SampleTable`) | |
| `OutputProofs` | theorems about `Fragmenter` and the two that extend it, `Packager` and `StaticFragments` | |
| `BytesProofs` | theorems about `PacketBytes` and `Bootstrap`, which share `BigEndian` | |
| `NumberFacts` | lemmas about division, the naturals and sequences that several of them need | |
| `MC...` | instances for TLC | |

Operators with a suffix, such as `StartFragment_KeepsTimebase`, stand before the definition they
are a variant of and are no part of the model.  Each is a plausible programming error;
`PROJECT.json` (`mutants`) says which property it breaks, to show that the property speaks
of the code.

### Abstractions

* **Times** are integers, in ticks.  The code holds them as doubles in seconds.  Equal instants
  are equal doubles, whatever the timescales, and the order of different ones is kept; what
  doubles do differently is modelled where it decides something: a sum may be above the
  instant it is meant to be (`Fragmenter.Reaches`, over a set `late` of instants), a whole number
  of milliseconds times 1000.0 may be truncated to one less (`Packager.Ms`, over a set
  `below`, the same for every source; `PacketBytes.Milliseconds`), and so may a difference
  (`Packager.MsOfDuration`).  Which instants those are is arbitrary.
* **Contents** of samples, codec data and names are model values with a size.  A file is a
  function from positions to *cells*, each with the width and the value of one field; a read that
  is not aligned to a cell is an error of the model (`AlignedReads`), not garbage that happens to
  work.  `BigEndian`, `PacketBytes` and `Bootstrap` are about bytes instead; there a byte
  is a number below the constant `BYTE` (a multiple of 4, to have room for two flags; four digits to
  the base `QUARTER` in `Bootstrap`, and a letter of base 64 is three of them), scaled down for TLC so
  that every width is reached.  Bytes that are only copied are model numbers,
  and so are the letters of box names.
* **Tracks.** `Finalize` takes movies of one track or of a video and an audio track; a movie
  without tracks has no samples.  The bitrate that `finalize` computes is read by nobody and
  left out.
* **Files of a site.**  In `Publishing` a file is known by the run that wrote it.  The index has
  two parts, the least for which its parts can be of two runs; static files and the manifest
  are whole or not.  One source, not changed meanwhile (`mod_nginx/README:25` forbids to).  What
  a full disk does not take is found when the file is closed: that the disk has room again
  by then is not considered.
* **Loaded boxes** have what their parsers look at before they keep anything (`Contents`): version,
  flags, the count of records, the kind in `hdlr`, the entries of `stsd`.  An entry is
  known as one that the checks for a video or an audio track accept, with the places where
  its configuration ends: the constants and the descriptor lengths that those checks compare are not modelled
  one by one.  The records of the other tables are left out; `SampleTable` starts from them.
* **Tables** of a track are any tables (`IsTrack`): they need not agree with each other, nor be
  legal.  What the properties ask of one is named `LegalStsc`, `LegalCtts`, `LegalStss`, `Agree`.
* **Undefined behaviour** ends a model: `pc` is `"outside"` when a vector is indexed past its end,
  `"overrun"` when bytes after the file or after a loaded box are read, and the response is `Killed` when the handler
  writes or reads where it has no memory.  What the program does from there is not followed, with one
  exception: a read outside the source can also succeed, and then other bytes are sent.
* **nginx** is external: pool allocation always succeeds, and the header and output filters return
  success or an error; the handler returns what they do (`Send`).
* Widths are constants: 2^16 and 2^32 are `U16` and `U32` (`SizeWidth` in `StaticFragments`),
  scaled down so that counts, places and sizes of fragments wrap.  A single sample is smaller than 2^32
  bytes (`IsWorld`): its size is a number of 32 bits in the movie already.

## Runs

Ten runs find no error.  Every one of their properties is violated by a variant of the code.

| Run | Question | Bounds, and why they are enough |
|---|---|---|
| `fragmenter` | Is every movie cut without loss, at the first key frame allowed, into durations that tile it? | All movies of up to 4 samples at ticks 0 to 4, requested durations 0 to 3, with no limit rounded up, one, and two. Two cuts, a cut delayed past a key frame, samples at equal times and the empty movie all occur; the proofs remove the bound. |
| `finalize` | Do the five cursors agree with what the tables mean, and is the sorted list a timeline? | Movies of one track: up to 4 samples in up to 3 chunks with all chunk maps and two descriptions, so that the chunks hold fewer samples than there are, as many, or more; all time, composition and key tables of 3 samples; tables of up to 3 samples that disagree in each way (a time too few or too many, no runs, runs that do not start at chunk 1 or overlap, counts of 0, key frames out of order). The carries involve two neighbouring runs, of which these have up to three. Movies of two tracks: small ones with equal and different timescales, equal and repeated times, and chunks out of order. |
| `box_parser` | Does the parser keep its place, in every order of the boxes, and what does it refuse? | All nestings of up to 3 table boxes, known and not, containers ending in skipped boxes, two tracks of all handlers; a small file cut at each byte, and with impossible sizes; a last box of size 0, data or movie; files of the largest size that fits the parser's counter, and of one byte more. For each check of a loaded box a movie on either side of it: versions, flags, counts that are right, too large or wrap, and sample entries of each kind that end before, at and after their box, in tracks of each kind. Depth is that of real files, where the pops of five levels at once happen. |
| `index_writer` | Do both passes agree and does the file describe the media list? | Two sources of up to 5 fragments of up to 5 samples, with and without codec data, counts of width `U16 = 4`: counts below, at and above the width, and places and fragment sizes above `U32 = 1024`. |
| `fragment_server` | Does the handler answer as the service, on any prefix of an index? | Five indexes (one or two sources, an empty fragment, counts that wrap, sizes and places that wrap), each cut at *every* byte; every length of the source, samples beyond `U32` and one across it, in a source that has its end and in one that has not; fragments whose wrapped size leaves no room for the codec headers, or just for these; versions 0 to 4 and foreign files; GET, HEAD and POST, and numbers out of every range. |
| `packager` | Does one run table fit the movie, and every bitrate? | All movies of up to 3 samples, 3 ticks to a millisecond so that both truncations lose, and sets of instants that are rounded the wrong way; pairs of movies with the same key frame times and some without; ends before, at and after the last sample. |
| `static_fragments` | Do the files hold the movie in the size they declare? | Movies of up to 3 samples with and without either track, an open that fails at any file; `SizeWidth = 96` lies inside the range of sizes, so that some wrap. |
| `packet_bytes` | Are the bytes of both modes the same, and FLV that a player can read? | Fragments of one sample with places, times, timescales and composition offsets around the limits of each width, and fragments of two; with and without codec data. |
| `bootstrap` | Does a player that decodes the manifest find the run table? | Tables of one to three rows, marked and not: lengths with one, two and no bytes after the triples, numbers of one to three bytes. |
| `publishing` | What can be on disk, and be answered, when runs stop anywhere? | Three runs of any mode that find one or two fragments: one publishes, one fails, one publishes again. Any number of requests at any moment; builds with and without `TESTING`. |

`CHECK_DEADLOCK FALSE` appears throughout because each model is of a function that returns.

Two more runs show that the program does not do what the repository says of it:

* `readme_numbering`: `mod_nginx/README:40` numbers fragments from 0.  The handler refuses 0
  (`ngx_http_mp4frag_module.c:319`), and the manifest numbers from 1.
* `dump_assertion`: `mp4frag/dump_fragment.py:28` asserts that a fragment file is as long as the
  size in its box header.  `serialize_fragment` counts two codec headers whatever the tracks
  are, and writes only those that have data, so that a movie without video or audio gives
  files shorter than declared.  `SizeDeclared` states what does hold: with both tracks, sizes
  are right.  (`SizeWidth` is 65536 in this run: no size wraps.)

Documentation and code differ also in matters no run is about: `mod_nginx/README:23` tells to pass
`--template`, where the option is `--index`, and `:41` counts a fragment per 4 seconds, where the
default of `--fragmentduration` is 3000 ms.

### What the properties say

* *Fragmenter.* `Lossless`, `StartsWithKey`, `DurationsTile`, `CutAtFirstChance`,
  `NoEmptyFragment`.  The last has the condition that a positive duration was asked for:
  with 0 the first sample already cuts, leaving an empty fragment, whose first sample the manifest
  reads unchecked (`Packager`, `ReadEmpty`).
* *SampleTable.* `OffsetsRight`, `TimesRight`, `FieldsRight` (composition and key frames) compare each
  sample with a declarative reading of its table, where that table is legal by itself.  `InTables`: nothing in the code compares
  the tables, and the vectors are indexed past their end when `stts` gives more samples than `stsz` and the
  chunks hold; the property says that this is the only way, for legal runs, and that a pass that
  comes to its end was over tables that agree.  `Complete`: with one sample description and legal runs
  neither assert fires, and all samples come out.
* *Finalize.* `GivesTimeline`: the assumption of `Fragmenter` holds of what `finalize` leaves.
  `KeepsOrder`: sorting loses no sample and does not turn a track around, unless its table has
  zero durations: the order of equal times is that of positions in the file.
* *BoxParser.* `KeepsPlace`: whenever a header is read, it is that of a box of the file and the
  stack is its ancestors, with what each has left.  `TablesLoaded`: each table that was passed is in
  the track it lies in, and in no other.  `Configured`: a track whose `hdlr` comes before its `stsd`,
  as muxers write them, keeps its codec data, those of the last `stsd` that gives any should it have several.
  `Accepted`: a well formed file with tables the program supports is not refused and fires
  no assert, whatever its nesting; and of the files that are cut, the program reads past the end of just those
  that end in a header or in a box to load, and takes the others for whole.  `Terminates`.
* *IndexWriter.* `PassesAgree`, `IndexDescribes` (with counts modulo `U16`, places and sizes modulo `U32`).
* *FragmentServer.* `AlignedReads`, `NeverOverrun`, `ReleasedOnce`, and `ImplementsService`, the
  refinement of the abstract service: what is answered with 200 is exactly the fragment the index
  describes (nothing of it for a HEAD), a shorter index or source gives an error and never a wrong
  body, and an answer comes.  The service says where this ends: a sample that the source does not hold and whose place and
  size add up to 2^32 or more passes the check (`ngx_http_mp4frag_module.c:393`) and is read from elsewhere, and a
  fragment of 4 GiB or more, whose size wrapped, has too small a buffer.  For these it allows a killed process, and
  for the first other bytes; `NeverOverrun` excepts the second, and no other.  `ReleasedOnce` excepts a foreign index,
  which is unmapped twice (`:242` and the label): it says that this is the only such path, and that no second mapping
  is made by then, which in a worker of one thread could have been at the same address.
* *Packager.* `TableTiles`: gaps between rows are of -1 to 2 ms and do not add up.
  `MarksEmptyRows`, `ManifestWritten`, `TableFitsAll`.
* *StaticFragments.* `SizeDeclared`: a file is as long as it declares, modulo 2^32, but for the framing of
  codec data that a missing track does not have.  `FilesHoldMovie`: each file begins with the codec data of every track, and the files one
  after the other hold the samples of the movie, each once and in order.
* *PacketBytes.* `SameBytes`: a site may change its mode and players notice nothing, if both tracks
  are there and the source is below 4 GiB.  `PlayerReads`: both are FLV tags with each sample.
  It supposes composition offsets that are not negative: the code scales a negative one
  as a large number (`mp4frag.cc:59`), which is right only for a timescale of 1000.  It supposes
  also that codec data fit the 24 bits of a tag's size, and that a response fits the 32 bits of a box's:
  nothing in the code checks either.
* *Bootstrap.* `ReaderFindsRows`, except after a row of 0 ms without its mark (a last fragment
  shorter than a millisecond, see `MarksEmptyRows`), and below the 4 GiB that its first field can tell.
* *Publishing.* `ManifestLast`: a manifest is only whole when what it lists is, and a later run has
  not begun to replace it.  `NotMixed`: an answer is made of one index, unless that is written
  during the request: what a failed run leaves is a prefix, for the file is truncated first.
  The exception is real: a request that maps an index while it is rewritten may read parts of both,
  or die of a page that is gone.  `ListedServed`: what a manifest lists is served until the tool is
  run for another index; a failed run of another mode costs nothing.

### Fairness

Two specifications are fair.  `BoxParser` and `FragmentServer` assume weak fairness of `Next`:
both model a sequential function that is not interrupted and waits for nothing but page
faults, so that a step that can be taken is taken.  The other modules state safety only.

## Proofs

Every invariant that a run checks is also a theorem, about the whole specification of its
component and for every value of the constants: files, movies and indexes of any length, widths of
any size.  A theorem `Invariance` (`FInvariance`, `PInvariance`, `SInvariance` and `MInvariance` where
a module of proofs has several specifications) says that the inductive invariant holds; those named for a
property follow from it.  The assumptions are the ones the modules declare on their inputs.  They
say what the inputs are and never what the code does with them.

| Component | Proved | From |
|---|---|---|
| `Fragmenter` | `TypeOK`, `Lossless`, `StartsWithKey`, `DurationsTile`, `CutAtFirstChance`, `NoEmptyFragment` | `MoviesAssumption`: movies are timelines |
| `SampleTable`, `Finalize` | `TypeOK`, `InTables`, `OffsetsRight`, `TimesRight`, `FieldsRight`, `Complete`, for one track and for each of a movie; `GivesTimeline`, `KeepsOrder` | `TracksAssumption`, `ParsedAssumption`: any tables, with the anchor that the parser of `stsc` appends, and a timescale that divides the clock; `ClockAssumption` |
| `Packager` | `TableTiles`, `MarksEmptyRows`, `ManifestWritten`, `TableFitsAll` | those of `Fragmenter`; `SourcesAssumption`, `UnitAssumption`, `TruncationsAssumption` |
| `IndexWriter` | `TypeOK`, `PassesAgree`, `IndexDescribes` | `MediaListsAssumption`: each source has a fragment, and names and codec data that fit their 16-bit lengths; the widths |
| `FragmentServer` | `TypeOK`, `AlignedReads`, `NeverOverrun`, `ReleasedOnce`; `Service!Safe`, the safety of the refinement | `InputsAssumption`: the file is a prefix of an index as `IndexFormat` describes it, of any version and signature |
| `Publishing` | `ManifestLast`, `NotMixed`, `ListedServed` | `JobsAssumption`: what a run can be asked for |
| `BoxParser` | `TypeOK`, `KeepsPlace`, `Accepted`, `TablesLoaded`, `Configured` | `FilesAssumption`: boxes in file order, parents first; `WidthAssumption` |
| `StaticFragments` | `SizeDeclared`, `FilesHoldMovie` | those of `Fragmenter`; `CodecSizesAssumption`: a track has codec data |
| `PacketBytes` | `SameBytes`, `PlayerReads` | `FragmentsAssumption`, `CodecSizesAssumption`, `ByteAssumption` |
| `Bootstrap` | `ReaderFindsRows` | `TablesAssumption`: a row marked has no duration and is the last, times and numbers fit their fields; `QuarterAssumption`, `ByteAssumption` |

`GivesTimeline` is what `Fragmenter` assumes of a movie, `IndexDescribes` what
`FragmentServer` assumes of an index, so that the theorems join where the programs do.

### The inductive invariants

*Fragmenter.*  Nothing in the properties says that `timebase` is the start of the open fragment,
so that a step from an arbitrary state could give the closed one a wrong duration.  `IInv` adds
`LoopVariables` (`timebase` is the start of the last fragment, `limit_ts` is `timestep` later),
`FirstHasSample` (the first sample is at time 0 and cannot cut) and that the loop ends only when
all samples are taken.  `StartShape`, `ExtendShape` and `FinishShape` say once what each action
does to the sequence of fragments.  That a limit may be rounded up (`late`) makes
`CutAtFirstChance` say a little less: a key frame that the fragment could have been cut at
and was not is one that `Reaches` denies.

*SampleTable.*  The properties look at the samples that are out, the code at five cursors.  `Cursors`
ties each cursor to `number`: the next sample is the `iii`-th of its `stts` entry, the `order_n`-th
of its `ctts` entry, the `sample_number_in_chunk`-th of a chunk that lies in the run before
`chunk_run`, and exactly the key frames passed are behind `keyframe_index`.  The sums a track carries
grow along their tables (`Grows`, an induction over positions), so a sample is in one run of each
(`OneRun`) and a fact about the run of the cursor is one about the run the property names.
The tables may be anything: each of these relations is claimed where its own table is legal, and holds on as
long as the cursor stays inside.  `InTables` counts: before a sample that `stts` still gives, `number` is less than what
sizes and chunks hold, if they hold as many; and a pass that reached the end took each of its samples
from both.  The last chunk run is an anchor that no chunk reaches, so the run behind the next one is always there to be asserted on.

*Finalize.*  The invariant of `SampleTable` holds of the track in hand.  `Gathered` says that the
list has a sample at time 0 once it has any, `Ordered` that it is made of one track after the
other, each, when it repeats no time, in increasing order.  The sort is any permutation without
inversions.  It reaches every sample (`OrderReaches`: one to one on a finite set is onto), so the
one at time 0 comes first; and two samples of one track turned around would be an inversion
(`SortMerges`).

*Packager.*  `PIInv` is the invariant of `Fragmenter` for the source in hand, and `IsCut` for
each media done: where its fragments start, and that no key frame that reaches the limit was
passed over.  `CutTimes` carries this through the loop, because `Fragmenter` only speaks of the
source it is at.  The rows are those of the first media (`RowsRight`).  `TableFitsAll` compares it
with another media by induction over the fragments: both cut at the same time, because
each cut is the first common key frame past the limit.  `TableTiles` is arithmetic: the quotient of
a sum misses the sum of quotients by at most one (`QuotientOfSum`), and each truncation by
one more.

*IndexWriter.*  `MeasuredRight` says what pass one computes: every block starts where the one
before it ends.  `Placed` says that pass two stands where pass one said it would, and
that the cells written so far tile the file (`Tiles`: no gap, no overlap); `Contents` that each
block written is at its position.  Two blocks that meet tile their union (`JoinHolds`), so the
proof looks at each cell once.  `PassesAgree` is the last instance
of `Placed`, `IndexDescribes` that of `Contents`.

*FragmentServer.*  At each of its reads, `WellPlaced` says that `indexptr` is at the field that
the index describes next, `GotRight` that what was read before is what it describes, `Written` that the
response is a prefix of the fragment asked for and has its length, `Accounted` which mappings are
held, and `Answered` that the answer is one the service allows.  `AlignedReads` follows
from the positions, `NeverOverrun` from `totalsize` being the sum of the packets, if that fits 32 bits (`Sizes`, which
grows).  The counts in the file are modulo `U16`: the server's own checks, and what `Service` allows
for an index that does not fit, meet in one lemma for each refusal.  A sample that fails the check is not in the source, and one
that passes and is not there reaches 2^32 (`NotThere`).  `ImplementsSafety` maps the
handler to the service, which takes one step, from no answer to an answer: every step
of the handler keeps the answer empty, but the one to `"done"`, which satisfies `Service!Answer`.

*Publishing.*  `StageReached` says what the run in hand has on disk at each stage,
`IndexOfOneRun` that the index is always a prefix of one run's, and `CalmReader` that a request
that saw no change has read a prefix of it and is still promised what it was promised.

*BoxParser.*  `Placed` ties the stack to a *path* of boxes in the file, each the parent of the
next: the parser is at the header of a box in the last one, or at the content of a box it has
just opened, and every open box has left what its header announced and its children did not take.
Closing boxes keeps it: a box has nothing left exactly when it ends at this place, and then its
parent's next child is there, or the parent ends there too.  The argument goes down the path box
by box (`Popped`), as the loop in the code does.  That the path is the one that `Path` computes by
recursion is shown from the existence of that function.  `Shape` is what holds for any file:
only the top of the stack loads, or has bytes to skip.  `Gathered` adds what was found: there are as
many tracks as `trak` boxes begun, each has loaded the tables that ended inside of it, the latest
one has its kind once its `hdlr` was passed, and by a handler of its own (`Told`: the kind an entry is parsed as is
one that `Supported` speaks of), a track has the codec data of its last `stsd` that gives any, or of
one after it, and every header passed was whole in the file (`HeadersRead`: what a cut file is found short of).  That a table goes to the *last* track, as the code does, is right because the
`trak` around it was begun, and no other was since: two of them cannot overlap (`Tile`), and none
is inside of another.

*StaticFragments.*  `SIInv` is `IInv` of `Fragmenter`, and what is in the files.  `Sized` says that the
sum which `generate_fragments` keeps is that of the packets between two positions of the movie, a
difference of two partial sums, so that no step has to add again; the declared size is that modulo
`SizeWidth`.  `Holds` says that a file is
the header, the codec data and the first samples of its fragment, with the length of these.  At the
end of a fragment the two meet, up to the codec headers the code counts without writing them.

*PacketBytes.*  `BInv` says that the entries are those of the samples (`Packed`), that `totalsize`
is the length of their packets (`Counted`), that the index has their fields at the places where
the handler reads them (`IndexedBy`), and that file and response are the same packets one after the
other.  Of one sample, the handler's packet, made from the 16 bytes of a record, is the packet of the
tool, made from the `SampleEntry` (`SameSample`): reading a number back gives what was
written modulo its width (`ReadBack`), and so `SameBytes` needs places below 4 GiB and nothing else.  The
player of `PlayerReads` goes from tag to tag by the sizes it reads.  `LaidOut` says where the packets
of a sequence lie, `TagsFound` that a walk by the sizes comes to these places, `TagShows` that
the tag there is the sample's.

*Bootstrap.*  `MInv` has a part for each stage: the rows so far lie one after the other in the
content of their box (`Rows`), the boxes are nested as `InfoOf` says (`Whole`), and the letters so far
stand for the bytes so far (`Encoding`, `Ended`).  Four letters and three bytes are the same number
in two bases (`TripleNumber`), of which the padding cuts off what was not there (`Decodes`).  What
is at a place of a box is at a later one of the box around it (`LiesInside`), so what was written
for a row is found where the sizes lead.  The walk over the rows (`PlacesFound`) needs that a
duration of 0 is read where a mark follows, and only there.

### What the attempts showed

Some definitions were wrong where the bounds of the runs hid it, and were changed:

* `Accepted` and `KeepsPlace` did not hold of large files.  The outermost parser starts with
  2^32 - 1 bytes, so a well formed file of 4 GiB or more is refused: `WellFormed` says so now, and
  the run has files on both sides of the limit.  A box of size 0 counts as 2^32 bytes for its own
  parser and as none for the one around it, where the property knew one extent (`EndInside`,
  `EndAround`); a movie box of size 0 is in the run now.  And `IsFile` did not say that boxes are
  listed in file order.
* `MarksEmptyRows` did not hold of a last fragment whose milliseconds wrap to 0 (`Fits`).
* `Describes` did not say that the blocks of an index come after the tables that point to them,
  nor did the worlds of `FragmentServer` say that names and codec data fit their length fields
  (`Writable`).  The handler checks a table together with one byte after it, which means nothing
  in other files.  `IndexDescribes` now claims it of what the tool writes.
* `MakeMapping` looked at the length of a file that does not exist.
* `KeepsOrder` compared filtered lists; that the sorted list is a permutation of what was gathered
  says more, and can be reasoned about.
* `WellFormed` allowed boxes that overlap, and boxes listed inside of one that the parser does not
  descend into; `TrackOf` counted a `trak` outside of a `moov`, which the code skips.
* `Configured` did not hold of a track with two `stsd` boxes: the second replaces what the first gave.
* `FilesHoldMovie` said that the codec data are somewhere in a file; a player needs them first.
* `PlayerReads` did not hold of codec data of 16 MiB, nor of a response of 4 GiB, and `BYTE` had to
  be a multiple of 4 for two flags to fit on top of one.
* `Accepted` held because every content of a loaded box was taken, where the code refuses many, and of whole files only.
  `Configured` did not hold of a second `stsd` that gives nothing.
* `InTables` and `Complete` held because the tables of a track were assumed to agree, which nothing checks.
* `NeverOverrun`, `SizeDeclared` and the service did not hold of fragments of 4 GiB, nor the service of samples
  across a multiple of 4 GiB of the source, nor of an answer that nginx cannot send.
* `ReaderFindsRows` did not hold of an `abst` box of 4 GiB, nor of rows whose times are wider than the
  code's 32 bits (`IsTable`).

### What stays with TLC

Liveness only: that the parser ends on every file (`Terminates`), and that the service answers
(`ImplementsService` is its safety, proved as `ImplementsSafety`, and that).  Both need `ENABLED`,
which the prover does not handle.

What is defined by recursion over data (the size of a file, the digits of a number, the places of
packets and rows) is a recursive function in the modules.  The proofs show that such a function
exists and has its steps, by induction on a set of numbers (`Induction` in `NumberFacts`), and use
only these.

## Not modelled

* `get_fragment` behind its version check, `readstring`, and the reading functions of
  `serialize.hh`: no build reaches them.  (`read24` of a stream reads a fourth byte it
  did not get; nothing calls it.)
* The XML of the manifest, options, help, timing messages, the directories that the static mode makes.
  `main` returns 0 after an exception as well as after success (`mp4frag_main.cc:177`), so that a
  script cannot tell a `Stop` of `Publishing` from the end of a run.
* The division by a maximum time of 0 when the bitrate is computed (`mp4.cc:694`), whose result nothing reads.
* Timescales of 0, or that do not divide the clock of the model (`Finalize.IsParsed`).
* What follows undefined behaviour (see the abstractions).
* nginx itself, its registration tables and configuration, the build scripts, and `httpd/`,
  announced but not written.

## Files the program does not take

The parsers of loaded boxes, and `_unfold`, refuse some files that the format allows.  `BoxParser` and `SampleTable`
have them in their runs; no property excludes them:

* refused: a `ctts` without entries (`mp4.cc:352` wants 12 bytes or more), a `stsz` with a flag in its low 16 bits (`:331`),
  a video entry with a resolution other than 72 dpi (`:478`, `:480`) or with 1 to 7 bytes after its fixed
  fields (`:488`), an audio entry other than `mp4a` (`:499`) or one that is not the last thing in its
  `stsd` (`:505`), and files of 4 GiB or more (`:170`);
* ended by an assert: a run of chunks, after the first, with another sample description (`:601`, `:647`);
* not understood: 64-bit box sizes (`:168`), taken for boxes of nearly 4 GiB;
* read outside a vector: an `stsc` without entries, as movies in fragments have (`:601`).

The code also follows some files that are not of the format past the end of what they hold: a count in `stsz` larger than its
box (`:338`), a table whose size is right only modulo 2^32 (`:371`), a codec configuration larger than its
`stsd` (`:490`), tables that disagree (`:633`).
