----------------------------- MODULE BoxParser -----------------------------
(***************************************************************************)
(* The pull parser of the mp4 box tree: the loop of make_fragments         *)
(* (mp4frag.cc) that feeds a Context, and Context::feed with the parser    *)
(* classes of mp4.cc.  The context keeps a stack of open boxes, each with  *)
(* the bytes it has left, the bytes it wants next and the bytes to skip    *)
(* before; the loop keeps the offset of the next byte in the file.         *)
(*                                                                         *)
(* A file is its size and the boxes the parser may meet, in file order:    *)
(* those it descends into, those it loads and those it skips.  What a      *)
(* loaded box holds is what its parser checks: the version and flags, how  *)
(* many records it says it has, the sample entries of stsd, the kind hdlr  *)
(* says.  The records themselves are left out.                             *)
(***************************************************************************)
EXTENDS Integers, Sequences, FiniteSets

CONSTANTS
  Files,     (* The files that can be given with --src: see IsFile. *)
  U32        (* Width of a box size: 2^32 in the code.              *)

HeaderSize == 8

Containers == {"top", "moov", "trak", "mdia", "minf", "stbl"}

(* The box inside each container that the parser descends into, *)
Descends(kind, type) ==
  <<kind, type>> \in {<<"top", "moov">>, <<"moov", "trak">>, <<"trak", "mdia">>,
                      <<"mdia", "minf">>, <<"minf", "stbl">>}

(* and those it loads. *)
Loads(kind, type) ==
  \/ kind = "trak" /\ type = "tkhd"
  \/ kind = "mdia" /\ type \in {"mdhd", "hdlr"}
  \/ kind = "stbl" /\ type \in {"stsz", "stco", "stss", "stts", "stsc", "co64", "stsd", "ctts"}

Loaded == {"tkhd", "mdhd", "hdlr", "stsz", "stco", "stss", "stts", "stsc", "co64", "stsd", "ctts"}

Handlers == {"vide", "soun", "other"}

(* The tables of records of a fixed size. *)
RecordSize == [stco |-> 4, stss |-> 4, stts |-> 8, co64 |-> 8, stsc |-> 12]

(* A sample entry of stsd begins at bytes of the content.  as is the kind of *)
(* entry whose fixed fields it has, as the parser of that kind wants them;   *)
(* the box of its codec configuration says that it ends at box_end, and the  *)
(* configuration that it ends at config_end.                                 *)
SampleEntries == [as : Handlers, at : Nat, box_end : Nat, config_end : Nat]

Contents == [version : 0..255, flags : Nat, count : 0..(U32 - 1), uniform : BOOLEAN,
             entries : Seq(SampleEntries)]

(* A box: its position, the size its header gives, and the box around it.   *)
(* full is the size the file was meant to have, size what there is of it.   *)
IsFile(f) ==
  /\ f.size \in Nat /\ f.full \in Nat /\ f.size <= f.full
  /\ f.boxes \in Seq([type : STRING, says : Handlers, at : Nat, size : 0..(U32 - 1), parent : Nat,
                    content : Contents])
  /\ \A b \in 1..Len(f.boxes) : f.boxes[b].parent < b
  /\ \A b, c \in 1..Len(f.boxes) : b < c => f.boxes[b].at < f.boxes[c].at

ASSUME FilesAssumption == \A f \in Files : IsFile(f)
ASSUME WidthAssumption == U32 \in Nat /\ U32 > HeaderSize

VARIABLES
  file,      (* The source: an input, never assigned.                       *)
  stack,     (* The open boxes, outermost first; the last is _parser.       *)
  offset,    (* Of the next byte to feed.                                   *)
  tracks,    (* The tracks met: boxes loaded, and the one with the codec    *)
             (* configuration; the last is _current_parsed.                 *)
  video,     (* Tracks known as video and audio, 0 when there is none.      *)
  audio,
  pc         (* "feed", "done", "rejected" (an exception), "aborted" (an    *)
             (* assert), "overrun" (bytes past the end of the file, or of   *)
             (* the box loaded, are read: a fault, or whatever is there and *)
             (* whatever it leads to).                                      *)

vars == <<file, stack, offset, tracks, video, audio, pc>>

boxes == file.boxes

Frame(kind, total, wants) == [kind |-> kind, total |-> total, wants |-> wants, to_skip |-> 0]

Top == stack[Len(stack)]
Position == offset + Top.to_skip
-----------------------------------------------------------------------------
Init ==
  /\ file \in Files
  /\ stack = <<Frame("void", 0, 0), Frame("top", U32 - 1, HeaderSize)>>
  /\ offset = 0
  /\ tracks = <<>> /\ video = 0 /\ audio = 0
  /\ pc = "feed"

(* Box b has its header at the position of the next read. *)
AtHeader(b) ==
  /\ pc = "feed" /\ Top.kind \in Containers
  /\ Position + HeaderSize <= file.size
  /\ boxes[b].at = Position

TooLarge_OrEqual(b) ==
  Top.kind \in {"top", "moov", "trak", "mdia"} /\ boxes[b].size >= Top.total

(* Minf and Stbl do not check the size of a child. *)
TooLarge(b) ==
  Top.kind \in {"top", "moov", "trak", "mdia"} /\ boxes[b].size > Top.total

Content_Signed(b) == boxes[b].size - HeaderSize

(* Bytes after the header. *)
Content(b) == (boxes[b].size - HeaderSize) % U32

(* The stack when the header of b is read and the box will be skipped for n. *)
Take(b, n) ==
  [stack EXCEPT ![Len(stack)].total = (@ - boxes[b].size) % U32, ![Len(stack)].to_skip = n]

PopEmpty_LosesSkip(st) ==
  LET open(j) == st[j].total # 0 \/ st[j].wants = 0
      k == CHOOSE j \in 1..Len(st) : open(j) /\ \A i \in (j + 1)..Len(st) : ~open(i)
  IN  SubSeq(st, 1, k)

(* Boxes with nothing left are closed; the bytes to skip go to the one that  *)
(* becomes the top.  An entry that wants nothing stops it.                   *)
PopEmpty(st) ==
  LET open(j) == st[j].total # 0 \/ st[j].wants = 0
      k == CHOOSE j \in 1..Len(st) : open(j) /\ \A i \in (j + 1)..Len(st) : ~open(i)
  IN  [SubSeq(st, 1, k) EXCEPT ![k].to_skip = st[Len(st)].to_skip]

NewTrack == [loaded |-> {}, extradata |-> 0]

TracksWith_Shared(type) ==
  IF type = "trak" /\ tracks = <<>> THEN <<NewTrack>> ELSE tracks

(* Each trak starts a track of its own. *)
TracksWith(type) == IF type = "trak" THEN Append(tracks, NewTrack) ELSE tracks

(* A container: its parser is pushed, unless it has no room for a child. *)
Descend(b) ==
  /\ AtHeader(b) /\ Descends(Top.kind, boxes[b].type) /\ ~TooLarge(b)
  /\ Content(b) >= HeaderSize
  /\ stack' = Append(Take(b, 0), Frame(boxes[b].type, Content(b), HeaderSize))
  /\ tracks' = TracksWith(boxes[b].type)
  /\ offset' = Position + HeaderSize
  /\ UNCHANGED <<file, video, audio, pc>>

DescendIntoSmall(b) ==
  /\ AtHeader(b) /\ Descends(Top.kind, boxes[b].type) /\ ~TooLarge(b)
  /\ Content(b) < HeaderSize
  /\ pc' = "aborted"
  /\ UNCHANGED <<file, stack, offset, tracks, video, audio>>

(* A box to load whole: its parser wants all of it. *)
StartLoad(b) ==
  /\ AtHeader(b) /\ Loads(Top.kind, boxes[b].type) /\ ~TooLarge(b)
  /\ stack' = Append(Take(b, 0), Frame(boxes[b].type, Content(b), Content(b)))
  /\ offset' = Position + HeaderSize
  /\ UNCHANGED <<file, tracks, video, audio, pc>>

SkipBox(b) ==
  /\ AtHeader(b) /\ ~TooLarge(b)
  /\ ~Descends(Top.kind, boxes[b].type) /\ ~Loads(Top.kind, boxes[b].type)
  /\ stack' = PopEmpty(Take(b, Content(b)))
  /\ offset' = Position + HeaderSize
  /\ UNCHANGED <<file, tracks, video, audio, pc>>

RejectBox(b) ==
  /\ AtHeader(b) /\ TooLarge(b)
  /\ pc' = "rejected"
  /\ UNCHANGED <<file, stack, offset, tracks, video, audio>>

(* What is read at the beginning of a box before its size is looked at. *)
FixedPart(f, b) ==
  LET box == f.boxes[b] IN
    CASE box.type = "tkhd" -> IF box.content.version = 1 THEN 96 ELSE 84
      [] box.type \in DOMAIN RecordSize \cup {"stsd"} -> 8
      [] OTHER -> 0

(* The tables that have to be as long as their count says, in 32 bits. *)
TableBytes(f, b) == 8 + RecordSize[f.boxes[b].type] * f.boxes[b].content.count

(* A sample entry, in n bytes of content, read as one of that kind: what the *)
(* checks refuse ...                                                         *)
RefusedEntry(e, n, kind) ==
  \/ /\ kind = "vide"
     /\ \/ e.as # "vide"
        \/ n - e.at \in 87..93
        \/ e.at + 94 <= n /\ e.box_end < e.at + 94
  \/ kind = "soun" /\ (e.as # "soun" \/ e.box_end # n)

(* ... and what reads on after the content; an entry that is not of the kind *)
(* may do so before it is refused.                                           *)
PastEntry(e, n, kind) ==
  \/ e.at + 4 > n
  \/ kind = "vide" /\ e.at + 86 > n
  \/ kind = "vide" /\ e.as = "vide" /\ e.at + 94 <= n /\ e.box_end > n
  \/ kind = "soun" /\ (IF e.as = "soun" THEN e.config_end > n ELSE e.at + 79 > n)

(* The checks of the parser of a loaded box, in a track known as that kind. *)
Refused(f, b, kind) ==
  LET type == f.boxes[b].type
      c == f.boxes[b].content
      n == (f.boxes[b].size - HeaderSize) % U32
  IN  \/ type = "mdhd" /\ <<c.version, n>> \notin {<<0, 24>>, <<1, 36>>}
      \/ type = "hdlr" /\ n <= 24
      \/ type = "stsz" /\ (n < 12 \/ c.flags % 65536 # 0)
      \/ type = "ctts" /\ (n < 12 \/ (c.count > 0 /\ 8 + 8 * c.count > n))
      \/ type \in DOMAIN RecordSize /\ (c.version # 0 \/ c.flags # 0 \/ TableBytes(f, b) % U32 # n)
      \/ type = "stsd" /\ \E i \in DOMAIN c.entries : RefusedEntry(c.entries[i], n, kind)

(* What they do not check. *)
ReadsPast(f, b, kind) ==
  LET type == f.boxes[b].type
      c == f.boxes[b].content
      n == (f.boxes[b].size - HeaderSize) % U32
  IN  \/ FixedPart(f, b) > n
      \/ type = "stsz" /\ ~c.uniform /\ 12 + 4 * c.count > n
      \/ type \in DOMAIN RecordSize /\ TableBytes(f, b) > n
      \/ type = "stsd" /\ \E i \in DOMAIN c.entries :
            /\ PastEntry(c.entries[i], n, kind)
            /\ \A j \in 1..(i - 1) : ~RefusedEntry(c.entries[j], n, kind)

(* stsd gives a codec configuration: a video entry may have none, and those *)
(* of other tracks are not read.                                            *)
Gives(f, b, kind) ==
  \E i \in DOMAIN f.boxes[b].content.entries :
    \/ kind = "vide" /\ (f.boxes[b].size - HeaderSize) % U32 > f.boxes[b].content.entries[i].at + 86
    \/ kind = "soun"

(* hdlr tells what the current track is ... *)
HandlerOf(b, says) == boxes[b].type = "hdlr" /\ boxes[b].says = says

KindOf_OnlyVideo(t) == IF t = video THEN "vide" ELSE "other"

(* ... and stsd reads the entries of a track that is known by then. *)
KindOf(t) == IF t = video THEN "vide" ELSE IF t = audio THEN "soun" ELSE "other"

(* The content of b is there to be parsed. *)
AtContentOf(b) ==
  /\ pc = "feed" /\ Top.kind \notin Containers /\ Top.wants # 0
  /\ Position + Top.wants <= file.size
  /\ boxes[b].at + HeaderSize = Position

(* The parser of b loads it and pops itself, ... *)
Load(b) ==
  LET t == Len(tracks) IN
  /\ AtContentOf(b)
  /\ ~Refused(file, b, KindOf(t)) /\ ~ReadsPast(file, b, KindOf(t))
  /\ tracks' = [tracks EXCEPT
       ![t].loaded = @ \cup {b},
       ![t].extradata = IF boxes[b].type = "stsd" /\ Gives(file, b, KindOf(t)) THEN b ELSE @]
  /\ video' = IF HandlerOf(b, "vide") THEN t ELSE video
  /\ audio' = IF HandlerOf(b, "soun") THEN t ELSE audio
  /\ stack' = PopEmpty(SubSeq(stack, 1, Len(stack) - 1))
  /\ offset' = Position + Top.wants
  /\ UNCHANGED <<file, pc>>

(* ... refuses it, or goes on reading after it. *)
RefuseContent(b) ==
  /\ AtContentOf(b) /\ Refused(file, b, KindOf(Len(tracks)))
  /\ pc' = "rejected"
  /\ UNCHANGED <<file, stack, offset, tracks, video, audio>>

ReadPast(b) ==
  /\ AtContentOf(b) /\ ReadsPast(file, b, KindOf(Len(tracks)))
  /\ pc' = "overrun"
  /\ UNCHANGED <<file, stack, offset, tracks, video, audio>>

(* The loop's own exits: nothing is wanted, or the file is over. *)
StopAtTop ==
  /\ pc = "feed" /\ Top.wants = 0
  /\ pc' = "done"
  /\ UNCHANGED <<file, stack, offset, tracks, video, audio>>

StopAtEnd ==
  /\ pc = "feed" /\ Top.wants # 0 /\ Position >= file.size
  /\ offset' = Position
  /\ stack' = [stack EXCEPT ![Len(stack)].to_skip = 0]
  /\ pc' = "done"
  /\ UNCHANGED <<file, tracks, video, audio>>

(* Only the first byte to feed is checked against the end of the file. *)
Overrun ==
  /\ pc = "feed" /\ Top.wants # 0
  /\ Position < file.size /\ Position + Top.wants > file.size
  /\ pc' = "overrun"
  /\ UNCHANGED <<file, stack, offset, tracks, video, audio>>

ParseBox(b) ==
  \/ Descend(b) \/ DescendIntoSmall(b) \/ StartLoad(b) \/ SkipBox(b) \/ RejectBox(b)
  \/ Load(b) \/ RefuseContent(b) \/ ReadPast(b)

Next == (\E b \in 1..Len(boxes) : ParseBox(b)) \/ StopAtTop \/ StopAtEnd \/ Overrun

(* make_fragments is a sequential loop of a process that runs. *)
Spec == Init /\ [][Next]_vars /\ WF_vars(Next)
-----------------------------------------------------------------------------
(* Types; the bottom of the stack stays, and wants nothing. *)
TypeOK ==
  /\ stack \in Seq([kind : Containers \cup Loaded \cup {"void"}, total : 0..(U32 - 1),
                    wants : 0..(U32 - 1), to_skip : 0..(U32 - 1)])
  /\ stack # <<>> /\ stack[1].kind = "void" /\ stack[1].wants = 0
  /\ offset \in Nat
  /\ tracks \in Seq([loaded : SUBSET (1..Len(boxes)), extradata : 0..Len(boxes)])
  /\ video \in 0..Len(tracks) /\ audio \in 0..Len(tracks)
  /\ pc \in {"feed", "done", "rejected", "aborted", "overrun"}

(* What a file of the format looks like.  A box of size 0 extends to the    *)
(* end of the file; only the last box of the file may.  (The 64-bit sizes,  *)
(* a size of 1, are not in it: the parser does not know them; nor are files *)
(* larger than what the outermost parser is given to start with.)           *)
Extent(f, b) == IF f.boxes[b].size = 0 /\ f.boxes[b].parent = 0 THEN f.full - f.boxes[b].at
                                                                ELSE f.boxes[b].size
End(f, b) == f.boxes[b].at + Extent(f, b)
KindAround(f, b) == IF f.boxes[b].parent = 0 THEN "top" ELSE f.boxes[f.boxes[b].parent].type
IsDescended(f, b) == Descends(KindAround(f, b), f.boxes[b].type)
IsLoaded(f, b) == Loads(KindAround(f, b), f.boxes[b].type)

Children(f, c) == {b \in 1..Len(f.boxes) : f.boxes[b].parent = c}

(* The children of c are one after the other from start to end. *)
Tile(f, c, start, end) ==
  /\ \A p \in {start} \cup {End(f, b) : b \in Children(f, c)} :
       p = end \/ \E b \in Children(f, c) : f.boxes[b].at = p
  /\ \A x, y \in Children(f, c) : x < y => End(f, x) <= f.boxes[y].at

WellFormed(f) ==
  /\ f.full < U32
  /\ Tile(f, 0, 0, f.full)
  /\ \A b \in 1..Len(f.boxes) :
       /\ Extent(f, b) >= HeaderSize
       /\ f.boxes[b].parent = 0 \/ IsDescended(f, f.boxes[b].parent)
       /\ IsDescended(f, b) =>
            Children(f, b) # {} /\ Tile(f, b, f.boxes[b].at + HeaderSize, End(f, b))
       /\ IsLoaded(f, b) => Extent(f, b) > HeaderSize

(* The boxes around b, from the outermost to b itself. *)
Path(f, b) ==
  LET path[c \in 0..Len(f.boxes)] ==
        IF c = 0 THEN <<>> ELSE Append(path[f.boxes[c].parent], c)
  IN  path[b]

(* Where a box ends for its own parser, which takes a size of 0 for 2^32,   *)
(* and for the parser around it, which takes it as it is.                   *)
EndInside(f, b) == f.boxes[b].at + (IF f.boxes[b].size = 0 THEN U32 ELSE f.boxes[b].size)
EndAround(f, b) == f.boxes[b].at + f.boxes[b].size

(* The stack below its two first entries is the path, and every open box    *)
(* has left what its header announced and its children did not take.        *)
StackIs(f, path, st, position) ==
  /\ Len(st) = Len(path) + 2
  /\ \A i \in 1..Len(path) : st[i + 2].kind = f.boxes[path[i]].type
  /\ \A i \in 0..Len(path) :
       LET end  == IF i = 0 THEN U32 - 1 ELSE EndInside(f, path[i])
           next == IF i = Len(path) THEN position ELSE EndAround(f, path[i + 1])
       IN  st[i + 2].total = end - next

(* The parser never loses its place: what it reads next is a header where   *)
(* there is one, or the content of the box it just opened, and the stack    *)
(* says in which boxes that is, whatever boxes were skipped or finished.    *)
KeepsPlace ==
  WellFormed(file) /\ pc = "feed" /\ Top.wants # 0 /\ Position < file.size =>
    \E b \in 1..Len(boxes) :
      IF Top.kind \in Containers
      THEN /\ boxes[b].at = Position
           /\ StackIs(file, Path(file, boxes[b].parent), stack, Position)
      ELSE /\ boxes[b].at + HeaderSize = Position
           /\ StackIs(file, Path(file, b), stack, Position)

(* The track of a box: that of the trak around it, counted in file order. *)
IsTrak(f, b) == f.boxes[b].type = "trak" /\ IsDescended(f, b)
TraksTo(f, c) == {d \in 1..c : IsTrak(f, d)}

TrackOf(f, b) ==
  LET around == {c \in 1..Len(f.boxes) : IsTrak(f, c)
                                           /\ \E i \in 1..Len(Path(f, b)) : Path(f, b)[i] = c}
  IN  IF around = {} THEN 0 ELSE Cardinality(TraksTo(f, CHOOSE c \in around : TRUE))

(* Every box to load that was passed is loaded in the track it belongs to,  *)
(* and in no other; at the end of the file, that is all of them.            *)
TablesLoaded ==
  WellFormed(file) /\ pc \in {"feed", "done"} =>
    \A b \in 1..Len(boxes) :
      LET passed == IsLoaded(file, b) /\ End(file, b) <= (IF pc = "feed" THEN Position ELSE file.size) IN
      /\ passed => TrackOf(file, b) \in 1..Len(tracks) /\ b \in tracks[TrackOf(file, b)].loaded
      /\ \A t \in 1..Len(tracks) : b \in tracks[t].loaded => passed /\ t = TrackOf(file, b)

Describes(f, s) == IsLoaded(f, s) /\ f.boxes[s].type = "stsd"
TellsKind(f, h) == IsLoaded(f, h) /\ f.boxes[h].type = "hdlr" /\ f.boxes[h].says # "other"

(* What the handlers before b say of its track, should it have several.     *)
KindsTold(f, b) ==
  {f.boxes[h].says : h \in {x \in 1..(b - 1) : TellsKind(f, x) /\ TrackOf(f, x) = TrackOf(f, b)}}

(* A sample description that configures its track, whichever of them counts *)
(* (as long as one is told), and one that may.                              *)
Configures(f, s) == Describes(f, s) /\ \A kind \in KindsTold(f, s) : Gives(f, s, kind)
MayConfigure(f, s) == Describes(f, s) /\ \E kind \in KindsTold(f, s) : Gives(f, s, kind)

(* A track whose handler comes before its sample description, as muxers     *)
(* write them, has its codec configuration at the end: that of the last     *)
(* sample description that gives one, should it have several.               *)
Configured ==
  WellFormed(file) /\ pc = "done" =>
    \A h \in 1..Len(boxes) : \A s \in (h + 1)..Len(boxes) :
      /\ TellsKind(file, h) /\ Configures(file, s) /\ TrackOf(file, h) = TrackOf(file, s)
      /\ End(file, s) <= file.size
      /\ \A x \in (s + 1)..Len(boxes) :
           MayConfigure(file, x) /\ TrackOf(file, x) = TrackOf(file, s) => End(file, x) > file.size
      => tracks[TrackOf(file, s)].extradata = s

(* Nothing in the boxes to load that their parsers refuse, or read past,    *)
(* in a track of any kind that is told before.                              *)
Supported(f) ==
  \A b \in 1..Len(f.boxes) : IsLoaded(f, b) =>
    \A kind \in KindsTold(f, b) \cup {"other"} : ~Refused(f, b, kind) /\ ~ReadsPast(f, b, kind)

(* The file ends in a header, or in the content of a box to load. *)
Cut(f) ==
  \E b \in 1..Len(f.boxes) :
    \/ f.boxes[b].at < f.size /\ f.size < f.boxes[b].at + HeaderSize
    \/ IsLoaded(f, b) /\ f.boxes[b].at + HeaderSize < f.size /\ f.size < End(f, b)

(* A well-formed file is refused for what is in its tables only, never for  *)
(* how its boxes are nested, and no assert fires on it.  The parser reads   *)
(* past the end of just those that are cut where it needs bytes, and takes  *)
(* the others for whole, however much of their boxes is missing.            *)
Accepted ==
  WellFormed(file) /\ Supported(file) =>
    /\ pc \notin {"rejected", "aborted"}
    /\ pc = "overrun" => Cut(file)
    /\ pc = "done" => ~Cut(file)

(* The parser comes to an end on every file, sizes of 0 included.           *)
Terminates == <>(pc # "feed")
=============================================================================
