---------------------------- MODULE IndexFormat ----------------------------
(***************************************************************************)
(* The index file: what serialize (mp4frag.cc) writes and what the nginx   *)
(* module reads.  A file is a function from byte positions to the cells    *)
(* (fields) that start there; a cell has a width in bytes and a value.     *)
(* Names and codec data are opaque blobs with a size; a 16-byte sample     *)
(* record is one cell (its composition offset, copied beside the           *)
(* timestamp, is left out).                                                *)
(***************************************************************************)
EXTENDS Integers, Sequences

CONSTANTS
  U16,     (* 2^16: the counts of the file are 16 bits wide.  TLC scales it.      *)
  U32      (* 2^32: so are, in 32 bits, the places of samples in their source and *)
           (* the sizes of fragments.                                             *)

ASSUME U16Assumption == U16 \in Nat \ {0}
ASSUME U32Assumption == U32 \in Nat \ {0}

Blob == [id : STRING, size : Nat]

SampleEntry ==
  [offset : Nat, size : Nat, timestamp : Nat, video : BOOLEAN, keyframe : BOOLEAN]

(* One source file, as make_fragments leaves it. *)
Media == [name : Blob, video : Blob, audio : Blob, fragments : Seq(Seq(SampleEntry))]

Cell(w, v) == [width |-> w, value |-> v]

(* write16 keeps the low 16 bits of a count. *)
Count(n) == Cell(2, n % U16)

Version == 3
NameWidth(media) == media.name.size + 1

(* What the tool writes an index of: generate_fragments leaves at least one *)
(* fragment, and names and codec data fit their 16-bit length fields.       *)
Writable(media) ==
  /\ media.fragments # <<>>
  /\ NameWidth(media) < U16
  /\ media.video.size < U16 /\ media.audio.size < U16

(* The flag byte of a record: bit 0 for video, bit 1 for a key frame. *)
Flags(se) == IF se.video THEN IF se.keyframe THEN 3 ELSE 1 ELSE 0

(* write32 keeps the low 32 bits of a place. *)
Place(offset) == offset % U32

SampleRecord(se) ==
  [offset |-> Place(se.offset), size |-> se.size, timestamp |-> se.timestamp, flags |-> Flags(se)]

(* Bytes of an FLV packet around a payload: tag header, codec header, trailer. *)
PacketSize(video, size) == 11 + (IF video THEN 5 ELSE 2) + size + 4

(* Bytes of the fragment as it is sent: box header, two codec headers, samples. *)
TotalBytes(media, fragment) ==
  LET upto[j \in 0..Len(fragment)] ==
        IF j = 0 THEN 8 + PacketSize(TRUE, media.video.size)
                        + PacketSize(FALSE, media.audio.size)
        ELSE upto[j - 1] + PacketSize(fragment[j].video, fragment[j].size)
  IN upto[Len(fragment)]

TotalSize_NoFraming(media, fragment) == (TotalBytes(media, fragment) - 37) % U32

(* fragmentsize_total: the sum is kept in a uint32_t. *)
TotalSize(media, fragment) == TotalBytes(media, fragment) % U32
-----------------------------------------------------------------------------
(* The cells of each block of the file; p is the position of the block. *)
DirectoryCell(n) == 10 + 4 * (n - 1)
VideoCell(p, media) == p + 2 + NameWidth(media)
AudioCell(p, media) == VideoCell(p, media) + 2 + media.video.size
TableCell(p, media) == AudioCell(p, media) + 2 + media.audio.size
EntryCell(p, media, m) == TableCell(p, media) + 2 + 4 * (m - 1)
RecordCell(p, j) == p + 6 + 16 * (j - 1)

(* The file (cells, up to byte length) describes medialist: following its  *)
(* offsets from the header one finds the name and codec data of every      *)
(* source, and the size and the sample records of all its fragments.       *)
(* Blocks come after the table that gives their positions.                 *)
HasCell(cells, length, p, c) ==
  /\ p \in DOMAIN cells /\ p + c.width <= length
  /\ cells[p].width = c.width /\ cells[p].value = c.value

HasBlob(cells, length, p, b) ==
  /\ HasCell(cells, length, p, Count(b.size))
  /\ b.size > 0 => HasCell(cells, length, p + 2, Cell(b.size, b.id))

DescribesFragment(cells, length, p, media, fragment) ==
  /\ HasCell(cells, length, p, Count(Len(fragment)))
  /\ HasCell(cells, length, p + 2, Cell(4, TotalSize(media, fragment)))
  /\ \A j \in 1..Len(fragment) :
       HasCell(cells, length, RecordCell(p, j), Cell(16, SampleRecord(fragment[j])))

DescribesMedia(cells, length, p, media) ==
  /\ HasCell(cells, length, p, Count(NameWidth(media)))
  /\ HasCell(cells, length, p + 2, Cell(NameWidth(media), media.name.id))
  /\ HasBlob(cells, length, VideoCell(p, media), media.video)
  /\ HasBlob(cells, length, AudioCell(p, media), media.audio)
  /\ HasCell(cells, length, TableCell(p, media), Count(Len(media.fragments)))
  /\ \A m \in 1..Len(media.fragments) :
       \E q \in DOMAIN cells :
         /\ EntryCell(p, media, Len(media.fragments) + 1) <= q
         /\ HasCell(cells, length, EntryCell(p, media, m), Cell(4, q))
         /\ DescribesFragment(cells, length, q, media, media.fragments[m])

DescribesSources(cells, length, medialist) ==
  /\ HasCell(cells, length, 8, Count(Len(medialist)))
  /\ \A n \in 1..Len(medialist) :
       \E p \in DOMAIN cells :
         /\ DirectoryCell(Len(medialist) + 1) <= p
         /\ HasCell(cells, length, DirectoryCell(n), Cell(4, p))
         /\ DescribesMedia(cells, length, p, medialist[n])

Describes(cells, length, medialist) ==
  /\ HasCell(cells, length, 0, Cell(7, "mp4frag"))
  /\ HasCell(cells, length, 7, Cell(1, Version))
  /\ DescribesSources(cells, length, medialist)
=============================================================================
