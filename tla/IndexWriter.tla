---------------------------- MODULE IndexWriter ----------------------------
(***************************************************************************)
(* serialize (mp4frag.cc): writing the index in two passes over the same   *)
(* media list.  The first pass computes where every block will be, adding  *)
(* sizes up; the second one writes the blocks one after the other and,     *)
(* before them, the positions computed.  Nothing but the agreement of the  *)
(* two passes makes the positions right.                                   *)
(***************************************************************************)
EXTENDS IndexFormat, FiniteSetsExt

CONSTANT MediaLists     (* The lists of sources the tool can be run on. *)

(* Main refuses to run without a source. *)
ASSUME MediaListsAssumption ==
  \A list \in MediaLists :
    /\ list \in Seq(Media) /\ list # <<>>
    /\ \A n \in 1..Len(list) : Writable(list[n])

VARIABLES
  medialist,            (* The parsed sources: an input, never assigned.            *)
  header_size,          (* First pass: bytes accounted for so far.                  *)
  fragmentdir_map,      (* First pass: position of the block of each source.        *)
  fragments_by_media,   (* First pass: positions of the fragments of each source.   *)
  cells,                (* What has been written.                                   *)
  size,                 (* Bytes written.                                           *)
  n, m,                 (* Second pass: the source, and the fragment, being written.*)
  pc                    (* "measure", "header", "media", "fragments", "done".       *)

pass1 == <<header_size, fragmentdir_map, fragments_by_media>>
pass2 == <<cells, size, n, m>>
vars == <<medialist, pass1, pass2, pc>>

(* Positions, in the order of the second pass, of what is being measured. *)
Measured == Len(fragmentdir_map)
Last == fragments_by_media[Measured]
LastIsMeasured == Measured > 0 => Len(Last) = Len(medialist[Measured].fragments)

MeasuredHead_NoTerminator(media) ==
  2 + media.name.size + 2 + media.video.size + 2 + media.audio.size
    + 2 + Len(media.fragments) * 4

(* What the first pass counts for the head of a source. *)
MeasuredHead(media) ==
  2 + media.name.size + 1 + 2 + media.video.size + 2 + media.audio.size
    + 2 + Len(media.fragments) * 4

(* What the first pass counts for a fragment. *)
MeasuredFragment(fragment) == 2 + 4 + Len(fragment) * (4 + 4 + 4 + 3 + 1)
-----------------------------------------------------------------------------
Init ==
  /\ medialist \in MediaLists
  /\ header_size = 7 + 1 + 2 + Len(medialist) * 4
  /\ fragmentdir_map = <<>>
  /\ fragments_by_media = <<>>
  /\ cells = <<>>
  /\ size = 0
  /\ n = 1 /\ m = 1
  /\ pc = "measure"

MeasureMedia_NoResize ==
  /\ pc = "measure" /\ LastIsMeasured /\ Measured < Len(medialist)
  /\ fragmentdir_map' = Append(fragmentdir_map, header_size)
  /\ header_size' = header_size + MeasuredHead(medialist[Measured + 1])
  /\ UNCHANGED <<medialist, fragments_by_media, pass2, pc>>

(* First pass, outer loop: the head of the next source. *)
MeasureMedia ==
  /\ pc = "measure" /\ LastIsMeasured /\ Measured < Len(medialist)
  /\ fragmentdir_map' = Append(fragmentdir_map, header_size)
  /\ header_size' = header_size + MeasuredHead(medialist[Measured + 1])
  /\ fragments_by_media' = Append(fragments_by_media, <<>>)
  /\ UNCHANGED <<medialist, pass2, pc>>

(* First pass, inner loop: the next fragment of the source. *)
MeasureFragment ==
  /\ pc = "measure" /\ ~LastIsMeasured
  /\ fragments_by_media' = [fragments_by_media EXCEPT ![Measured] = Append(@, header_size)]
  /\ header_size' =
       header_size + MeasuredFragment(medialist[Measured].fragments[Len(Last) + 1])
  /\ UNCHANGED <<medialist, fragmentdir_map, pass2, pc>>

StartWriting ==
  /\ pc = "measure" /\ LastIsMeasured /\ Measured = Len(medialist)
  /\ pc' = "header"
  /\ UNCHANGED <<medialist, pass1, pass2>>

(* The cells of two blocks; one cell. *)
f ++ g == [p \in DOMAIN f \cup DOMAIN g |-> IF p \in DOMAIN f THEN f[p] ELSE g[p]]
OneCell(p, c) == [q \in {p} |-> c]

(* Second pass: append a block of cells to the file. *)
Write(block) ==
  /\ cells' = cells ++ block
  /\ size' = Max({p + block[p].width : p \in DOMAIN block})

(* Magic, version, number of sources, and the position of each. *)
HeaderBlock ==
  OneCell(0, Cell(7, "mp4frag")) ++ OneCell(7, Cell(1, Version))
    ++ OneCell(8, Count(Len(medialist)))
    ++ [q \in {DirectoryCell(i) : i \in 1..Len(medialist)} |->
          Cell(4, fragmentdir_map[((q - DirectoryCell(1)) \div 4) + 1])]

WriteHeader ==
  /\ pc = "header"
  /\ Write(HeaderBlock)
  /\ n' = 1
  /\ pc' = "media"
  /\ UNCHANGED <<medialist, pass1, m>>

(* writestring: a 16-bit length, then the bytes. *)
BlobBlock(p, b) ==
  IF b.size = 0 THEN OneCell(p, Count(b.size))
  ELSE OneCell(p, Count(b.size)) ++ OneCell(p + 2, Cell(b.size, b.id))

TableBlock(p, media, positions) ==
  OneCell(TableCell(p, media), Count(Len(media.fragments)))
    ++ [q \in {EntryCell(p, media, i) : i \in 1..Len(media.fragments)} |->
          Cell(4, positions[((q - EntryCell(p, media, 1)) \div 4) + 1])]

(* The head of a source: name, codec data, positions of its fragments. *)
MediaBlock(p, media, positions) ==
  OneCell(p, Count(NameWidth(media))) ++ OneCell(p + 2, Cell(NameWidth(media), media.name.id))
    ++ BlobBlock(VideoCell(p, media), media.video)
    ++ BlobBlock(AudioCell(p, media), media.audio)
    ++ TableBlock(p, media, positions)

WriteMedia ==
  /\ pc = "media" /\ n <= Len(medialist)
  /\ Write(MediaBlock(size, medialist[n], fragments_by_media[n]))
  /\ m' = 1
  /\ pc' = "fragments"
  /\ UNCHANGED <<medialist, pass1, n>>

(* One record per sample. *)
Records(p, fragment) ==
  [r \in {RecordCell(p, j) : j \in 1..Len(fragment)} |->
     Cell(16, SampleRecord(fragment[((r - RecordCell(p, 1)) \div 16) + 1]))]

FragmentBlock_NoPrefix(p, media, fragment) ==
  OneCell(p, Count(Len(fragment)))
    ++ OneCell(p + 2, Cell(4, TotalSize(media, fragment) - PacketSize(FALSE, media.audio.size)))
    ++ Records(p, fragment)

(* A fragment: number of samples, bytes to send, its records. *)
FragmentBlock(p, media, fragment) ==
  OneCell(p, Count(Len(fragment))) ++ OneCell(p + 2, Cell(4, TotalSize(media, fragment)))
    ++ Records(p, fragment)

WriteFragment ==
  LET media == medialist[n] IN
  /\ pc = "fragments" /\ m <= Len(media.fragments)
  /\ Write(FragmentBlock(size, media, media.fragments[m]))
  /\ m' = m + 1
  /\ UNCHANGED <<medialist, pass1, n, pc>>

NextMedia ==
  /\ pc = "fragments" /\ m > Len(medialist[n].fragments)
  /\ n' = n + 1
  /\ pc' = "media"
  /\ UNCHANGED <<medialist, pass1, cells, size, m>>

Finish ==
  /\ pc = "media" /\ n > Len(medialist)
  /\ pc' = "done"
  /\ UNCHANGED <<medialist, pass1, pass2>>

Next ==
  \/ MeasureMedia \/ MeasureFragment \/ StartWriting
  \/ WriteHeader \/ WriteMedia \/ WriteFragment \/ NextMedia \/ Finish

Spec == Init /\ [][Next]_vars
-----------------------------------------------------------------------------
(* Types; a position is a number of bytes. *)
TypeOK ==
  /\ medialist \in MediaLists
  /\ header_size \in Nat
  /\ fragmentdir_map \in Seq(Nat) /\ Len(fragmentdir_map) <= Len(medialist)
  /\ fragments_by_media \in Seq(Seq(Nat)) /\ Len(fragments_by_media) = Measured
  /\ DOMAIN cells \subseteq Nat
  /\ size \in Nat
  /\ n \in Nat \ {0} /\ m \in Nat \ {0}
  /\ pc \in {"measure", "header", "media", "fragments", "done"}

(* The second pass writes each block exactly where the first one said it   *)
(* would be: at the moment a block is written, the file is as long as the  *)
(* position the header or the fragment table gives for that block.  And no *)
(* two cells overlap, none is beyond the end, no byte is left out.         *)
PassesAgree ==
  /\ pc = "media" /\ n <= Len(medialist) => size = fragmentdir_map[n]
  /\ pc = "fragments" /\ m <= Len(medialist[n].fragments) => size = fragments_by_media[n][m]
  /\ pc = "done" => size = header_size
  /\ \A p \in DOMAIN cells :
       /\ p + cells[p].width <= size
       /\ p + cells[p].width < size => p + cells[p].width \in DOMAIN cells
       /\ \A q \in DOMAIN cells : q < p => q + cells[q].width <= p

(* The finished index describes the media list it was made from, whatever  *)
(* the counts are: the counts are written modulo 2^16, the tables whole.   *)
IndexDescribes == pc = "done" => Describes(cells, size, medialist)

=============================================================================
