-------------------------- MODULE MCFragmentServer --------------------------
(* Worlds and requests for FragmentServer.  Indexes are laid out here by    *)
(* hand, block after block, as fixtures.                                    *)
EXTENDS FragmentServer, SequencesExt

Entry(offset, size, timestamp, kind) ==
  [offset |-> offset, size |-> size, timestamp |-> timestamp,
   video |-> kind # "audio", keyframe |-> kind = "key"]

(* Samples in the order in which they are played, not stored; one beyond U32. *)
f1 == <<Entry(7, 2, 0, "key"), Entry(0, 3, 0, "audio")>>
f2 == <<Entry(9, 1, 40, "key")>>
f3 == <<Entry(9, 0, 80, "key"), Entry(1027, 4, 81, "frame"), Entry(10, 2, 82, "audio"),
        Entry(12, 1, 83, "frame"), Entry(13, 1, 84, "audio")>>

(* A sample whose end wraps to 6, then one that may be missing. *)
across == <<Entry(1020, 10, 0, "key"), Entry(9, 5, 20, "audio")>>

(* 1044 bytes with the framing: what is left of the size has room for less   *)
(* than the codec headers; and 66 + 1024 bytes, the first 66 in one sample.  *)
large == <<Entry(9, 979, 0, "key")>>
larger == <<Entry(9, 1, 0, "key")>> \o [k \in 1..4 |-> Entry(0, 236, 40 * k, "frame")]

MediaOf(id, v, a, frs) ==
  [name |-> [id |-> id, size |-> 2],
   video |-> [id |-> "avcC", size |-> v], audio |-> [id |-> "esds", size |-> a],
   fragments |-> frs]

MediaLists ==
  <<<<MediaOf("a", 3, 3, <<f1, f2>>)>>,
    <<MediaOf("a", 3, 0, <<<<>>, f1>>), MediaOf("b", 0, 3, <<f2>>)>>,
    <<MediaOf("a", 0, 3, <<f2, f3>>)>>,
    <<MediaOf("a", 0, 0, <<f2, f2, f2, f1, f2>>)>>,
    <<MediaOf("a", 0, 0, <<across, large, larger>>)>>>>

(* Positions of the blocks of a list: those of the sources, then those of  *)
(* the fragments of each.                                                  *)
HeadSize(media) == TableCell(0, media) + 2 + 4 * Len(media.fragments)
FragmentSizes(media) == [i \in 1..Len(media.fragments) |-> 6 + 16 * Len(media.fragments[i])]
SumOf(s) == FoldLeft(LAMBDA x, y : x + y, 0, s)
BlockSize(media) == HeadSize(media) + SumOf(FragmentSizes(media))
MediaAt(list, i) ==
  10 + 4 * Len(list) + SumOf([k \in 1..(i - 1) |-> BlockSize(list[k])])
FragmentAt(list, i, k) ==
  MediaAt(list, i) + HeadSize(list[i]) + SumOf(SubSeq(FragmentSizes(list[i]), 1, k - 1))

FileSize(list) == MediaAt(list, Len(list) + 1)

(* The fields of the file, as <<position, cell>>. *)
BlobFields(p, b) ==
  {<<p, Count(b.size)>>} \cup (IF b.size = 0 THEN {} ELSE {<<p + 2, Cell(b.size, b.id)>>})

FragmentFields(p, media, fragment) ==
  {<<p, Count(Len(fragment))>>, <<p + 2, Cell(4, TotalSize(media, fragment))>>}
    \cup {<<RecordCell(p, j), Cell(16, SampleRecord(fragment[j]))>> : j \in 1..Len(fragment)}

MediaFields(list, i) ==
  LET p == MediaAt(list, i) media == list[i] frs == media.fragments IN
  {<<p, Count(NameWidth(media))>>, <<p + 2, Cell(NameWidth(media), media.name.id)>>,
   <<TableCell(p, media), Count(Len(frs))>>}
    \cup BlobFields(VideoCell(p, media), media.video)
    \cup BlobFields(AudioCell(p, media), media.audio)
    \cup {<<EntryCell(p, media, k), Cell(4, FragmentAt(list, i, k))>> : k \in 1..Len(frs)}
    \cup UNION {FragmentFields(FragmentAt(list, i, k), media, frs[k]) : k \in 1..Len(frs)}

Fields(list, signature, version) ==
  {<<0, Cell(7, signature)>>, <<7, Cell(1, version)>>, <<8, Count(Len(list))>>}
    \cup {<<DirectoryCell(i), Cell(4, MediaAt(list, i))>> : i \in 1..Len(list)}
    \cup UNION {MediaFields(list, i) : i \in 1..Len(list)}

(* Adding the empty function with @@ makes TLC compute the function once. *)
FileOf(fields) ==
  [p \in {x[1] : x \in fields} |-> (CHOOSE x \in fields : x[1] = p)[2]] @@ <<>>

(* The key of an index: its list of sources, signature and version. *)
Written == (DOMAIN MediaLists) \X {"mp4frag"} \X {Version}
Foreign ==
  ((DOMAIN MediaLists) \X {"mp4frag"} \X {0, 1, 2, 4})
    \cup ((DOMAIN MediaLists) \X {"unknown"} \X {Version})

MCIndexes ==
  [key \in Written \cup Foreign |->
     LET list == MediaLists[key[1]] IN
     [medialist |-> list, full |-> FileSize(list),
      cells |-> FileOf(Fields(list, key[2], key[3]))]] @@ <<>>

WorldOf(key, state, length, file) ==
  [whole |-> MCIndexes[key], state |-> state, length |-> length,
   files |-> [id \in {"a", "b"} |-> file]]

Full(key) == MCIndexes[key].full
Intact == [state |-> "present", length |-> 14]

(* Every prefix of every index, the sources as they were. *)
CutIndexes ==
  UNION {{WorldOf(key, "present", k, Intact) : k \in 0..Full(key)} : key \in Written}

(* Whole indexes, the sources gone, unreadable, cut, or larger than U32. *)
ChangedSources ==
  {WorldOf(key, "present", Full(key), f) :
     key \in Written,
     f \in {[state |-> "missing", length |-> 0], [state |-> "denied", length |-> 0]}
             \cup {[state |-> "present", length |-> k] : k \in (0..13) \cup {1029, 1030}}}

(* Other versions, another kind of file, no file, a file one cannot open. *)
OtherIndexes ==
  {WorldOf(key, "present", Full(key), Intact) : key \in DOMAIN MCIndexes}
    \cup {WorldOf(key, state, 0, Intact) : key \in Written, state \in {"missing", "denied"}}

MCWorlds == CutIndexes \cup ChangedSources \cup OtherIndexes

Get_(medianum, fragnum) ==
  [method |-> "GET", path |-> TRUE, medianum |-> medianum, fragnum |-> fragnum]

MCRequests ==
  {Get_(i, k) : i \in 0..2, k \in 0..6}
    \cup {[Get_(0, 1) EXCEPT !.method = "HEAD"], [Get_(0, 1) EXCEPT !.method = "POST"],
          [Get_(0, 1) EXCEPT !.path = FALSE]}
=============================================================================
