---------------------------- MODULE PacketBytes ----------------------------
(***************************************************************************)
(* One fragment, byte by byte, on its two ways to a player: the file that  *)
(* the tool writes in the static mode (serialize_fragment, mp4frag.cc),    *)
(* and the response that the nginx module builds from the index and the    *)
(* source.  On the way a sample is packed into a SampleEntry, an index     *)
(* record of 16 bytes and an FLV packet, twice, in two programs.           *)
(*                                                                         *)
(* Bytes that are only copied are named after where they come from.        *)
(***************************************************************************)
EXTENDS BigEndian, SequencesExt

CONSTANTS
  Fragments,     (* Sequences of samples as finalize leaves them: see IsSample.  *)
  CodecSizes     (* Sizes of the codec data of a track, 0 without it.            *)

IsSample(si) ==
  /\ si.offset \in Nat /\ si.sample_size \in Nat /\ si.timestamp \in Nat
  /\ si.timescale \in Nat \ {0} /\ si.composition_offset \in 0..(WORD - 1)
  /\ si.video \in BOOLEAN /\ si.keyframe \in BOOLEAN

ASSUME FragmentsAssumption ==
  \A f \in Fragments : Len(f) \in Nat \ {0} /\ \A k \in 1..Len(f) : IsSample(f[k])
ASSUME CodecSizesAssumption == CodecSizes \subseteq Nat

VARIABLES
  fragment, extra,       (* Inputs, never assigned: samples, sizes of codec data. *)
  entries, totalsize,    (* What generate_fragments makes of the samples.         *)
  index,                 (* The fragment's size and records in the index.         *)
  file, response,        (* The bytes of the two ways.                            *)
  pc                     (* "entries", "index", "file", "response", "done".       *)

vars == <<fragment, extra, entries, totalsize, index, file, response, pc>>

SourceBytes(offset, size) == [k \in 1..size |-> 1000 + offset + k]
CodecBytes(video) == [k \in 1..extra[video] |-> (IF video THEN 300 ELSE 400) + k]
mdat == 1

(* now * 1000.0: a whole number of milliseconds may be truncated to one less. *)
Milliseconds(si) ==
  LET exact == si.timestamp * 1000
      whole == exact \div si.timescale
  IN  {whole} \cup (IF whole > 0 /\ exact % si.timescale = 0 THEN {whole - 1} ELSE {})

(* SampleEntry: the flags share a word with the composition offset. *)
SampleEntry(o, s, ts, comp, isvideo, iskey) ==
  [offset |-> o, size |-> s, timestamp |-> ts % WORD,
   composition |-> (comp % U24) + (IF isvideo THEN WORD \div 2 ELSE 0)
                     + (IF isvideo /\ iskey THEN WORD \div 4 ELSE 0)]

composition_offset(se) == se.composition % U24
video(se) == se.composition >= WORD \div 2
keyframe(se) == (se.composition \div (WORD \div 4)) % 2 = 1

write_video_packet_Short(key, header, comp, ts, data) ==
  <<9>> \o Write(Len(data) + 5, 3) \o Write(ts % U24, 3) \o <<0>> \o Write(0, 3)
    \o <<IF key \/ header THEN 23 ELSE 39, IF header THEN 0 ELSE 1>>
    \o Write(comp, 3) \o data \o Write(Len(data) + 5 + 11, 4)

(* The packets of the tool. *)
write_video_packet(key, header, comp, ts, data) ==
  <<9>> \o Write(Len(data) + 5, 3) \o Write(ts % U24, 3) \o <<(ts \div U24) % BYTE>>
    \o Write(0, 3) \o <<IF key \/ header THEN 23 ELSE 39, IF header THEN 0 ELSE 1>>
    \o Write(comp, 3) \o data \o Write(Len(data) + 5 + 11, 4)

write_audio_packet(header, ts, data) ==
  <<8>> \o Write(Len(data) + 2, 3) \o Write(ts % U24, 3) \o <<(ts \div U24) % BYTE>>
    \o Write(0, 3) \o <<175, IF header THEN 0 ELSE 1>> \o data \o Write(Len(data) + 2 + 11, 4)

write_fragment_prefix(ts) ==
  (IF extra[TRUE] > 0 THEN write_video_packet(TRUE, TRUE, 0, ts, CodecBytes(TRUE)) ELSE <<>>)
    \o (IF extra[FALSE] > 0 THEN write_audio_packet(TRUE, ts, CodecBytes(FALSE)) ELSE <<>>)

SamplePacket(se) ==
  LET data == SourceBytes(se.offset, se.size) IN
  IF video(se)
  THEN write_video_packet(keyframe(se), FALSE, composition_offset(se), se.timestamp, data)
  ELSE write_audio_packet(FALSE, se.timestamp, data)

(* A record of the index. *)
Record(se) ==
  Write(se.offset, 4) \o Write(se.size, 4) \o Write(se.timestamp, 4)
    \o Write(composition_offset(se), 3)
    \o <<IF video(se) THEN IF keyframe(se) THEN 3 ELSE 1 ELSE 0>>

(* The packets of the nginx module: its codec data is sent when empty, too. *)
Packet(type, frame, header, ts, middle, data) ==
  LET size == Len(middle) + 2 + Len(data) IN
  <<type>> \o Write(size, 3) \o Write(ts % U24, 3) \o <<(ts \div U24) % BYTE>>
    \o Write(0, 3) \o <<frame, IF header THEN 0 ELSE 1>> \o middle \o data
    \o Write(size + 11, 4)

SentVideo(key, header, comp, ts, data) ==
  Packet(9, IF key \/ header THEN 23 ELSE 39, header, ts, Write(comp, 3), data)
SentAudio(header, ts, data) == Packet(8, 175, header, ts, <<>>, data)

SentPrefix(ts) ==
  SentVideo(TRUE, TRUE, 0, ts, CodecBytes(TRUE)) \o SentAudio(TRUE, ts, CodecBytes(FALSE))

SentSample_NoFlags(p) ==
  LET data == SourceBytes(Read(index, p, 4), Read(index, p + 4, 4))
      ts   == Read(index, p + 8, 4)
  IN  IF index[p + 15] > 1
      THEN SentVideo((index[p + 15] \div 2) % 2 = 1, FALSE, Read(index, p + 12, 3), ts, data)
      ELSE SentAudio(FALSE, ts, data)

(* The sample whose record is at position p of the index. *)
SentSample(p) ==
  LET data == SourceBytes(Read(index, p, 4), Read(index, p + 4, 4))
      ts   == Read(index, p + 8, 4)
  IN  IF index[p + 15] > 0
      THEN SentVideo((index[p + 15] \div 2) % 2 = 1, FALSE, Read(index, p + 12, 3), ts, data)
      ELSE SentAudio(FALSE, ts, data)
-----------------------------------------------------------------------------
Init ==
  /\ fragment \in Fragments /\ extra \in [BOOLEAN -> CodecSizes]
  /\ entries = <<>> /\ totalsize = 0
  /\ index = <<>> /\ file = <<>> /\ response = <<>>
  /\ pc = "entries"

(* generate_fragments takes the next sample. *)
MakeEntry ==
  LET si == fragment[Len(entries) + 1] IN
  /\ pc = "entries" /\ Len(entries) < Len(fragment)
  /\ \E ms \in Milliseconds(si) :
       entries' = Append(entries, SampleEntry(si.offset, si.sample_size, ms,
                                              (si.composition_offset * 1000) \div si.timescale,
                                              si.video, si.keyframe))
  /\ totalsize' = totalsize + si.sample_size + 11 + (IF si.video THEN 5 ELSE 2) + 4
  /\ pc' = IF Len(entries') = Len(fragment) THEN "index" ELSE pc
  /\ UNCHANGED <<fragment, extra, index, file, response>>

(* Bytes that the first packets take in the response. *)
SizeSent ==
  LET size(se) == 11 + (IF video(se) THEN 5 ELSE 2) + se.size + 4
      upto[k \in 0..Len(entries)] == IF k = 0 THEN 0 ELSE upto[k - 1] + size(entries[k])
  IN  upto

(* The size of the fragment as it is sent, then its records. *)
IndexBytes ==
  Write(8 + 20 + extra[TRUE] + 17 + extra[FALSE] + SizeSent[Len(entries)], 4)
    \o FlattenSeq([k \in 1..Len(entries) |-> Record(entries[k])])

(* serialize *)
WriteIndex ==
  /\ pc = "index"
  /\ index' = IndexBytes
  /\ pc' = "file"
  /\ UNCHANGED <<fragment, extra, entries, totalsize, file, response>>

FileBytes ==
  Write(totalsize + 8 + 20 + extra[TRUE] + 17 + extra[FALSE], 4) \o Letters(mdat)
    \o write_fragment_prefix(entries[1].timestamp)
    \o FlattenSeq([k \in 1..Len(entries) |-> SamplePacket(entries[k])])

(* serialize_fragment *)
WriteFile ==
  /\ pc = "file"
  /\ file' = FileBytes
  /\ pc' = "response"
  /\ UNCHANGED <<fragment, extra, entries, totalsize, index, response>>

(* The records begin at position 5 of the index. *)
ResponseBytes ==
  Write(Read(index, 1, 4), 4) \o Letters(mdat) \o SentPrefix(Read(index, 5 + 8, 4))
    \o FlattenSeq([k \in 1..Len(entries) |-> SentSample(5 + 16 * (k - 1))])

(* The nginx handler. *)
Respond ==
  /\ pc = "response"
  /\ response' = ResponseBytes
  /\ pc' = "done"
  /\ UNCHANGED <<fragment, extra, entries, totalsize, index, file>>

Next == MakeEntry \/ WriteIndex \/ WriteFile \/ Respond

Spec == Init /\ [][Next]_vars
-----------------------------------------------------------------------------
Placed(si) == si.offset + si.sample_size < WORD

(* A site that moves from the static mode to the index sends the same bytes *)
(* for a movie with both tracks, up to 4 GiB.  (A record of the index has   *)
(* 32 bits for a place, the SampleEntry 64.)                                *)
SameBytes ==
  pc = "done" /\ extra[TRUE] > 0 /\ extra[FALSE] > 0
    /\ (\A k \in 1..Len(fragment) : Placed(fragment[k])) => response = file

(* An FLV tag as a player reads it at position p, and the tags in a box.    *)
TagAt(bytes, p) ==
  LET size == Read(bytes, p + 1, 3)
      skip == IF bytes[p] = 9 THEN 16 ELSE 13
      comp == IF bytes[p] = 9 THEN Read(bytes, p + 13, 3) ELSE 0
  IN  [type |-> bytes[p], frame |-> bytes[p + 11], header |-> bytes[p + 12] = 0,
       time |-> Read(bytes, p + 4, 3) + U24 * bytes[p + 7],
       composition |-> IF comp < U24 \div 2 THEN comp ELSE comp - U24,
       data |-> SubSeq(bytes, p + skip, p + 10 + size),
       trailer |-> Read(bytes, p + 11 + size, 4) = 11 + size]

TagsOf(bytes, n) ==
  LET begin[k \in 1..(n + 1)] ==
        IF k = 1 THEN 9 ELSE begin[k - 1] + 15 + Read(bytes, begin[k - 1] + 1, 3)
  IN  [tags |-> [k \in 1..n |-> TagAt(bytes, begin[k])], end |-> begin[n + 1] - 1]

(* What can be told of a sample in an FLV tag. *)
Fits(si) ==
  /\ si.sample_size + 5 < U24
  /\ si.timestamp * 1000 < WORD * si.timescale
  /\ 2 * si.composition_offset * 1000 < U24 * si.timescale

Shows(tag, si) ==
  /\ tag.type = (IF si.video THEN 9 ELSE 8) /\ ~tag.header /\ tag.trailer
  /\ tag.frame = (IF ~si.video THEN 175 ELSE IF si.keyframe THEN 23 ELSE 39)
  /\ (si.timestamp * 1000) \div si.timescale - tag.time \in 0..1
  /\ si.video => tag.composition = (si.composition_offset * 1000) \div si.timescale
  /\ tag.data = SourceBytes(si.offset, si.sample_size)

(* On both ways a player that reads the FLV tags of the fragment finds each *)
(* sample with its data, key frame flag, composition offset and time, to a  *)
(* millisecond, and nothing after the last one.  The box of a response says *)
(* how long it is.  (The 24 bits of a tag's size, and the 32 of the box's,  *)
(* are enough: nothing in the code checks it.)                              *)
Found(bytes, headers) ==
  LET read == TagsOf(bytes, headers + Len(fragment)) IN
  /\ read.end = Len(bytes)
  /\ \A k \in 1..headers : read.tags[k].header /\ read.tags[k].trailer
                             /\ read.tags[k].time = read.tags[headers + 1].time
  /\ \A k \in 1..Len(fragment) : Shows(read.tags[headers + k], fragment[k])

PlayerReads ==
  pc = "done" /\ (\A k \in 1..Len(fragment) : Fits(fragment[k]))
      /\ (\A v \in BOOLEAN : extra[v] + 5 < U24) =>
    /\ Found(file, (IF extra[TRUE] > 0 THEN 1 ELSE 0) + (IF extra[FALSE] > 0 THEN 1 ELSE 0))
    /\ (\A k \in 1..Len(fragment) : Placed(fragment[k])) =>
         Found(response, 2) /\ (Len(response) < WORD => Read(response, 1, 4) = Len(response))
=============================================================================
