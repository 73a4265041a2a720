-------------------------- MODULE StaticFragments --------------------------
(***************************************************************************)
(* The static mode of mp4frag: one file per fragment, Seg1-Frag<n>, for a  *)
(* web server that knows nothing of the format (main, mp4frag_main.cc, and *)
(* serialize_fragment, mp4frag.cc).  The size of a file is written before  *)
(* its packets, from the sum kept by generate_fragments; the reader of     *)
(* these files in the repository, dump_fragment.py, relies on it.          *)
(*                                                                         *)
(* One source is cut (Fragmenter), then its fragments are written.  A file *)
(* is a sequence of packets; codec data is its number of bytes.  Opening   *)
(* and closing a file may fail, as far as the code tests it.               *)
(***************************************************************************)
EXTENDS Fragmenter

CONSTANTS
  CodecSizes,   (* Sizes that the codec data of a track can have.          *)
  SizeWidth     (* The sizes of a fragment are uint32_t: 2^32 in the code. *)

ASSUME CodecSizesAssumption == CodecSizes \subseteq Nat \ {0}
ASSUME SizeWidthAssumption == SizeWidth \in Nat \ {0}

VARIABLES
  extra,    (* Codec data of the two tracks: an input, never assigned.       *)
  files,    (* The files opened so far: declared size, bytes and packets.    *)
  state     (* "cutting", "next" (between files), "prefix", "samples",       *)
            (* "failed", "done".                                             *)

svars == <<vars, extra, files, state>>

Framing(video) == IF video THEN 4 + 11 + 5 ELSE 4 + 11 + 2

(* A packet holds the codec data of a track, or the sample k. *)
CodecPacket(video) == [video |-> video, sample |-> 0, size |-> Framing(video) + extra[video]]
SamplePacket(k) == [video |-> Samples[k].video, sample |-> k,
                    size |-> Framing(Samples[k].video) + Samples[k].size]

Current == fragments[Len(files)]
File == files[Len(files)]

(* Bytes of the first packets of a sequence. *)
Sizes(packets) ==
  LET size[j \in 0..Len(packets)] == IF j = 0 THEN 0 ELSE size[j - 1] + packets[j].size
  IN  size

(* sputn of packets to the file that is open. *)
Put(packets) ==
  files' = [files EXCEPT ![Len(files)].length = @ + Sizes(packets)[Len(packets)],
                         ![Len(files)].packets = @ \o packets]
-----------------------------------------------------------------------------
HasTrack(video) == \E k \in 1..Len(Samples) : Samples[k].video = video

(* Codec data comes with a track: an audio file has none for video. *)
SInit ==
  /\ Init
  /\ extra \in [BOOLEAN -> CodecSizes \cup {0}]
  /\ \A video \in BOOLEAN : extra[video] > 0 <=> HasTrack(video)
  /\ files = <<>>
  /\ state = "cutting"

CutMovie == state = "cutting" /\ pc = "fill" /\ Next /\ UNCHANGED <<extra, files, state>>

StartWriting ==
  /\ state = "cutting" /\ pc = "done"
  /\ state' = "next"
  /\ UNCHANGED <<vars, extra, files>>

(* The size in the box header, whatever codec data there is.  It and the   *)
(* _totalsize it is made from wrap at 2^32 with every addition: the same    *)
(* as once at the end.                                                      *)
Declared(fr) ==
  (fr.totalsize + 8 + Framing(TRUE) + extra[TRUE] + Framing(FALSE) + extra[FALSE]) % SizeWidth

(* Open the next file and write the box header. *)
OpenFile ==
  LET fr == fragments[Len(files) + 1] IN
  /\ state = "next" /\ Len(files) < Len(fragments)
  /\ files' = Append(files, [declared |-> Declared(fr), length |-> 8, packets |-> <<>>])
  /\ state' = "prefix"
  /\ UNCHANGED <<vars, extra>>

(* mkdir or open failed. *)
FailToOpen ==
  /\ state = "next" /\ Len(files) < Len(fragments)
  /\ state' = "failed"
  /\ UNCHANGED <<vars, extra, files>>

(* Only the codec data there is. *)
CodecPackets ==
  (IF extra[TRUE] > 0 THEN <<CodecPacket(TRUE)>> ELSE <<>>)
    \o (IF extra[FALSE] > 0 THEN <<CodecPacket(FALSE)>> ELSE <<>>)

(* write_fragment_prefix.  Its timestamp is that of the first sample, so an *)
(* empty fragment ends the program here.                                    *)
WritePrefix ==
  /\ state = "prefix" /\ Current.samples # <<>>
  /\ Put(CodecPackets)
  /\ state' = "samples"
  /\ UNCHANGED <<vars, extra>>

CrashOnEmpty ==
  /\ state = "prefix" /\ Current.samples = <<>>
  /\ state' = "failed"
  /\ UNCHANGED <<vars, extra, files>>

Written == Len(File.packets) - Len(CodecPackets)

WriteSample ==
  /\ state = "samples" /\ Written < Len(Current.samples)
  /\ Put(<<SamplePacket(Current.samples[Written + 1])>>)
  /\ UNCHANGED <<vars, extra, state>>

CloseFile ==
  /\ state = "samples" /\ Written = Len(Current.samples)
  /\ state' \in {"next", "failed"}
  /\ UNCHANGED <<vars, extra, files>>

EndFiles ==
  /\ state = "next" /\ Len(files) = Len(fragments)
  /\ state' = "done"
  /\ UNCHANGED <<vars, extra, files>>

SNext ==
  \/ CutMovie \/ StartWriting \/ OpenFile \/ FailToOpen \/ WritePrefix \/ CrashOnEmpty
  \/ WriteSample \/ CloseFile \/ EndFiles

SSpec == SInit /\ [][SNext]_svars
-----------------------------------------------------------------------------
(* Files that were closed without an error. *)
Complete == 1..(IF state \in {"cutting", "next", "done"} THEN Len(files) ELSE Len(files) - 1)

(* The size a complete file declares is its length as 32 bits hold it, but  *)
(* for the framing of the codec data of a track the movie does not have:    *)
(* the sum generate_fragments keeps, the header and the packets are         *)
(* computed in three places.                                                *)
Lacking(video) == IF HasTrack(video) THEN 0 ELSE Framing(video)

SizeDeclared ==
  \A i \in Complete :
    files[i].declared = (files[i].length + Lacking(TRUE) + Lacking(FALSE)) % SizeWidth

(* Each complete file begins with the codec data of every track, to be      *)
(* played by itself.  Read one after the other, they hold the samples of    *)
(* the movie, each once and in its order; when all are written, all of them. *)
Headers == (IF HasTrack(TRUE) THEN 1 ELSE 0) + (IF HasTrack(FALSE) THEN 1 ELSE 0)
LastSample(i) == LET p == files[i].packets IN IF p = <<>> THEN 0 ELSE p[Len(p)].sample

FilesHoldMovie ==
  /\ \A i \in Complete :
       /\ \A video \in BOOLEAN : HasTrack(video) =>
            \E j \in 1..Headers :
              files[i].packets[j].sample = 0 /\ files[i].packets[j].video = video
       /\ \A j \in (Headers + 1)..Len(files[i].packets) :
            files[i].packets[j].sample = (IF i = 1 THEN 0 ELSE LastSample(i - 1)) + (j - Headers)
  /\ state = "done" /\ Samples # <<>> => LastSample(Len(files)) = Len(Samples)

(* dump_fragment.py:28 asserts that a fragment is as long as its first four *)
(* bytes say, whatever tracks the movie has.                                *)
DumpAssertion ==
  \A i \in Complete : files[i].length = files[i].declared
=============================================================================
