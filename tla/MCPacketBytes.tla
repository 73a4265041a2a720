--------------------------- MODULE MCPacketBytes ---------------------------
(* Fragments of one sample with every field at the limits of its width, and *)
(* some of two samples.                                                     *)
EXTENDS PacketBytes

SamplesWith(offsets, sizes, times, timescales, compositions) ==
  [offset : offsets, sample_size : sizes, timestamp : times, timescale : timescales,
   composition_offset : compositions, video : BOOLEAN, keyframe : BOOLEAN]

Possible(si) == si.keyframe => si.video

Singles ==
  SamplesWith({0, 253, 300}, {0, 2}, {0, 63, 64, 130, 255}, {500, 1000, 3000}, {0, 31, 32, 64, 255})
Seconds == SamplesWith({5}, {0, 1}, {64, 65}, {1000}, {3})

MCFragments ==
  {<<si>> : si \in {si \in Singles : Possible(si)}}
    \cup {<<a, b>> : a \in {si \in Seconds : Possible(si)}, b \in {si \in Seconds : Possible(si)}}
=============================================================================
