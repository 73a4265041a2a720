------------------------------ MODULE Timeline ------------------------------
(* What Context::finalize (mp4.cc) hands to generate_fragments (mp4frag.cc): *)
(* the samples of all tracks in one list, in the order of their times.       *)
EXTENDS Integers, Sequences

Sample == [time : Nat, size : Nat, video : BOOLEAN, keyframe : BOOLEAN]

(* Samples come sorted by time, and every track starts at time 0. *)
IsTimeline(s) ==
  /\ s \in Seq(Sample)
  /\ \A j \in 1..Len(s) : \A k \in 1..Len(s) : j <= k => s[j].time <= s[k].time
  /\ Len(s) > 0 => s[1].time = 0
=============================================================================
