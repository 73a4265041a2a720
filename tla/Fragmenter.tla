----------------------------- MODULE Fragmenter -----------------------------
(***************************************************************************)
(* generate_fragments (mp4frag.cc): one pass over the time-ordered sample  *)
(* list of a movie that cuts it into HTTP fragments.  A new fragment is    *)
(* started at a video key frame once the requested duration has elapsed    *)
(* since the previous cut.                                                 *)
(*                                                                         *)
(* Times are integers, in ticks; the code holds the same instants as       *)
(* doubles in seconds.  Equal instants are equal doubles, but the sum of   *)
(* two may be a little more than the instant it stands for: a key frame    *)
(* exactly at the limit can then miss it.  A SampleEntry is abstracted to  *)
(* the position, in the movie's sample list, of the sample it was built    *)
(* from: its other fields are functions of that sample.                    *)
(***************************************************************************)
EXTENDS Timeline

CONSTANTS
  Movies,      (* What Context::finalize can leave: a sample list and a duration. *)
  Timesteps,   (* The fragment durations that can be asked for, in ticks.         *)
  Roundings    (* Sets of instants whose double, as a sum, is above them.         *)

ASSUME MoviesAssumption ==
  \A m \in Movies : IsTimeline(m.samples) /\ m.duration \in Nat

ASSUME TimestepsAssumption == Timesteps \subseteq Nat
ASSUME RoundingsAssumption == Roundings \subseteq SUBSET Nat

VARIABLES
  movie,       (* The parsed movie: an input, never assigned.                     *)
  timestep,    (* The requested duration: an input, never assigned.               *)
  late,        (* The sums that are rounded up: an input, never assigned.         *)
  fragments,   (* The result: a sequence of fragments.                            *)
  limit_ts,    (* A key frame at or after this time starts a new fragment.        *)
  timebase,    (* Start time of the fragment being filled.                        *)
  nsample,     (* Number of samples taken from the list.                          *)
  pc           (* "fill" in the loop, "done" after it.                            *)

inputs == <<movie, timestep, late>>
vars == <<movie, timestep, late, fragments, limit_ts, timebase, nsample, pc>>

Samples == movie.samples

PacketSize_NoTrailer(si) == si.size + 11 + (IF si.video THEN 5 ELSE 2)

(* Bytes a sample takes in a fragment: FLV tag header, codec header, payload, trailer. *)
PacketSize(si) == si.size + 11 + (IF si.video THEN 5 ELSE 2) + 4

NewFragment == [duration |-> 0, totalsize |-> 0, samples |-> <<>>]

AddSample_ZeroBased(f, k) ==
  [duration  |-> f.duration + Samples[k].time,
   totalsize |-> f.totalsize + PacketSize(Samples[k]),
   samples   |-> Append(f.samples, k - 1)]

(* samplelist->push_back and the two += on fragments.back(). *)
AddSample(f, k) ==
  [duration  |-> f.duration + Samples[k].time,
   totalsize |-> f.totalsize + PacketSize(Samples[k]),
   samples   |-> Append(f.samples, k)]

SetDuration(frs, d) == [frs EXCEPT ![Len(frs)].duration = d]

IsKey(si) == si.video /\ si.keyframe

(* now >= limit_ts, where limit_ts is the double nearest to a sum. *)
Reaches(now, limit) == now > limit \/ (now = limit /\ limit \notin late)

CutsAt_AnyVideo(si) == si.video /\ Reaches(si.time, limit_ts)
CutsAt_Late(si) == IsKey(si) /\ si.time > limit_ts

(* The condition that starts a new fragment. *)
CutsAt(si) == IsKey(si) /\ Reaches(si.time, limit_ts)

Next_k == nsample + 1
-----------------------------------------------------------------------------
(* The first limit is no sum: it is the double of the duration itself. *)
Init ==
  /\ movie \in Movies
  /\ timestep \in Timesteps
  /\ late \in Roundings /\ timestep \notin late
  /\ fragments = <<NewFragment>>
  /\ limit_ts = timestep
  /\ timebase = 0
  /\ nsample = 0
  /\ pc = "fill"

StartFragment_DropsSample ==
  LET now == Samples[Next_k].time IN
  /\ pc = "fill" /\ nsample < Len(Samples)
  /\ CutsAt(Samples[Next_k])
  /\ fragments' = Append(SetDuration(fragments, now - timebase), NewFragment)
  /\ timebase' = now
  /\ limit_ts' = now + timestep
  /\ nsample' = Next_k
  /\ UNCHANGED <<inputs, pc>>

StartFragment_KeepsTimebase ==
  LET now == Samples[Next_k].time IN
  /\ pc = "fill" /\ nsample < Len(Samples)
  /\ CutsAt(Samples[Next_k])
  /\ fragments' = Append(SetDuration(fragments, now - timebase),
                         AddSample(NewFragment, Next_k))
  /\ limit_ts' = now + timestep
  /\ nsample' = Next_k
  /\ UNCHANGED <<inputs, timebase, pc>>

(* The sample opens a new fragment; the previous one gets its duration. *)
StartFragment ==
  LET now == Samples[Next_k].time IN
  /\ pc = "fill" /\ nsample < Len(Samples)
  /\ CutsAt(Samples[Next_k])
  /\ fragments' = Append(SetDuration(fragments, now - timebase),
                         AddSample(NewFragment, Next_k))
  /\ timebase' = now
  /\ limit_ts' = now + timestep
  /\ nsample' = Next_k
  /\ UNCHANGED <<inputs, pc>>

(* The sample goes to the fragment being filled. *)
ExtendFragment ==
  /\ pc = "fill" /\ nsample < Len(Samples)
  /\ ~CutsAt(Samples[Next_k])
  /\ fragments' = [fragments EXCEPT ![Len(fragments)] = AddSample(@, Next_k)]
  /\ nsample' = Next_k
  /\ UNCHANGED <<inputs, limit_ts, timebase, pc>>

(* After the loop: the last fragment lasts until the end of the movie. *)
Finish ==
  /\ pc = "fill" /\ nsample = Len(Samples)
  /\ fragments' = SetDuration(fragments, movie.duration - timebase)
  /\ pc' = "done"
  /\ UNCHANGED <<inputs, limit_ts, timebase, nsample>>

Next == StartFragment \/ ExtendFragment \/ Finish

Spec == Init /\ [][Next]_vars
-----------------------------------------------------------------------------
(* Types: samples in fragments are positions of the movie's list. *)
Fragment == [duration : Int, totalsize : Nat, samples : Seq(1..Len(Samples))]

TypeOK ==
  /\ movie \in Movies
  /\ timestep \in Timesteps
  /\ late \in Roundings
  /\ fragments \in Seq(Fragment) /\ fragments # <<>>
  /\ limit_ts \in Nat
  /\ timebase \in Nat
  /\ nsample \in 0..Len(Samples)
  /\ pc \in {"fill", "done"}

(* Position of the last sample of fragment i (0 when it holds none). *)
End(i) ==
  LET s == fragments[i].samples IN IF s = <<>> THEN 0 ELSE s[Len(s)]

EndBefore(i) == IF i = 1 THEN 0 ELSE End(i - 1)

(* Time at which fragment i starts playing. *)
StartTime(i) ==
  IF i = 1 THEN 0 ELSE Samples[fragments[i].samples[1]].time

(* No sample is lost, repeated or moved: read one after the other, the     *)
(* fragments are the first nsample samples of the movie in their order.    *)
(* (A sample dropped or doubled at a cut is a glitch in every player.)     *)
Lossless ==
  /\ End(Len(fragments)) = nsample
  /\ \A i \in 1..Len(fragments) : \A j \in 1..Len(fragments[i].samples) :
       fragments[i].samples[j] = EndBefore(i) + j

(* Every fragment but the first starts with a video key frame, so that a   *)
(* player that seeks or switches bitrate can decode from its first byte.   *)
StartsWithKey ==
  \A i \in 2..Len(fragments) :
    /\ fragments[i].samples # <<>>
    /\ IsKey(Samples[fragments[i].samples[1]])

(* Durations tile the movie: a closed fragment lasts until the next one    *)
(* starts, and at the end the last one lasts until the end of the movie.   *)
(* (The code keeps adding times to the duration of the open fragment; this *)
(* says that the accumulated value never survives.)                        *)
DurationsTile ==
  /\ \A i \in 1..(Len(fragments) - 1) :
       fragments[i].duration = StartTime(i + 1) - StartTime(i)
  /\ pc = "done" =>
       fragments[Len(fragments)].duration = movie.duration - StartTime(Len(fragments))

(* A fragment followed by another lasts at least what was asked for, and   *)
(* it ends at the first key frame that allows it: no later key frame of it *)
(* was a legal cut, but one exactly at a limit that is rounded up.         *)
CutAtFirstChance ==
  /\ \A i \in 1..(Len(fragments) - 1) : fragments[i].duration >= timestep
  /\ \A i \in 1..Len(fragments) : \A j \in 1..Len(fragments[i].samples) :
       LET si == Samples[fragments[i].samples[j]] IN
         i = 1 \/ j > 1 => ~(IsKey(si) /\ Reaches(si.time, StartTime(i) + timestep))

(* When a duration was asked for and the movie has samples, no fragment is *)
(* left empty: Fragment::timestamp_ms reads the first sample unchecked.    *)
NoEmptyFragment ==
  pc = "done" /\ timestep > 0 /\ Samples # <<>> =>
    \A i \in 1..Len(fragments) : fragments[i].samples # <<>>
=============================================================================
