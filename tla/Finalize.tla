------------------------------ MODULE Finalize ------------------------------
(***************************************************************************)
(* Context::finalize (mp4.cc): unfolds the video track, then the audio     *)
(* track, into one list of samples, and sorts that list by time.  What it  *)
(* leaves is what Fragmenter starts from.                                  *)
(*                                                                         *)
(* The code compares times as quotients of doubles; here they are exact,   *)
(* in ticks of a clock that every timescale of the movie divides.          *)
(***************************************************************************)
EXTENDS SampleTable, Timeline

CONSTANTS
  Parsed,      (* The tracks that a parse can leave: see IsParsed. *)
  Clock        (* Ticks in a second.                               *)

IsTimescale(n) == n \in Nat \ {0} /\ Clock % n = 0

(* One video track, one audio track, or both in this order. *)
IsParsed(p) ==
  /\ Len(p) \in 1..2 /\ \A i \in 1..Len(p) : IsTrack(p[i])
  /\ Len(p) = 2 => p[1].video /\ ~p[2].video
  /\ \A i \in 1..Len(p) : p[i].duration \in Nat /\ IsTimescale(p[i].timescale)

ASSUME ClockAssumption == Clock \in Nat \ {0}
ASSUME ParsedAssumption == \A p \in Parsed : IsParsed(p)

VARIABLES
  parsed,      (* The tracks: an input, never assigned.               *)
  unfolded,    (* How many of them are in gathered.                   *)
  gathered,    (* _samples before the sort.                           *)
  movie,       (* _samples and _duration when finalize returns.       *)
  phase        (* "unfold", "sort", "close", "ready".                 *)

fvars == <<vars, parsed, unfolded, gathered, movie, phase>>

Ticks(t, timescale) == t * (Clock \div timescale)
Time(si) == Ticks(si.timestamp, si.timescale)

(* SampleInfo: what _unfold found, with the track's timescale and kind. *)
SampleInfo(si) ==
  [timestamp |-> si.timestamp, timescale |-> track.timescale, offset |-> si.offset,
   sample_size |-> si.sample_size, composition_offset |-> si.composition_offset,
   video |-> track.video, keyframe |-> si.keyframe]

Precedes_RawTimes(a, b) ==
  a.timestamp < b.timestamp \/ (a.timestamp = b.timestamp /\ a.offset < b.offset)
Precedes_ByOffset(a, b) == a.offset < b.offset

(* SampleSorter: by time, and by position in the file at equal times. *)
Precedes(a, b) == Time(a) < Time(b) \/ (Time(a) = Time(b) /\ a.offset < b.offset)
-----------------------------------------------------------------------------
FInit ==
  /\ parsed \in Parsed
  /\ track = parsed[1] /\ Start
  /\ unfolded = 0 /\ gathered = <<>>
  /\ movie = [samples |-> <<>>, duration |-> 0]
  /\ phase = "unfold"

(* A step of _unfold on the track in hand. *)
Unfold == phase = "unfold" /\ Next /\ UNCHANGED <<parsed, unfolded, gathered, movie, phase>>

Gather ==
  /\ phase = "unfold" /\ pc = "done"
  /\ gathered' = gathered \o [k \in 1..Len(samples) |-> SampleInfo(samples[k])]
  /\ unfolded' = unfolded + 1
  /\ UNCHANGED <<parsed, movie>>

(* The audio track is unfolded after the video track, from the start. *)
NextTrack ==
  /\ Gather /\ unfolded + 1 < Len(parsed)
  /\ track' = parsed[unfolded + 2]
  /\ number' = 0 /\ current_time' = 0 /\ keyframe_index' = 0
  /\ chunk_run' = 2 /\ samples_per_chunk' = (IF NoRuns THEN 0 ELSE track.stsc[1].per)'
  /\ current_chunk' = 0 /\ offset_in_current_chunk' = 0 /\ sample_number_in_chunk' = 0
  /\ cur_ctts_entry' = 1 /\ order_n' = 0
  /\ entry' = 1 /\ iii' = 0
  /\ samples' = <<>>
  /\ pc' = Begin'
  /\ UNCHANGED phase

LastTrack == Gather /\ unfolded + 1 = Len(parsed) /\ phase' = "sort" /\ UNCHANGED vars

(* The orders a list can be put in: which element comes first, second, ... *)
Orders(s) ==
  {p \in [DOMAIN s -> DOMAIN s] : \A i, j \in DOMAIN s : i < j => p[i] # p[j]}

(* std::sort: any order without inversions; it is not a stable sort. *)
Sort ==
  /\ phase = "sort"
  /\ \E p \in Orders(gathered) :
       /\ \A i, j \in DOMAIN gathered : i < j => ~Precedes(gathered[p[j]], gathered[p[i]])
       /\ movie' = [movie EXCEPT !.samples = [k \in DOMAIN gathered |-> gathered[p[k]]]]
  /\ phase' = "close"
  /\ UNCHANGED <<vars, parsed, unfolded, gathered>>

(* The movie lasts as long as its longest track. *)
Close ==
  /\ phase = "close"
  /\ LET d(i) == Ticks(parsed[i].duration, parsed[i].timescale)
         n    == Len(parsed)
     IN  movie' = [movie EXCEPT !.duration = IF n = 2 /\ d(1) < d(n) THEN d(n) ELSE d(1)]
  /\ phase' = "ready"
  /\ UNCHANGED <<vars, parsed, unfolded, gathered>>

FNext == Unfold \/ NextTrack \/ LastTrack \/ Sort \/ Close

FSpec == FInit /\ [][FNext]_fvars
-----------------------------------------------------------------------------
(* The sample list as Fragmenter reads it. *)
AsTimeline(s) ==
  [k \in 1..Len(s) |-> [time |-> Time(s[k]), size |-> s[k].sample_size,
                        video |-> s[k].video, keyframe |-> s[k].keyframe]]

(* The movie that finalize leaves is one that generate_fragments may be      *)
(* given: whatever the timescales of its tracks, samples are in the order of *)
(* their times, from 0, and the duration covers the time of each track.      *)
GivesTimeline ==
  phase = "ready" =>
    /\ IsTimeline(AsTimeline(movie.samples))
    /\ movie.duration \in Nat
    /\ \A i \in 1..Len(parsed) :
         parsed[i].duration * Clock <= movie.duration * parsed[i].timescale

(* Two samples of the track may have the same time. *)
Repeats(t) == \E e \in 1..Len(t.stts) : t.stts[e].delta = 0

(* s has what is in g, and the samples of each track in the order of g,      *)
(* unless some of the track have the same time.                              *)
Merges(s, g, tracks) ==
  \E p \in Orders(g) :
    /\ s = [k \in DOMAIN g |-> g[p[k]]]
    /\ \A i \in 1..Len(tracks) : ~Repeats(tracks[i]) =>
         \A j, k \in DOMAIN g :
           j < k /\ s[j].video = tracks[i].video /\ s[k].video = tracks[i].video => p[j] < p[k]

(* Sorting loses and doubles no sample, and keeps each track in its decoding *)
(* order, for tables without a zero duration: the order of equal times is    *)
(* that of the file.  (A decoder given two samples of one track in the wrong *)
(* order shows garbage until the next key frame.)                            *)
KeepsOrder == phase = "ready" => Merges(movie.samples, gathered, parsed)
=============================================================================
