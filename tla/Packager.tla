------------------------------ MODULE Packager ------------------------------
(***************************************************************************)
(* What mp4frag does with its sources once they are parsed: cut each one   *)
(* into fragments (main, make_fragments), then write the manifest's        *)
(* fragment run table (get_manifest, mp4frag.cc).  The table is computed   *)
(* from the first source and players use it for all of them: the sources   *)
(* are meant to be one video at several bitrates.                          *)
(*                                                                         *)
(* The cutting of a source is Fragmenter, whose variables are those of the *)
(* source in hand.  Manifest times are whole milliseconds, truncated from  *)
(* the ticks of Fragmenter; 1.001 * 1000.0 is a little less than 1001, so  *)
(* that a whole number of them may lose one.                               *)
(***************************************************************************)
EXTENDS Fragmenter

CONSTANTS
  Sources,       (* The lists of movies that can be given with --src.          *)
  TicksPerMs,    (* The finer unit of the movies' times.                       *)
  Truncations,   (* Sets of whole milliseconds whose double falls below them.  *)
  U32            (* Width of the table's numbers: 2^32 in the code.            *)

ASSUME SourcesAssumption == Sources \subseteq Seq(Movies) /\ <<>> \notin Sources
ASSUME UnitAssumption == TicksPerMs \in Nat \ {0} /\ U32 \in Nat \ {0}
ASSUME TruncationsAssumption ==
  \A b \in Truncations : \A t \in b : t \in Nat \ {0} /\ t % TicksPerMs = 0

VARIABLES
  srcfiles,    (* The sources: an input, never assigned.                           *)
  below,       (* The instants that lose a millisecond: an input, never assigned.  *)
  medialist,   (* The media cut so far: their movies and fragments.                *)
  afrt,        (* Rows of the fragment run table.                                  *)
  stage        (* "cutting", "table", "written", "failed" (an exception left       *)
               (* get_manifest), "crashed" (null reference).                       *)

pvars == <<vars, srcfiles, below, medialist, afrt, stage>>

(* The milliseconds of an instant: its double times 1000.0, truncated.      *)
Ms(ticks) == ((ticks \div TicksPerMs) - (IF ticks \in below THEN 1 ELSE 0)) % U32

(* Those of a duration, a difference of two doubles: a whole number of them *)
(* may lose one.  As uint32_t, for the code is built on machines that wrap. *)
MsOfDuration(ticks) ==
  LET size  == IF ticks >= 0 THEN ticks ELSE -ticks
      whole == size \div TicksPerMs
      found == {whole} \cup (IF size > 0 /\ size % TicksPerMs = 0 THEN {whole - 1} ELSE {})
  IN  {(IF ticks >= 0 THEN n ELSE -n) % U32 : n \in found}
-----------------------------------------------------------------------------
PInit ==
  /\ srcfiles \in Sources /\ below \in Truncations
  /\ movie = srcfiles[1] /\ Init
  /\ medialist = <<>> /\ afrt = <<>>
  /\ stage = "cutting"

(* A step of generate_fragments on the source in hand. *)
Cut ==
  /\ stage = "cutting" /\ pc = "fill"
  /\ Next
  /\ UNCHANGED <<srcfiles, below, medialist, afrt, stage>>

Collected == Append(medialist, [movie |-> movie, fragments |-> fragments])

(* fileinfo_list.push_back, and the next source. *)
NextSource ==
  /\ stage = "cutting" /\ pc = "done"
  /\ Len(medialist) + 1 < Len(srcfiles)
  /\ medialist' = Collected
  /\ movie' = srcfiles[Len(medialist) + 2]
  /\ fragments' = <<NewFragment>>
  /\ limit_ts' = timestep /\ timebase' = 0 /\ nsample' = 0
  /\ pc' = "fill"
  /\ UNCHANGED <<timestep, late, srcfiles, below, afrt, stage>>

StartManifest ==
  /\ stage = "cutting" /\ pc = "done"
  /\ Len(medialist) + 1 = Len(srcfiles)
  /\ medialist' = Collected
  /\ stage' = "table"
  /\ UNCHANGED <<vars, srcfiles, below, afrt>>

(* The table is that of the first source. *)
FirstMedia == medialist[1]
Total == Len(FirstMedia.fragments)
ThisFragment == FirstMedia.fragments[Len(afrt) + 1]

(* timestamp_ms of a fragment that is not empty. *)
Timestamp_ms(m, fr) == Ms(m.movie.samples[fr.samples[1]].time)

Rows_FromPrevious(fr) ==
  [number : {Len(afrt) + 1},
   start : {IF afrt = <<>> THEN 0 ELSE afrt[Len(afrt)].start + afrt[Len(afrt)].duration},
   duration : MsOfDuration(fr.duration), discontinuity : {fr.duration = 0}]

Rows_NeverMarked(fr) ==
  [number : {Len(afrt) + 1}, start : {Timestamp_ms(FirstMedia, fr)},
   duration : MsOfDuration(fr.duration), discontinuity : {FALSE}]

(* One row: the byte that marks a discontinuity comes with a duration of 0. *)
Rows(fr) ==
  [number : {Len(afrt) + 1}, start : {Timestamp_ms(FirstMedia, fr)},
   duration : MsOfDuration(fr.duration), discontinuity : {fr.duration = 0}]

AddRow ==
  /\ stage = "table" /\ Len(afrt) < Total
  /\ ThisFragment.samples # <<>>
  /\ ThisFragment.duration = 0 => Len(afrt) + 1 = Total
  /\ \E row \in Rows(ThisFragment) : afrt' = Append(afrt, row)
  /\ UNCHANGED <<vars, srcfiles, below, medialist, stage>>

(* Unexpected: fragment with zero duration. *)
RejectRow ==
  /\ stage = "table" /\ Len(afrt) < Total
  /\ ThisFragment.samples # <<>>
  /\ ThisFragment.duration = 0 /\ Len(afrt) + 1 # Total
  /\ stage' = "failed"
  /\ UNCHANGED <<vars, srcfiles, below, medialist, afrt>>

(* timestamp_ms of an empty fragment: its vector has no storage. *)
ReadEmpty ==
  /\ stage = "table" /\ Len(afrt) < Total
  /\ ThisFragment.samples = <<>>
  /\ stage' = "crashed"
  /\ UNCHANGED <<vars, srcfiles, below, medialist, afrt>>

EndManifest ==
  /\ stage = "table" /\ Len(afrt) = Total
  /\ stage' = "written"
  /\ UNCHANGED <<vars, srcfiles, below, medialist, afrt>>

PNext == Cut \/ NextSource \/ StartManifest \/ AddRow \/ RejectRow \/ ReadEmpty \/ EndManifest

PSpec == PInit /\ [][PNext]_pvars
-----------------------------------------------------------------------------
LastSampleTime(m) == IF m.samples = <<>> THEN 0 ELSE m.samples[Len(m.samples)].time

(* Rows are numbered from 1, as in the URLs, and each one ends where the     *)
(* next one starts, but for what the truncation of three numbers can shift:  *)
(* a player maps the time it seeks to a fragment with them, in the table's   *)
(* U32 arithmetic.  The shifts do not add up: the table ends where the movie *)
(* does.  (The end of a movie comes from a header of its own and may be      *)
(* before its last samples.)                                                 *)
TableTiles ==
  /\ \A i \in 1..Len(afrt) : afrt[i].number = i
  /\ \A i \in 1..(Len(afrt) - 1) : \E shift \in -1..2 :
       afrt[i + 1].start = (afrt[i].start + afrt[i].duration + shift) % U32
  /\ stage = "written" /\ FirstMedia.movie.duration >= LastSampleTime(FirstMedia.movie) =>
       \E shift \in 0..2 :
         (FirstMedia.movie.duration \div TicksPerMs) % U32
           = (afrt[Total].start + afrt[Total].duration + shift) % U32

(* The milliseconds of a duration do not wrap. *)
Fits(d) == d < U32 * TicksPerMs /\ -d < U32 * TicksPerMs

(* A marked row has no duration and ends the table.  A row without duration *)
(* and mark, which the format has no room for, is at most the last one,     *)
(* when the last fragment is not longer than a millisecond.                 *)
MarksEmptyRows ==
  \A i \in 1..Len(afrt) :
    LET d == FirstMedia.fragments[i].duration IN
    /\ afrt[i].discontinuity => afrt[i].duration = 0 /\ i = Total
    /\ afrt[i].duration = 0 /\ ~afrt[i].discontinuity /\ timestep > TicksPerMs /\ Fits(d) =>
         i = Total /\ d # 0 /\ -TicksPerMs <= d /\ d <= TicksPerMs

(* A movie with samples and a fragment duration give a manifest: neither    *)
(* the exception for fragments without duration nor the read of an empty    *)
(* fragment can happen.                                                     *)
ManifestWritten ==
  timestep > 0 /\ srcfiles[1].samples # <<>> => stage \notin {"failed", "crashed"}

KeyTimes(m) == {m.samples[k].time : k \in {k \in 1..Len(m.samples) : IsKey(m.samples[k])}}

(* Sources with the same key frame times, whatever their other samples, are *)
(* cut at the same times: the first one's table is right for all of them.   *)
TableFitsAll ==
  stage = "written" /\ timestep > 0 =>
    \A j \in 1..Len(medialist) :
      LET m == medialist[j] IN
      m.movie.samples # <<>> /\ KeyTimes(m.movie) = KeyTimes(FirstMedia.movie) =>
        /\ Len(m.fragments) = Len(afrt)
        /\ \A i \in 1..Len(afrt) : afrt[i].start = Timestamp_ms(m, m.fragments[i])
=============================================================================
