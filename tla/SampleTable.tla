---------------------------- MODULE SampleTable ----------------------------
(***************************************************************************)
(* Context::_unfold (mp4.cc): one pass over the run-length tables of a     *)
(* track that gives every sample its time, composition offset, position in *)
(* the file and key frame flag.  Five cursors advance together, one per    *)
(* table, with the carries of nested counters.                             *)
(*                                                                         *)
(* Each table comes from a box of its own, and nothing compares them before *)
(* the vectors are indexed.  A track here has any tables; _unfold reads one *)
(* past its end in the end state "outside", where its behaviour is not      *)
(* defined any more.                                                        *)
(*                                                                         *)
(* The properties compare the samples with what the tables mean.  A track  *)
(* therefore comes with the sums the tables imply (first, before, sttsAt,  *)
(* cttsAt), which only the properties read.                                *)
(***************************************************************************)
EXTENDS Integers, Sequences

CONSTANT Tracks     (* The tracks that can be parsed: see IsTrack. *)

Increasing(s) == \A i \in 1..(Len(s) - 1) : s[i] < s[i + 1]

(* Sums along a table: f[i + 1] - f[i] is what its entry i adds. *)
SumsFrom(f, start, n, add(_)) ==
  /\ DOMAIN f = 1..(n + 1) /\ f[1] = start
  /\ \A i \in 1..n : f[i] \in Nat /\ f[i + 1] = f[i] + add(i)

InRun(f, i, k) == f[i] <= k /\ k < f[i + 1]

Runs(t) == 1..(Len(t.stsc) - 1)
NChunks(t) == Len(t.chunk_offsets)
NSamples(t) == Len(t.sample_size)

(* What the format asks of a table by itself.  A movie in fragments may     *)
(* leave out the runs of stsc; here they are asked for.                     *)
LegalStsc(t) ==
  /\ Len(t.stsc) >= 2 /\ t.stsc[1].first = 1
  /\ \A r \in Runs(t) : t.stsc[r].per > 0 /\ t.stsc[r].first < t.stsc[r + 1].first
LegalCtts(t) == \A e \in 1..Len(t.ctts) : t.ctts[e].count > 0
LegalStss(t) == Increasing(t.stss) /\ \A i \in 1..Len(t.stss) : t.stss[i] > 0

(* The tables of a parsed track.  The parser of stsc appends the anchor, a  *)
(* last entry that no chunk reaches; without this box there is not even     *)
(* that.                                                                    *)
IsTrack(t) ==
  /\ t.video \in BOOLEAN
  /\ t.sample_size \in Seq(Nat) /\ t.chunk_offsets \in Seq(Nat) /\ t.stss \in Seq(Nat)
  /\ t.stts \in Seq([count : Nat, delta : Nat]) /\ t.ctts \in Seq([count : Nat, delta : Nat])
  /\ t.stsc \in Seq([first : Nat, per : Nat, desc : Nat])
  /\ t.stsc # <<>> =>
       t.stsc[Len(t.stsc)].first > NChunks(t) + 1 /\ t.stsc[Len(t.stsc)].desc = 1
  /\ SumsFrom(t.before, 0, NSamples(t), LAMBDA k : t.sample_size[k])
  /\ SumsFrom(t.sttsAt, 1, Len(t.stts), LAMBDA e : t.stts[e].count)
  /\ SumsFrom(t.cttsAt, 1, Len(t.ctts), LAMBDA e : t.ctts[e].count)
  /\ LegalStsc(t) =>
       /\ DOMAIN t.first = 1..(NChunks(t) + 1) /\ t.first[1] = 1
       /\ \A c \in 1..NChunks(t) : \A r \in Runs(t) :
            t.stsc[r].first <= c /\ c < t.stsc[r + 1].first =>
              t.first[c] \in Nat /\ t.first[c + 1] = t.first[c] + t.stsc[r].per

(* The tables agree: there are a size, and a place in a chunk, for every    *)
(* sample that stts gives a time.                                           *)
Given(t) == t.sttsAt[Len(t.stts) + 1] - 1
Agree(t) == Given(t) <= NSamples(t) /\ Given(t) < t.first[NChunks(t) + 1]

ASSUME TracksAssumption == \A t \in Tracks : IsTrack(t)

VARIABLES
  track,                     (* The parsed track: an input, never assigned.           *)
  number,                    (* Samples produced; index in the size table.            *)
  current_time,
  keyframe_index,            (* Position in stss.                                     *)
  chunk_run,                 (* Position, in stsc, of the next run of chunks.         *)
  samples_per_chunk,         (* Of the current run.                                   *)
  current_chunk,             (* From 0, as in the code.                               *)
  offset_in_current_chunk,
  sample_number_in_chunk,
  cur_ctts_entry,            (* Position in ctts, and samples taken from the entry.   *)
  order_n,
  entry, iii,                (* Position in stts, and samples taken from the entry.   *)
  samples,                   (* The result.                                           *)
  pc                         (* "loop", "done", "aborted" by an assert, or "outside". *)

chunks == <<chunk_run, samples_per_chunk, current_chunk,
            offset_in_current_chunk, sample_number_in_chunk>>
composition == <<cur_ctts_entry, order_n>>
vars == <<track, number, current_time, keyframe_index, chunks, composition, entry, iii,
          samples, pc>>
-----------------------------------------------------------------------------
(* The asserts on the description index look at a run before it is used: of *)
(* a table without runs, past its end.                                      *)
NoRuns == Len(track.stsc) < 2

Begin ==
  IF NoRuns THEN "outside" ELSE IF track.stsc[2].desc = 1 THEN "loop" ELSE "aborted"

Start ==
  /\ number = 0 /\ current_time = 0
  /\ keyframe_index = 0
  /\ chunk_run = 2
  /\ samples_per_chunk = IF NoRuns THEN 0 ELSE track.stsc[1].per
  /\ current_chunk = 0
  /\ offset_in_current_chunk = 0 /\ sample_number_in_chunk = 0
  /\ cur_ctts_entry = 1 /\ order_n = 0
  /\ entry = 1 /\ iii = 0
  /\ samples = <<>>
  /\ pc = Begin

Init == track \in Tracks /\ Start

HasComposition == cur_ctts_entry <= Len(track.ctts)
CompositionOffset == IF HasComposition THEN track.ctts[cur_ctts_entry].delta ELSE 0

NextComposition_Late ==
  \/ /\ HasComposition /\ order_n + 1 > track.ctts[cur_ctts_entry].count
     /\ cur_ctts_entry' = cur_ctts_entry + 1 /\ order_n' = 0
  \/ /\ HasComposition /\ order_n + 1 <= track.ctts[cur_ctts_entry].count
     /\ order_n' = order_n + 1 /\ UNCHANGED cur_ctts_entry
  \/ ~HasComposition /\ UNCHANGED composition

(* One more sample of the ctts entry; the last one moves to the next entry. *)
NextComposition ==
  \/ /\ HasComposition /\ order_n + 1 >= track.ctts[cur_ctts_entry].count
     /\ cur_ctts_entry' = cur_ctts_entry + 1 /\ order_n' = 0
  \/ /\ HasComposition /\ order_n + 1 < track.ctts[cur_ctts_entry].count
     /\ order_n' = order_n + 1 /\ UNCHANGED cur_ctts_entry
  \/ ~HasComposition /\ UNCHANGED composition

(* Position of the sample, and whether it is a key frame. *)
Offset == track.chunk_offsets[current_chunk + 1] + offset_in_current_chunk

IsKeyframe_ZeroBased ==
  /\ track.video /\ keyframe_index < Len(track.stss)
  /\ track.stss[keyframe_index + 1] = number

IsKeyframe ==
  /\ track.video /\ keyframe_index < Len(track.stss)
  /\ track.stss[keyframe_index + 1] = number + 1

(* The sample after this one is in the same chunk. *)
StayInChunk ==
  /\ sample_number_in_chunk + 1 < samples_per_chunk
  /\ sample_number_in_chunk' = sample_number_in_chunk + 1
  /\ offset_in_current_chunk' = offset_in_current_chunk + track.sample_size[number + 1]
  /\ UNCHANGED <<chunk_run, samples_per_chunk, current_chunk, pc>>

LeavesChunk ==
  /\ sample_number_in_chunk + 1 >= samples_per_chunk
  /\ sample_number_in_chunk' = 0
  /\ current_chunk' = current_chunk + 1

(* It is in the next chunk of the same run. *)
NextChunk_KeepsOffset ==
  /\ LeavesChunk
  /\ current_chunk + 2 < track.stsc[chunk_run].first
  /\ UNCHANGED <<chunk_run, samples_per_chunk, offset_in_current_chunk, pc>>

NextChunk ==
  /\ LeavesChunk
  /\ offset_in_current_chunk' = 0
  /\ current_chunk + 2 < track.stsc[chunk_run].first
  /\ UNCHANGED <<chunk_run, samples_per_chunk, pc>>

NextRun_Early ==
  /\ LeavesChunk
  /\ offset_in_current_chunk' = 0
  /\ current_chunk + 2 >= track.stsc[chunk_run].first
  /\ samples_per_chunk' = track.stsc[chunk_run - 1].per
  /\ chunk_run' = chunk_run + 1
  /\ pc' = IF current_chunk + 2 = track.stsc[chunk_run].first
              /\ track.stsc[chunk_run + 1].desc = 1 THEN "loop" ELSE "aborted"

(* It is in the first chunk of the next run; two asserts. *)
NextRun ==
  /\ LeavesChunk
  /\ offset_in_current_chunk' = 0
  /\ current_chunk + 2 >= track.stsc[chunk_run].first
  /\ samples_per_chunk' = track.stsc[chunk_run].per
  /\ chunk_run' = chunk_run + 1
  /\ pc' = IF current_chunk + 2 = track.stsc[chunk_run].first
              /\ track.stsc[chunk_run + 1].desc = 1 THEN "loop" ELSE "aborted"

NextTime_Constant == (number + 1) * track.stts[entry].delta

NextTime == current_time + track.stts[entry].delta

MoreToUnfold == pc = "loop" /\ entry <= Len(track.stts) /\ iii < track.stts[entry].count

(* The two tables indexed without a check hold the next sample. *)
Inside == number < NSamples(track) /\ current_chunk < NChunks(track)

(* The body of the inner loop: one sample. *)
UnfoldSample ==
  /\ MoreToUnfold /\ Inside
  /\ samples' = Append(samples, [timestamp          |-> current_time,
                                 composition_offset |-> CompositionOffset,
                                 sample_size        |-> track.sample_size[number + 1],
                                 offset             |-> Offset,
                                 keyframe           |-> IsKeyframe])
  /\ NextComposition
  /\ StayInChunk \/ NextChunk \/ NextRun
  /\ keyframe_index' = IF IsKeyframe THEN keyframe_index + 1 ELSE keyframe_index
  /\ number' = number + 1
  /\ current_time' = NextTime
  /\ iii' = iii + 1
  /\ UNCHANGED <<track, entry>>

(* The same with an index past the end of its table. *)
ReadOutside ==
  /\ MoreToUnfold /\ ~Inside
  /\ pc' = "outside"
  /\ UNCHANGED <<track, number, current_time, keyframe_index, chunks, composition,
                 entry, iii, samples>>

(* The outer loop: the next entry of stts, or its end. *)
NextEntry ==
  /\ pc = "loop" /\ entry <= Len(track.stts) /\ iii = track.stts[entry].count
  /\ entry' = entry + 1 /\ iii' = 0
  /\ UNCHANGED <<track, number, current_time, keyframe_index, chunks, composition, samples, pc>>

Finish_BeforeLast ==
  /\ pc = "loop" /\ entry >= Len(track.stts)
  /\ pc' = "done"
  /\ UNCHANGED <<track, number, current_time, keyframe_index, chunks, composition,
                 entry, iii, samples>>

Finish ==
  /\ pc = "loop" /\ entry > Len(track.stts)
  /\ pc' = "done"
  /\ UNCHANGED <<track, number, current_time, keyframe_index, chunks, composition,
                 entry, iii, samples>>

Next == UnfoldSample \/ ReadOutside \/ NextEntry \/ Finish

Spec == Init /\ [][Next]_vars
-----------------------------------------------------------------------------
(* Types; every cursor stays within its table, or one past its end. *)
TypeOK ==
  /\ number \in 0..NSamples(track) /\ current_time \in Nat
  /\ keyframe_index \in 0..Len(track.stss)
  /\ samples_per_chunk \in Nat /\ (pc # "outside" => chunk_run \in 2..Len(track.stsc))
  /\ current_chunk \in 0..NChunks(track)
  /\ offset_in_current_chunk \in Nat /\ sample_number_in_chunk \in Nat
  /\ cur_ctts_entry \in 1..(Len(track.ctts) + 1) /\ entry \in 1..(Len(track.stts) + 1)
  /\ order_n \in Nat
  /\ order_n > 0 => HasComposition /\ order_n < track.ctts[cur_ctts_entry].count
  /\ IF entry <= Len(track.stts) THEN iii \in 0..track.stts[entry].count ELSE iii = 0
  /\ samples \in Seq([timestamp : Nat, composition_offset : Nat, sample_size : Nat,
                      offset : Nat, keyframe : BOOLEAN])
  /\ pc \in {"loop", "done", "aborted", "outside"}

(* No table is read past its end when they agree, whatever they hold, and   *)
(* the pass comes to its end only when they do: there was a size and a      *)
(* place in a chunk for every sample.  Nothing else keeps the indexes in    *)
(* the vectors.                                                             *)
InTables ==
  /\ LegalStsc(track) /\ Agree(track) => pc # "outside"
  /\ pc = "done" /\ LegalStsc(track) => Agree(track)

(* A sample is where its chunk starts plus the sizes of the samples before  *)
(* it in that chunk, whatever the runs of a legal stsc are.                 *)
OffsetsRight ==
  LegalStsc(track) =>
    \A k \in 1..Len(samples) : \A c \in 1..NChunks(track) :
      InRun(track.first, c, k) =>
        /\ samples[k].offset =
             track.chunk_offsets[c] + track.before[k] - track.before[track.first[c]]
        /\ samples[k].sample_size = track.sample_size[k]

(* The first sample is at time 0, and the next one later by the duration    *)
(* stts gives the sample before it.                                         *)
TimesRight ==
  /\ Len(samples) > 0 => samples[1].timestamp = 0
  /\ \A k \in 1..(Len(samples) - 1) : \A e \in 1..Len(track.stts) :
       InRun(track.sttsAt, e, k) =>
         samples[k + 1].timestamp = samples[k].timestamp + track.stts[e].delta

(* A sample has the composition offset of its ctts entry, 0 beyond them, and *)
(* the key frames are the samples stss lists, on a video track: the two      *)
(* cursors go on at their own pace.  Each half asks its own table to be     *)
(* legal: an entry of ctts that counts 0 would have a sample all the same.   *)
FieldsRight ==
  \A k \in 1..Len(samples) :
    /\ LegalCtts(track) =>
         /\ \A e \in 1..Len(track.ctts) :
              InRun(track.cttsAt, e, k) => samples[k].composition_offset = track.ctts[e].delta
         /\ k >= track.cttsAt[Len(track.ctts) + 1] => samples[k].composition_offset = 0
    /\ LegalStss(track) =>
         (samples[k].keyframe <=> track.video /\ \E i \in 1..Len(track.stss) : track.stss[i] = k)

(* With one sample description and legal runs the asserts hold, and at the  *)
(* end every sample that stts gives is out.                                 *)
Complete ==
  /\ LegalStsc(track) /\ (\A r \in 1..Len(track.stsc) : track.stsc[r].desc = 1) =>
       pc # "aborted"
  /\ pc = "done" => Len(samples) = Given(track)
=============================================================================
