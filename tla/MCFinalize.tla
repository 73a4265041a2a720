----------------------------- MODULE MCFinalize -----------------------------
(* Tracks of up to MaxSamples samples in up to MaxChunks chunks.  Sizes are *)
(* powers of two, so that no two sets of samples have the same total, and   *)
(* chunks are not in the order of their offsets.  Movies of one track go    *)
(* through every table, also through tables that do not agree or are not    *)
(* legal; movies of two tracks are small ones whose timescales differ or    *)
(* agree, with equal and with repeated times.                               *)
EXTENDS Finalize, SequencesExt

CONSTANTS MaxSamples, MaxTimedSamples, MaxChunks, MaxPaired

Sizes(n) == [k \in 1..n |-> 2^k]
Offsets(m) == [c \in 1..m |-> 100 * ((c * 2) % 5)]
Anchor == [first |-> 100, per |-> 0, desc |-> 1]

(* start, start + add[1], start + add[1] + add[2], ... *)
Sums(start, add) ==
  FoldLeft(LAMBDA sums, a : Append(sums, Last(sums) + a), <<start>>, add)

Counts(n, entries) == UNION {[1..e -> 0..n] : e \in 0..entries}
Total(s) == Last(Sums(0, s))
Table(counts, deltas) == [e \in 1..Len(counts) |-> [count |-> counts[e], delta |-> deltas[e]]]

SttsTables(n) == {Table(s, <<3, 1, 2>>) : s \in {s \in Counts(n, 3) : Total(s) = n}}
CttsTables(n) ==
  {Table(s, <<5, 6>>) : s \in {s \in Counts(n, 2) : Total(s) <= n + 1 /\ \A i \in 1..Len(s) : s[i] > 0}}
StssTables(n) == {SetToSortSeq(k, <) : k \in SUBSET (1..n)}

(* Runs of m chunks: where each begins, its samples per chunk and its       *)
(* sample description.                                                      *)
RunStarts(m) == {SetToSortSeq(s \cup {1}, <) : s \in SUBSET (2..m)}
StscTables(n, m, descs) ==
  UNION {{Append([r \in 1..Len(starts) |->
                   [first |-> starts[r], per |-> per[r], desc |-> desc[r]]], Anchor) :
            per \in [1..Len(starts) -> 1..n], desc \in [1..Len(starts) -> descs]} :
         starts \in RunStarts(m)}

PerChunk(stsc, m) ==
  [c \in 1..m |-> LET r == CHOOSE r \in 1..(Len(stsc) - 1) :
                             stsc[r].first <= c /\ c < stsc[r + 1].first
                  IN  stsc[r].per]

CountsOf(table) == [e \in 1..Len(table) |-> table[e].count]

Track(video, n, m, stts, ctts, stss, stsc) ==
  [video |-> video, timescale |-> 1, duration |-> 7, sample_size |-> Sizes(n), chunk_offsets |-> Offsets(m),
   stts |-> stts, ctts |-> ctts, stss |-> stss, stsc |-> stsc,
   before |-> Sums(0, Sizes(n)),
   first |-> IF LegalStsc([stsc |-> stsc]) THEN Sums(1, PerChunk(stsc, m)) ELSE <<>>,
   sttsAt |-> Sums(1, CountsOf(stts)), cttsAt |-> Sums(1, CountsOf(ctts))]

(* Every way to group the samples in chunks, with some times: the chunks    *)
(* may hold fewer samples.                                                  *)
Grouped(n, m) ==
  {Track(TRUE, n, m, stts, Table(<<n>>, <<5>>), <<1>>, stsc) :
     stts \in {Table(<<n>>, <<3>>), Table(<<1, n - 1>>, <<3, 1>>)},
     stsc \in StscTables(n, m, {1, 2})}

(* Every time, composition and key frame table, in one layout.               *)
Timed(n) ==
  {Track(video, n, 2, stts, ctts, stss, stsc) :
     video \in BOOLEAN, stts \in SttsTables(n), ctts \in CttsTables(n),
     stss \in StssTables(n),
     stsc \in {s \in StscTables(n, 2, {1}) : Len(s) = 3 /\ s[1].per = 1 /\ s[2].per = n}}

(* Times for fewer or for more samples than there are sizes, runs that are  *)
(* missing or not legal, entries that count 0, key frames out of order.     *)
Disagreeing(n) ==
  {Track(TRUE, n, 2, stts, ctts, stss, stsc) :
     stts \in {Table(<<k>>, <<3>>) : k \in (n - 1)..(n + 1)},
     ctts \in {<<>>, Table(<<0, 1>>, <<5, 6>>), Table(<<1, 0>>, <<5, 6>>)},
     stss \in {<<>>, <<2, 1>>, <<0, 1>>},
     stsc \in {<<>>, <<Anchor>>}
       \cup {<<[first |-> f, per |-> per, desc |-> 1], Anchor>> : f \in 0..2, per \in 0..n}
       \cup {<<[first |-> 1, per |-> 1, desc |-> 1], [first |-> f, per |-> n, desc |-> 1], Anchor>> :
               f \in 0..3}}

SingleTracks ==
  UNION {Grouped(n, m) : n \in 1..MaxSamples, m \in 1..MaxChunks}
    \cup UNION {Disagreeing(n) : n \in 1..MaxTimedSamples}
    \cup UNION {Timed(n) : n \in 0..MaxTimedSamples}

(* Small tracks of n samples, one in each chunk, the second one first in the *)
(* file; base tells the positions of the two tracks apart.                   *)
Paired(video, n, base, timescales) ==
  {[Track(video, n, n, stts, <<>>, IF video THEN <<1>> ELSE <<>>,
          <<[first |-> 1, per |-> 1, desc |-> 1], Anchor>>)
      EXCEPT !.timescale = ts, !.duration = d, !.chunk_offsets = [c \in 1..n |-> @[c] + base]] :
     stts \in {Table(<<n>>, <<delta>>) : delta \in {0, 1, 2}} \cup {Table(<<1, n - 1>>, <<3, 1>>)},
     ts \in timescales, d \in {1, 3}}

Videos == UNION {Paired(TRUE, n, 0, {1, 2, 3}) : n \in 1..MaxPaired}
Audios == UNION {Paired(FALSE, n, 50, {2, 3}) : n \in 1..MaxPaired}

MCTracks == SingleTracks \cup Videos \cup Audios

MCParsed == {<<t>> : t \in SingleTracks} \cup (Videos \X Audios)
=============================================================================
