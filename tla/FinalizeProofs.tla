--------------------------- MODULE FinalizeProofs ---------------------------
(***************************************************************************)
(* Proofs about SampleTable and about Finalize, which runs it, for tracks   *)
(* of any size.  The sums a track comes with grow along its tables, so a    *)
(* sample is in one run of each table; the invariant of SampleTable says    *)
(* which run each cursor of _unfold is in, as long as that table is legal.  *)
(* That of Finalize follows the samples from there through the sort.        *)
(***************************************************************************)
EXTENDS Finalize, NumberFacts, FiniteSetTheorems

(* What grows from one entry to the next grows along the table. *)
LEMMA Grows ==
  ASSUME NEW f, NEW n \in Nat, \A i \in 1..(n + 1) : f[i] \in Nat,
         \A i \in 1..n : f[i] <= f[i + 1]
  PROVE  \A i, j \in 1..(n + 1) : i <= j => f[i] <= f[j]
<1> DEFINE P == {d \in Nat : \A i \in 1..(n + 1) : i + d <= n + 1 => f[i] <= f[i + d]}
<1>1. 0 \in P
  OBVIOUS
<1>2. ASSUME NEW d \in Nat, d \in P PROVE d + 1 \in P
  <2>1. ASSUME NEW i \in 1..(n + 1), i + (d + 1) <= n + 1 PROVE f[i] <= f[i + (d + 1)]
    <3>1. i + d \in 1..n /\ i + d \in 1..(n + 1) /\ i + d + 1 \in 1..(n + 1)
          /\ i + (d + 1) = i + d + 1
      BY <2>1
    <3>2. f[i] <= f[i + d]
      BY <1>2, <3>1
    <3>3. f[i + d] <= f[i + d + 1]
      BY <3>1
    <3> QED BY <3>1, <3>2, <3>3
  <2> QED BY <2>1
<1> HIDE DEF P
<1>3. \A d \in Nat : d \in P
  BY <1>1, <1>2, Induction
<1>4. ASSUME NEW i \in 1..(n + 1), NEW j \in 1..(n + 1), i <= j PROVE f[i] <= f[j]
  <2>1. j - i \in Nat /\ i + (j - i) = j
    BY <1>4
  <2>2. j - i \in P
    BY <1>3, <2>1
  <2> QED BY <2>1, <2>2 DEF P
<1> QED
  BY <1>4

(* A number is in one run. *)
LEMMA OneRun ==
  ASSUME NEW f, NEW n \in Nat, \A i \in 1..(n + 1) : f[i] \in Nat,
         \A i \in 1..n : f[i] <= f[i + 1],
         NEW k \in Nat, NEW d \in 1..n, NEW e \in 1..n, InRun(f, d, k), InRun(f, e, k)
  PROVE  d = e
<1>1. \A i, j \in 1..(n + 1) : i <= j => f[i] <= f[j]
  BY Grows
<1>2. f[d] <= k /\ k < f[d + 1] /\ f[e] <= k /\ k < f[e + 1]
  BY DEF InRun
<1>3. /\ d \in 1..(n + 1) /\ d + 1 \in 1..(n + 1) /\ e \in 1..(n + 1) /\ e + 1 \in 1..(n + 1)
  OBVIOUS
<1>4. ~(d + 1 <= e)
  <2>1. d + 1 <= e => f[d + 1] <= f[e]
    BY <1>1, <1>3
  <2> QED BY <1>2, <1>3, <2>1
<1>5. ~(e + 1 <= d)
  <2>1. e + 1 <= d => f[e + 1] <= f[d]
    BY <1>1, <1>3
  <2> QED BY <1>2, <1>3, <2>1
<1> QED
  BY <1>4, <1>5

(* What the proofs use of the sums. *)
LEMMA SumsOf ==
  ASSUME NEW t, IsTrack(t)
  PROVE  /\ NSamples(t) \in Nat
         /\ t.before[1] = 0
         /\ \A i \in 1..(NSamples(t) + 1) : t.before[i] \in Nat
         /\ \A i \in 1..NSamples(t) :
              t.sample_size[i] \in Nat /\ t.before[i + 1] = t.before[i] + t.sample_size[i]
<1>1. /\ t.sample_size \in Seq(Nat) /\ NSamples(t) = Len(t.sample_size)
      /\ t.before[1] = 0
      /\ \A i \in 1..NSamples(t) : t.before[i] \in Nat
      /\ \A i \in 1..NSamples(t) : t.before[i + 1] = t.before[i] + t.sample_size[i]
  BY DEF IsTrack, SumsFrom, NSamples
<1>2. NSamples(t) \in Nat
  BY <1>1
<1>3. ASSUME NEW i \in 1..NSamples(t) PROVE t.sample_size[i] \in Nat
  BY <1>1, ElementOf, Zenon
<1>4. ASSUME NEW i \in 1..(NSamples(t) + 1) PROVE t.before[i] \in Nat
  <2>1. CASE i \in 1..NSamples(t)
    BY <1>1, <2>1
  <2>2. CASE i = NSamples(t) + 1 /\ NSamples(t) = 0
    BY <1>1, <2>2
  <2>3. CASE i = NSamples(t) + 1 /\ NSamples(t) # 0
    <3>1. NSamples(t) \in 1..NSamples(t)
      BY <1>2, <2>3
    <3>2. t.before[i] = t.before[NSamples(t)] + t.sample_size[NSamples(t)]
      BY <1>1, <2>3, <3>1
    <3> QED BY <1>1, <1>3, <3>1, <3>2
  <2> QED BY <1>2, <2>1, <2>2, <2>3
<1> QED
  BY <1>1, <1>2, <1>3, <1>4

LEMMA TimesOf ==
  ASSUME NEW t, IsTrack(t)
  PROVE  /\ Len(t.stts) \in Nat
         /\ t.sttsAt[1] = 1
         /\ \A e \in 1..(Len(t.stts) + 1) : t.sttsAt[e] \in Nat
         /\ \A e \in 1..Len(t.stts) :
              /\ t.stts[e].count \in Nat /\ t.stts[e].delta \in Nat
              /\ t.sttsAt[e + 1] = t.sttsAt[e] + t.stts[e].count
         /\ t.sttsAt[Len(t.stts) + 1] = Given(t) + 1
<1>0. t.stts \in Seq([count : Nat, delta : Nat])
  BY DEF IsTrack
<1>1. /\ t.sttsAt[1] = 1
      /\ \A e \in 1..Len(t.stts) : t.sttsAt[e] \in Nat
      /\ \A e \in 1..Len(t.stts) : t.sttsAt[e + 1] = t.sttsAt[e] + t.stts[e].count
  BY DEF IsTrack, SumsFrom
<1>2. Len(t.stts) \in Nat
  BY <1>0
<1>3. ASSUME NEW e \in 1..Len(t.stts) PROVE t.stts[e].count \in Nat /\ t.stts[e].delta \in Nat
  <2>1. t.stts[e] \in [count : Nat, delta : Nat]
    BY <1>0, ElementOf, Zenon
  <2> QED BY <2>1
<1>4. ASSUME NEW e \in 1..(Len(t.stts) + 1) PROVE t.sttsAt[e] \in Nat
  <2>1. CASE e \in 1..Len(t.stts)
    BY <1>1, <2>1
  <2>2. CASE e = 1
    BY <1>1, <2>2
  <2>3. CASE e = Len(t.stts) + 1 /\ e # 1
    <3>1. e - 1 \in 1..Len(t.stts) /\ (e - 1) + 1 = e
      BY <1>2, <2>3
    <3>2. t.sttsAt[e] = t.sttsAt[e - 1] + t.stts[e - 1].count
      BY <1>1, <3>1
    <3>3. t.sttsAt[e - 1] \in Nat /\ t.stts[e - 1].count \in Nat
      BY <1>1, <1>3, <3>1
    <3> QED BY <3>2, <3>3
  <2> QED BY <1>2, <2>1, <2>2, <2>3
<1>5. t.sttsAt[Len(t.stts) + 1] = Given(t) + 1
  <2>1. Len(t.stts) + 1 \in 1..(Len(t.stts) + 1)
    BY <1>2
  <2>2. t.sttsAt[Len(t.stts) + 1] \in Nat
    BY <1>4, <2>1
  <2> QED BY <2>2 DEF Given
<1> QED
  BY <1>1, <1>2, <1>3, <1>4, <1>5

LEMMA CompositionsOf ==
  ASSUME NEW t, IsTrack(t)
  PROVE  /\ Len(t.ctts) \in Nat
         /\ t.cttsAt[1] = 1
         /\ \A e \in 1..(Len(t.ctts) + 1) : t.cttsAt[e] \in Nat
         /\ \A e \in 1..Len(t.ctts) :
              /\ t.ctts[e].count \in Nat /\ t.ctts[e].delta \in Nat
              /\ t.cttsAt[e + 1] = t.cttsAt[e] + t.ctts[e].count
<1>0. t.ctts \in Seq([count : Nat, delta : Nat])
  BY DEF IsTrack
<1>1. /\ t.cttsAt[1] = 1
      /\ \A e \in 1..Len(t.ctts) : t.cttsAt[e] \in Nat
      /\ \A e \in 1..Len(t.ctts) : t.cttsAt[e + 1] = t.cttsAt[e] + t.ctts[e].count
  BY DEF IsTrack, SumsFrom
<1>2. Len(t.ctts) \in Nat
  BY <1>0
<1>3. ASSUME NEW e \in 1..Len(t.ctts)
      PROVE  t.ctts[e].count \in Nat /\ t.ctts[e].delta \in Nat
  <2>1. t.ctts[e] \in [count : Nat, delta : Nat]
    BY <1>0, ElementOf, Zenon
  <2> QED BY <2>1
<1>4. ASSUME NEW e \in 1..(Len(t.ctts) + 1) PROVE t.cttsAt[e] \in Nat
  <2>1. CASE e \in 1..Len(t.ctts)
    BY <1>1, <2>1
  <2>2. CASE e = 1
    BY <1>1, <2>2
  <2>3. CASE e = Len(t.ctts) + 1 /\ e # 1
    <3>1. e - 1 \in 1..Len(t.ctts) /\ (e - 1) + 1 = e
      BY <1>2, <2>3
    <3>2. t.cttsAt[e] = t.cttsAt[e - 1] + t.ctts[e - 1].count
      BY <1>1, <3>1
    <3>3. t.cttsAt[e - 1] \in Nat /\ t.ctts[e - 1].count \in Nat
      BY <1>1, <1>3, <3>1
    <3> QED BY <3>2, <3>3
  <2> QED BY <1>2, <2>1, <2>2, <2>3
<1> QED
  BY <1>1, <1>2, <1>3, <1>4

(* The key frames, in order. *)
LEMMA KeyframesOf ==
  ASSUME NEW t, IsTrack(t)
  PROVE  /\ Len(t.stss) \in Nat
         /\ \A i \in 1..Len(t.stss) : t.stss[i] \in Nat
         /\ LegalStss(t) => /\ \A i \in 1..Len(t.stss) : t.stss[i] > 0
                            /\ \A i, j \in 1..Len(t.stss) : i < j => t.stss[i] < t.stss[j]
<1> DEFINE s == t.stss
           l == Len(s)
<1>1. s \in Seq(Nat)
  BY DEF IsTrack
<1>4. LegalStss(t) => (\A i \in 1..(l - 1) : s[i] < s[i + 1]) /\ \A i \in 1..l : s[i] > 0
  BY DEF LegalStss, Increasing
<1> HIDE DEF s
<1>2. l \in Nat /\ \A i \in 1..l : s[i] \in Nat
  BY <1>1
<1> HIDE DEF l
<1>3. ASSUME LegalStss(t), NEW i \in 1..l, NEW j \in 1..l, i < j PROVE s[i] < s[j]
  <2>1. PICK n \in Nat : n = l - 1
    BY <1>2
  <2>2. /\ \A x \in 1..(n + 1) : s[x] \in Nat
        /\ \A x \in 1..n : s[x] <= s[x + 1]
    BY <1>2, <1>3, <1>4, <2>1
  <2>3. \A x, y \in 1..(n + 1) : x <= y => s[x] <= s[y]
    BY <2>2, Grows
  <2>4. i + 1 \in 1..(n + 1) /\ j \in 1..(n + 1) /\ i + 1 <= j /\ i \in 1..(l - 1)
        /\ i + 1 \in 1..l
    BY <1>2, <1>3, <2>1
  <2>5. s[i] < s[i + 1] /\ s[i + 1] <= s[j]
    BY <1>3, <1>4, <2>3, <2>4
  <2> QED BY <1>2, <2>4, <2>5
<1> QED
  BY <1>2, <1>3, <1>4 DEF s, l

(* The chunks and the runs, the last of which no chunk reaches. *)
LEMMA ChunksOf ==
  ASSUME NEW t, IsTrack(t)
  PROVE  /\ NChunks(t) \in Nat /\ Len(t.stsc) \in Nat
         /\ \A i \in 1..Len(t.stsc) : t.stsc[i].first \in Nat /\ t.stsc[i].per \in Nat
         /\ Len(t.stsc) > 0 => t.stsc[Len(t.stsc)].first > NChunks(t) + 1
         /\ \A c \in 1..NChunks(t) : t.chunk_offsets[c] \in Nat
<1> DEFINE l == Len(t.stsc)
           s == t.stsc
<1>1. s \in Seq([first : Nat, per : Nat, desc : Nat]) /\ t.chunk_offsets \in Seq(Nat)
      /\ NChunks(t) = Len(t.chunk_offsets)
  BY DEF IsTrack, NChunks
<1>2. l > 0 => s[l].first > NChunks(t) + 1
  <2>1. s # <<>> => s[l].first > NChunks(t) + 1
    BY DEF IsTrack
  <2>2. l > 0 => s # <<>>
    BY <1>1
  <2> QED BY <2>1, <2>2
<1>3. NChunks(t) \in Nat /\ \A c \in 1..NChunks(t) : t.chunk_offsets[c] \in Nat
  BY <1>1
<1> HIDE DEF s
<1>4. l \in Nat
  BY <1>1 DEF s
<1>5. ASSUME NEW i \in 1..l PROVE s[i].first \in Nat /\ s[i].per \in Nat
  <2>1. s[i] \in [first : Nat, per : Nat, desc : Nat]
    <3>1. i \in 1..Len(s)
      BY DEF s
    <3> QED BY <1>1, <3>1, ElementOf, Zenon
  <2> QED BY <2>1
<1> QED
  BY <1>2, <1>3, <1>4, <1>5 DEF s

(* With legal runs every chunk is of a run, so the first samples of the     *)
(* chunks grow.                                                             *)
LEMMA RunsOf ==
  ASSUME NEW t, IsTrack(t), LegalStsc(t)
  PROVE  /\ Len(t.stsc) >= 2 /\ t.stsc[1].first = 1
         /\ \A r \in 1..(Len(t.stsc) - 1) :
              t.stsc[r].per > 0 /\ t.stsc[r].first < t.stsc[r + 1].first
         /\ t.first[1] = 1
         /\ \A c \in 1..(NChunks(t) + 1) : t.first[c] \in Nat
         /\ \A c \in 1..NChunks(t) : t.first[c] <= t.first[c + 1]
         /\ \A c \in 1..NChunks(t) : \A r \in 1..(Len(t.stsc) - 1) :
              t.stsc[r].first <= c /\ c < t.stsc[r + 1].first =>
                t.first[c + 1] = t.first[c] + t.stsc[r].per
<1> DEFINE n == NChunks(t)
           l == Len(t.stsc)
           s == t.stsc
<1>2. l >= 2 /\ s[1].first = 1
  BY DEF LegalStsc
<1>3. \A r \in 1..(l - 1) : s[r].per > 0 /\ s[r].first < s[r + 1].first
  BY DEF LegalStsc, Runs
<1>4. /\ t.first[1] = 1
      /\ \A c \in 1..n : \A r \in 1..(l - 1) :
           s[r].first <= c /\ c < s[r + 1].first =>
             t.first[c] \in Nat /\ t.first[c + 1] = t.first[c] + s[r].per
  BY DEF IsTrack, NChunks, Runs
<1>5. /\ n \in Nat /\ l \in Nat /\ (l > 0 => s[l].first > n + 1)
      /\ \A i \in 1..l : s[i].first \in Nat /\ s[i].per \in Nat
  BY ChunksOf
<1> HIDE DEF n, s, l
<1>6. l \in Nat /\ s[l].first > n + 1
  BY <1>2, <1>5
<1>7. ASSUME NEW i \in 1..l PROVE s[i].first \in Nat /\ s[i].per \in Nat
  BY <1>5
<1>8. ASSUME NEW c \in 1..n
      PROVE  \E r \in 1..(l - 1) : s[r].first <= c /\ c < s[r + 1].first
  <2> DEFINE T == {r \in 1..(l - 1) : c < s[r + 1].first}
  <2>1. l - 1 \in T
    <3>1. (l - 1) + 1 = l /\ l - 1 \in 1..(l - 1) /\ l \in 1..l
      BY <1>2, <1>6
    <3>2. s[l].first \in Nat
      BY <1>7, <3>1
    <3>3. c < s[l].first
      BY <1>5, <1>6, <3>2
    <3> QED BY <3>1, <3>3
  <2>2. PICK r \in T : \A x \in T : r <= x
    <3>1. T \subseteq Nat /\ T # {}
      BY <2>1
    <3> HIDE DEF T
    <3> QED BY <3>1, LeastElement
  <2>3. r \in 1..(l - 1) /\ c < s[r + 1].first
    BY <2>2
  <2>4. s[r].first <= c
    <3>1. CASE r = 1
      BY <1>2, <3>1
    <3>2. CASE r # 1
      <4>1. r - 1 \in 1..(l - 1) /\ r \in 1..l /\ (r - 1) + 1 = r /\ ~(r <= r - 1)
        BY <1>6, <2>3, <3>2
      <4>2. r - 1 \notin T
        BY <2>2, <4>1
      <4>3. ~(c < s[r].first)
        BY <4>1, <4>2
      <4> QED BY <1>7, <4>1, <4>3
    <3> QED BY <3>1, <3>2
  <2> QED BY <2>3, <2>4
<1>9. ASSUME NEW c \in 1..n
      PROVE  t.first[c] \in Nat /\ t.first[c + 1] \in Nat /\ t.first[c] <= t.first[c + 1]
  <2>1. PICK r \in 1..(l - 1) : s[r].first <= c /\ c < s[r + 1].first
    BY <1>8
  <2>2. t.first[c] \in Nat /\ t.first[c + 1] = t.first[c] + s[r].per
    BY <1>4, <2>1
  <2>3. s[r].per \in Nat
    <3>1. r \in 1..l
      BY <1>6
    <3> QED BY <1>7, <3>1
  <2> QED BY <2>2, <2>3
<1>10. ASSUME NEW c \in 1..(n + 1) PROVE t.first[c] \in Nat
  <2>1. CASE c \in 1..n
    BY <1>9, <2>1
  <2>2. CASE c = 1
    BY <1>4, <2>2
  <2>3. CASE c # 1 /\ c \notin 1..n
    <3>1. c - 1 \in 1..n /\ (c - 1) + 1 = c
      BY <1>5, <2>3
    <3> QED BY <1>9, <3>1
  <2> QED BY <2>1, <2>2, <2>3
<1> QED
  BY <1>2, <1>3, <1>4, <1>9, <1>10 DEF n, s, l
-----------------------------------------------------------------------------
(* Where each cursor is, when number samples have been produced. *)
InStts ==
  /\ number + 1 = track.sttsAt[entry] + iii
  /\ number = 0 => current_time = 0
  /\ number > 0 => \A e \in 1..Len(track.stts) :
       InRun(track.sttsAt, e, number) =>
         current_time = samples[number].timestamp + track.stts[e].delta

InCtts ==
  IF HasComposition THEN number + 1 = track.cttsAt[cur_ctts_entry] + order_n
  ELSE track.cttsAt[Len(track.ctts) + 1] <= number + 1

InStsc ==
  /\ chunk_run <= Len(track.stsc)
  /\ track.stsc[chunk_run - 1].first <= current_chunk + 1
  /\ current_chunk + 1 < track.stsc[chunk_run].first
  /\ samples_per_chunk = track.stsc[chunk_run - 1].per
  /\ sample_number_in_chunk < samples_per_chunk
  /\ current_chunk = NChunks(track) => sample_number_in_chunk = 0
  /\ number + 1 = track.first[current_chunk + 1] + sample_number_in_chunk
  /\ offset_in_current_chunk
       = track.before[number + 1] - track.before[track.first[current_chunk + 1]]

InStss ==
  track.video => \A i \in 1..Len(track.stss) : i <= keyframe_index <=> track.stss[i] <= number

Ending ==
  /\ pc = "done" => entry = Len(track.stts) + 1
  /\ LegalStsc(track) =>
       /\ (\A r \in 1..Len(track.stsc) : track.stsc[r].desc = 1) => pc # "aborted"
       /\ Agree(track) => pc # "outside"

Cursors ==
  /\ InStts
  /\ LegalCtts(track) => InCtts
  /\ LegalStsc(track) => InStsc
  /\ LegalStss(track) => InStss
  /\ Ending

(* The inductive invariant. *)
IInv ==
  /\ IsTrack(track)
  /\ TypeOK /\ number = Len(samples)
  /\ Cursors
  /\ OffsetsRight /\ TimesRight /\ FieldsRight

(* The sums of stts grow. *)
LEMMA SttsGrows ==
  ASSUME NEW t, IsTrack(t)
  PROVE  \A e \in 1..Len(t.stts) : t.sttsAt[e] <= t.sttsAt[e + 1]
<1>1. ASSUME NEW e \in 1..Len(t.stts) PROVE t.sttsAt[e] <= t.sttsAt[e + 1]
  <2>1. t.stts[e].count \in Nat /\ t.sttsAt[e + 1] = t.sttsAt[e] + t.stts[e].count
    BY TimesOf
  <2>2. t.sttsAt[e] \in Nat
    <3>1. e \in 1..(Len(t.stts) + 1)
      BY TimesOf
    <3> QED BY <3>1, TimesOf
  <2> QED BY <2>1, <2>2
<1> QED
  BY <1>1

LEMMA CttsGrows ==
  ASSUME NEW t, IsTrack(t)
  PROVE  \A e \in 1..Len(t.ctts) : t.cttsAt[e] <= t.cttsAt[e + 1]
<1>1. ASSUME NEW e \in 1..Len(t.ctts) PROVE t.cttsAt[e] <= t.cttsAt[e + 1]
  <2>1. t.ctts[e].count \in Nat /\ t.cttsAt[e + 1] = t.cttsAt[e] + t.ctts[e].count
    BY CompositionsOf
  <2>2. t.cttsAt[e] \in Nat
    <3>1. e \in 1..(Len(t.ctts) + 1)
      BY CompositionsOf
    <3> QED BY <3>1, CompositionsOf
  <2> QED BY <2>1, <2>2
<1> QED
  BY <1>1

(* While stts gives a sample, it is one of those it gives in all. *)
LEMMA AtSample ==
  ASSUME IInv, entry <= Len(track.stts), iii < track.stts[entry].count
  PROVE  /\ number \in Nat /\ number < Given(track)
         /\ entry \in 1..Len(track.stts) /\ iii \in Nat
         /\ InRun(track.sttsAt, entry, number + 1)
<1>1. IsTrack(track) /\ TypeOK /\ InStts
  BY DEF IInv, Cursors
<1>2. number \in Nat
  BY <1>1, SumsOf DEF TypeOK
<1>3. Len(track.stts) \in Nat /\ entry \in 1..Len(track.stts)
  BY <1>1, TimesOf DEF TypeOK
<1>4. track.stts[entry].count \in Nat /\ iii \in Nat
  BY <1>1, <1>3, TimesOf DEF TypeOK
<1>5. /\ entry \in 1..(Len(track.stts) + 1) /\ entry + 1 \in 1..(Len(track.stts) + 1)
      /\ Len(track.stts) + 1 \in 1..(Len(track.stts) + 1) /\ entry + 1 <= Len(track.stts) + 1
  BY <1>3
<1>6. /\ track.sttsAt[entry] \in Nat /\ track.sttsAt[entry + 1] \in Nat
      /\ track.sttsAt[entry + 1] = track.sttsAt[entry] + track.stts[entry].count
      /\ track.sttsAt[Len(track.stts) + 1] \in Nat
      /\ track.sttsAt[Len(track.stts) + 1] = Given(track) + 1
  BY <1>1, <1>3, <1>5, TimesOf
<1>7. track.sttsAt[entry + 1] <= track.sttsAt[Len(track.stts) + 1]
  <2>1. /\ \A e \in 1..(Len(track.stts) + 1) : track.sttsAt[e] \in Nat
        /\ \A e \in 1..Len(track.stts) : track.sttsAt[e] <= track.sttsAt[e + 1]
    BY <1>1, TimesOf, SttsGrows
  <2> QED BY <1>3, <1>5, <2>1, Grows
<1>8. number + 1 = track.sttsAt[entry] + iii
  BY <1>1 DEF InStts
<1>9. InRun(track.sttsAt, entry, number + 1)
  BY <1>4, <1>6, <1>8 DEF InRun
<1>10. number < Given(track)
  <2>1. number + 1 < track.sttsAt[entry + 1]
    BY <1>9 DEF InRun
  <2>2. Given(track) \in Int
    BY <1>6 DEF Given
  <2> QED BY <1>2, <1>6, <1>7, <2>1, <2>2
<1> QED
  BY <1>2, <1>3, <1>4, <1>9, <1>10

(* What has been produced is no more than stts gives. *)
LEMMA WithinGiven ==
  ASSUME IInv
  PROVE  /\ number \in Nat /\ Given(track) \in Nat /\ number <= Given(track)
         /\ entry = Len(track.stts) + 1 => number = Given(track)
<1>1. IsTrack(track) /\ TypeOK /\ InStts
  BY DEF IInv, Cursors
<1>2. number \in Nat
  BY <1>1, SumsOf DEF TypeOK
<1>3. Len(track.stts) \in Nat /\ entry \in 1..(Len(track.stts) + 1)
  BY <1>1, TimesOf DEF TypeOK
<1>4. /\ \A e \in 1..(Len(track.stts) + 1) : track.sttsAt[e] \in Nat
      /\ \A e \in 1..Len(track.stts) : track.sttsAt[e] <= track.sttsAt[e + 1]
      /\ track.sttsAt[1] = 1 /\ track.sttsAt[Len(track.stts) + 1] = Given(track) + 1
  BY <1>1, TimesOf, SttsGrows
<1>5. \A i, j \in 1..(Len(track.stts) + 1) : i <= j => track.sttsAt[i] <= track.sttsAt[j]
  BY <1>3, <1>4, Grows
<1>6. Given(track) \in Nat
  <2>1. 1 \in 1..(Len(track.stts) + 1) /\ Len(track.stts) + 1 \in 1..(Len(track.stts) + 1)
        /\ 1 <= Len(track.stts) + 1
    BY <1>3
  <2>2. 1 <= track.sttsAt[Len(track.stts) + 1] /\ track.sttsAt[Len(track.stts) + 1] \in Nat
    BY <1>4, <1>5, <2>1
  <2>3. Given(track) = track.sttsAt[Len(track.stts) + 1] - 1
    BY DEF Given
  <2> QED BY <2>2, <2>3
<1>7. number + 1 = track.sttsAt[entry] + iii
  BY <1>1 DEF InStts
<1>8. CASE entry = Len(track.stts) + 1
  <2>1. iii = 0
    BY <1>1, <1>3, <1>8 DEF TypeOK
  <2> QED BY <1>2, <1>4, <1>6, <1>7, <1>8, <2>1
<1>9. CASE entry # Len(track.stts) + 1
  <2>1. entry \in 1..Len(track.stts) /\ entry + 1 \in 1..(Len(track.stts) + 1)
        /\ Len(track.stts) + 1 \in 1..(Len(track.stts) + 1)
        /\ entry + 1 <= Len(track.stts) + 1
    BY <1>3, <1>9
  <2>2. /\ track.stts[entry].count \in Nat /\ iii \in 0..track.stts[entry].count
        /\ track.sttsAt[entry + 1] = track.sttsAt[entry] + track.stts[entry].count
    BY <1>1, <2>1, TimesOf DEF TypeOK
  <2>3. track.sttsAt[entry + 1] <= Given(track) + 1
    BY <1>4, <1>5, <2>1
  <2>4. track.sttsAt[entry] \in Nat
    BY <1>3, <1>4
  <2> QED BY <1>2, <1>6, <1>7, <1>9, <2>2, <2>3, <2>4
<1> QED
  BY <1>2, <1>6, <1>8, <1>9

(* A step of the inner loop stays in the tables. *)
LEMMA InsideAt ==
  ASSUME IInv, UnfoldSample
  PROVE  /\ number \in Nat /\ number + 1 \in 1..NSamples(track)
         /\ current_chunk \in Nat /\ current_chunk + 1 \in 1..NChunks(track)
<1>1. IsTrack(track) /\ TypeOK /\ number < NSamples(track) /\ current_chunk < NChunks(track)
  BY DEF IInv, UnfoldSample, Inside
<1>2. number \in Nat /\ NSamples(track) \in Nat /\ current_chunk \in Nat /\ NChunks(track) \in Nat
  BY <1>1, SumsOf, ChunksOf DEF TypeOK
<1> QED
  BY <1>1, <1>2
-----------------------------------------------------------------------------
(* A step of the inner loop appends a sample and leaves the others. *)
LEMMA Appended ==
  ASSUME IInv, UnfoldSample
  PROVE  /\ track' = track /\ entry' = entry /\ iii' = iii + 1
         /\ number' = number + 1 /\ number' \in 0..NSamples(track)
         /\ number = Len(samples) /\ Len(samples') = number + 1
         /\ \A k \in 1..number : samples'[k] = samples[k]
         /\ samples'[number + 1].timestamp = current_time
         /\ samples'[number + 1].composition_offset = CompositionOffset
         /\ samples'[number + 1].sample_size = track.sample_size[number + 1]
         /\ samples'[number + 1].offset = Offset
         /\ samples'[number + 1].keyframe = IsKeyframe
<1> DEFINE new == [timestamp          |-> current_time,
                   composition_offset |-> CompositionOffset,
                   sample_size        |-> track.sample_size[number + 1],
                   offset             |-> Offset,
                   keyframe           |-> IsKeyframe]
<1>1. /\ track' = track /\ entry' = entry /\ iii' = iii + 1 /\ number' = number + 1
      /\ samples' = Append(samples, new)
  BY DEF UnfoldSample
<1>2. number = Len(samples) /\ IsTrack(track)
  BY DEF IInv
<1>3. \E S : samples \in Seq(S)
  BY DEF IInv, TypeOK
<1>4. /\ new.timestamp = current_time /\ new.composition_offset = CompositionOffset
      /\ new.sample_size = track.sample_size[number + 1] /\ new.offset = Offset
      /\ new.keyframe = IsKeyframe
  OBVIOUS
<1> HIDE DEF new
<1>5. /\ Len(samples') = number + 1 /\ samples'[number + 1] = new
      /\ \A k \in 1..number : samples'[k] = samples[k]
  BY <1>1, <1>2, <1>3
<1>6. number + 1 \in 0..NSamples(track)
  <2>1. number + 1 \in 1..NSamples(track)
    BY InsideAt
  <2> QED BY <2>1
<1> QED
  BY <1>1, <1>2, <1>4, <1>5, <1>6

(* The time cursor. *)
LEMMA TimesStep ==
  ASSUME IInv, UnfoldSample
  PROVE  /\ InStts' /\ TimesRight'
         /\ current_time \in Nat /\ current_time' \in Nat
         /\ entry \in 1..Len(track.stts) /\ iii + 1 \in 0..track.stts[entry].count
<1>1. /\ IsTrack(track) /\ TypeOK /\ InStts /\ TimesRight
      /\ entry <= Len(track.stts) /\ iii < track.stts[entry].count
      /\ current_time' = current_time + track.stts[entry].delta
  BY DEF IInv, Cursors, UnfoldSample, MoreToUnfold, NextTime
<1>2. /\ track' = track /\ entry' = entry /\ iii' = iii + 1 /\ number' = number + 1
      /\ number = Len(samples) /\ Len(samples') = number + 1
      /\ \A k \in 1..number : samples'[k] = samples[k]
      /\ samples'[number + 1].timestamp = current_time
  BY Appended
<1>3. /\ number \in Nat /\ entry \in 1..Len(track.stts) /\ iii \in Nat
      /\ InRun(track.sttsAt, entry, number + 1)
  BY <1>1, AtSample
<1>4. track.stts[entry].count \in Nat /\ track.stts[entry].delta \in Nat
  BY <1>1, <1>3, TimesOf
<1>5. current_time \in Nat /\ current_time' \in Nat
  <2>1. current_time \in Nat
    BY <1>1 DEF TypeOK
  <2> QED BY <1>1, <1>4, <2>1
<1>6. ASSUME NEW e \in 1..Len(track.stts), InRun(track.sttsAt, e, number + 1)
      PROVE  e = entry
  <2>1. /\ Len(track.stts) \in Nat
        /\ \A i \in 1..(Len(track.stts) + 1) : track.sttsAt[i] \in Nat
        /\ \A i \in 1..Len(track.stts) : track.sttsAt[i] <= track.sttsAt[i + 1]
    BY <1>1, TimesOf, SttsGrows
  <2>2. number + 1 \in Nat
    BY <1>3
  <2> QED BY <1>3, <1>6, <2>1, <2>2, OneRun
<1>7. InStts'
  <2>1. number + 1 + 1 = track.sttsAt[entry] + (iii + 1)
    <3>1. track.sttsAt[entry] \in Nat
      <4>1. entry \in 1..(Len(track.stts) + 1)
        BY <1>1, <1>3, TimesOf
      <4> QED BY <1>1, <4>1, TimesOf
    <3> QED BY <1>1, <1>3, <3>1 DEF InStts
  <2>2. number + 1 # 0
    BY <1>3
  <2>3. \A e \in 1..Len(track.stts) : InRun(track.sttsAt, e, number + 1) =>
          current_time' = samples'[number + 1].timestamp + track.stts[e].delta
    BY <1>1, <1>2, <1>6
  <2> QED BY <1>2, <2>1, <2>2, <2>3 DEF InStts
<1>8. TimesRight'
  <2>1. samples'[1].timestamp = 0
    <3>1. CASE number = 0
      BY <1>1, <1>2, <3>1 DEF InStts
    <3>2. CASE number # 0
      <4>1. 1 \in 1..number /\ Len(samples) > 0
        BY <1>2, <1>3, <3>2
      <4> QED BY <1>1, <1>2, <4>1 DEF TimesRight
    <3> QED BY <3>1, <3>2
  <2>2. ASSUME NEW k \in 1..(Len(samples') - 1), NEW e \in 1..Len(track.stts),
               InRun(track.sttsAt, e, k)
        PROVE  samples'[k + 1].timestamp = samples'[k].timestamp + track.stts[e].delta
    <3>1. k \in 1..number /\ k \in Nat
      BY <1>2, <1>3
    <3>2. CASE k = number
      <4>1. current_time = samples[number].timestamp + track.stts[e].delta
        BY <1>1, <1>3, <2>2, <3>1, <3>2 DEF InStts
      <4> QED BY <1>2, <3>1, <3>2, <4>1
    <3>3. CASE k # number
      <4>1. k \in 1..(Len(samples) - 1) /\ k + 1 \in 1..number
        BY <1>2, <1>3, <3>1, <3>3
      <4>2. samples[k + 1].timestamp = samples[k].timestamp + track.stts[e].delta
        BY <1>1, <2>2, <4>1 DEF TimesRight
      <4> QED BY <1>2, <3>1, <4>1, <4>2
    <3> QED BY <3>2, <3>3
  <2> QED BY <1>2, <2>1, <2>2 DEF TimesRight
<1>9. iii + 1 \in 0..track.stts[entry].count
  BY <1>1, <1>3, <1>4
<1> QED
  BY <1>3, <1>5, <1>7, <1>8, <1>9

(* The composition cursor. *)
LEMMA CompositionTypes ==
  ASSUME IInv, UnfoldSample
  PROVE  /\ CompositionOffset \in Nat
         /\ cur_ctts_entry' \in 1..(Len(track.ctts) + 1)
         /\ order_n' \in Nat
         /\ order_n' > 0 => HasComposition' /\ order_n' < track.ctts[cur_ctts_entry'].count
<1>1. IsTrack(track) /\ TypeOK /\ NextComposition /\ track' = track
  BY DEF IInv, UnfoldSample
<1>2. /\ Len(track.ctts) \in Nat
      /\ \A e \in 1..Len(track.ctts) : track.ctts[e].count \in Nat /\ track.ctts[e].delta \in Nat
  BY <1>1, CompositionsOf
<1>3. cur_ctts_entry \in 1..(Len(track.ctts) + 1) /\ order_n \in Nat
      /\ (order_n > 0 => HasComposition /\ order_n < track.ctts[cur_ctts_entry].count)
  BY <1>1 DEF TypeOK
<1>4. HasComposition => cur_ctts_entry \in 1..Len(track.ctts)
  BY <1>2, <1>3 DEF HasComposition
<1>5. CompositionOffset \in Nat
  BY <1>2, <1>4 DEF CompositionOffset
<1>6. CASE HasComposition /\ order_n + 1 >= track.ctts[cur_ctts_entry].count
           /\ cur_ctts_entry' = cur_ctts_entry + 1 /\ order_n' = 0
  BY <1>2, <1>4, <1>5, <1>6
<1>7. CASE HasComposition /\ order_n + 1 < track.ctts[cur_ctts_entry].count
           /\ order_n' = order_n + 1 /\ UNCHANGED cur_ctts_entry
  <2>1. HasComposition'
    BY <1>1, <1>7 DEF HasComposition
  <2> QED BY <1>2, <1>3, <1>4, <1>5, <1>7, <2>1
<1>8. CASE ~HasComposition /\ UNCHANGED composition
  <2>1. cur_ctts_entry' = cur_ctts_entry /\ order_n' = order_n
    BY <1>8 DEF composition
  <2> QED BY <1>3, <1>5, <1>8, <2>1
<1> QED
  BY <1>1, <1>6, <1>7, <1>8 DEF NextComposition

LEMMA CompositionsStep ==
  ASSUME IInv, UnfoldSample, LegalCtts(track)
  PROVE  /\ InCtts'
         /\ \A e \in 1..Len(track.ctts) :
              InRun(track.cttsAt, e, number + 1) => CompositionOffset = track.ctts[e].delta
         /\ number + 1 >= track.cttsAt[Len(track.ctts) + 1] => CompositionOffset = 0
<1> DEFINE l == Len(track.ctts)
           cur == cur_ctts_entry
<1>1. IsTrack(track) /\ TypeOK /\ InCtts /\ NextComposition
      /\ \A e \in 1..l : track.ctts[e].count > 0
  BY DEF IInv, Cursors, UnfoldSample, LegalCtts
<1>2. track' = track /\ number' = number + 1 /\ number \in Nat
  <2>1. number \in Nat
    BY <1>1, SumsOf DEF TypeOK
  <2> QED BY <2>1, Appended
<1>3. /\ l \in Nat
      /\ \A e \in 1..(l + 1) : track.cttsAt[e] \in Nat
      /\ \A e \in 1..l : /\ track.ctts[e].count \in Nat \ {0} /\ track.ctts[e].delta \in Nat
                         /\ track.cttsAt[e + 1] = track.cttsAt[e] + track.ctts[e].count
      /\ \A e \in 1..l : track.cttsAt[e] <= track.cttsAt[e + 1]
  BY <1>1, CompositionsOf, CttsGrows
<1>4. cur \in 1..(l + 1) /\ (HasComposition <=> cur <= l) /\ (HasComposition' <=> cur' <= l)
  BY <1>1, <1>2 DEF TypeOK, HasComposition
<1>5. \A i, j \in 1..(l + 1) : i <= j => track.cttsAt[i] <= track.cttsAt[j]
  BY <1>3, Grows
<1>6. \A e \in 1..l : e + 1 \in 1..(l + 1) /\ e \in 1..(l + 1) /\ l + 1 \in 1..(l + 1)
                      /\ e + 1 <= l + 1
  BY <1>3
<1>7. CASE ~HasComposition
  <2>1. cur = l + 1 /\ order_n = 0 /\ cur' = cur /\ order_n' = order_n
        /\ track.cttsAt[l + 1] <= number + 1
    <3>1. cur = l + 1
      BY <1>3, <1>4, <1>7
    <3>2. order_n \in Nat /\ ~(order_n > 0)
      BY <1>1, <1>7 DEF TypeOK
    <3>3. track.cttsAt[l + 1] <= number + 1
      BY <1>1, <1>7 DEF InCtts
    <3>4. cur' = cur /\ order_n' = order_n
      BY <1>1, <1>7 DEF NextComposition, composition
    <3> QED BY <3>1, <3>2, <3>3, <3>4
  <2>2. ~HasComposition' /\ CompositionOffset = 0
    BY <1>3, <1>4, <1>7, <2>1 DEF CompositionOffset
  <2>3. l + 1 \in 1..(l + 1)
    BY <1>3
  <2>4. track.cttsAt[l + 1] \in Nat
    BY <1>3, <2>3
  <2>5. track.cttsAt[l + 1] <= number + 1 + 1
    BY <1>2, <2>1, <2>4
  <2>6. InCtts'
    BY <1>2, <2>2, <2>5 DEF InCtts
  <2>7. ASSUME NEW e \in 1..l, InRun(track.cttsAt, e, number + 1) PROVE FALSE
    <3>1. number + 1 < track.cttsAt[e + 1]
      BY <2>7 DEF InRun
    <3>2. track.cttsAt[e + 1] <= track.cttsAt[l + 1] /\ track.cttsAt[e + 1] \in Nat
      BY <1>3, <1>5, <1>6
    <3> QED BY <1>2, <2>1, <2>4, <3>1, <3>2
  <2> QED BY <1>2, <1>4, <2>1, <2>2, <2>6, <2>7
<1>8. CASE HasComposition
  <2> DEFINE count == track.ctts[cur].count
             at == track.cttsAt[cur]
             next == track.cttsAt[cur + 1]
  <2>1. cur \in 1..l
    BY <1>3, <1>4, <1>8
  <2>2. order_n \in 0..(count - 1) /\ number + 1 = at + order_n
    <3>1. count \in Nat \ {0} /\ order_n \in Nat /\ (order_n > 0 => order_n < count)
      BY <1>1, <1>3, <2>1 DEF TypeOK
    <3>2. number + 1 = at + order_n
      BY <1>1, <1>8 DEF InCtts
    <3> QED BY <3>1, <3>2
  <2>3. count \in Nat \ {0} /\ at \in Nat /\ next \in Nat /\ next = at + count
        /\ next <= track.cttsAt[l + 1] /\ track.cttsAt[l + 1] \in Nat
    <3>1. /\ cur \in 1..(l + 1) /\ cur + 1 \in 1..(l + 1) /\ l + 1 \in 1..(l + 1)
          /\ cur + 1 <= l + 1
      BY <1>6, <2>1
    <3>2. next <= track.cttsAt[l + 1]
      BY <1>5, <3>1
    <3> QED BY <1>3, <2>1, <3>1, <3>2
  <2>4. CompositionOffset = track.ctts[cur].delta /\ CompositionOffset \in Nat
    BY <1>3, <1>8, <2>1 DEF CompositionOffset
  <2>5. \/ order_n + 1 >= count /\ cur' = cur + 1 /\ order_n' = 0
        \/ order_n + 1 < count /\ cur' = cur /\ order_n' = order_n + 1
    BY <1>1, <1>8 DEF NextComposition
  <2> HIDE DEF count, at, next
  <2>6. at <= number + 1 /\ number + 1 < next
    BY <1>2, <2>2, <2>3
  <2>7. InRun(track.cttsAt, cur, number + 1)
    BY <2>6 DEF InRun, at, next
  <2>8. ASSUME NEW e \in 1..l, InRun(track.cttsAt, e, number + 1) PROVE e = cur
    <3>1. number + 1 \in Nat
      BY <1>2
    <3> QED BY <1>3, <2>1, <2>7, <2>8, <3>1, OneRun
  <2>9. ~(number + 1 >= track.cttsAt[l + 1])
    BY <1>2, <2>3, <2>6
  <2>10. CASE order_n + 1 < count /\ cur' = cur /\ order_n' = order_n + 1
    <3>1. HasComposition' /\ order_n' \in 0..(count - 1)
          /\ number' + 1 = at + order_n'
      BY <1>2, <1>4, <1>8, <2>2, <2>3, <2>10
    <3>2. InCtts'
      BY <1>2, <2>10, <3>1 DEF InCtts, at
    <3> QED BY <1>4, <2>4, <2>8, <2>9, <2>10, <3>1, <3>2 DEF count
  <2>11. CASE order_n + 1 >= count /\ cur' = cur + 1 /\ order_n' = 0
    <3>1. number' + 1 = next /\ cur' \in 1..(l + 1) /\ cur' \in Nat
      BY <1>2, <1>3, <2>1, <2>2, <2>3, <2>11
    <3>2. CASE cur' <= l
      <4>1. HasComposition' /\ track.ctts[cur'].count \in Nat \ {0}
        <5>1. cur' \in 1..l
          BY <3>1, <3>2
        <5> QED BY <1>3, <1>4, <3>2, <5>1
      <4>2. InCtts'
        <5>1. number' + 1 = track.cttsAt[cur'] + order_n'
          BY <2>3, <2>11, <3>1 DEF next
        <5> QED BY <1>2, <4>1, <5>1 DEF InCtts
      <4>3. order_n' \in 0..(track.ctts[cur'].count - 1)
        BY <2>11, <4>1
      <4> QED BY <2>4, <2>8, <2>9, <3>1, <4>1, <4>2, <4>3
    <3>3. CASE ~(cur' <= l)
      <4>1. ~HasComposition' /\ cur' = l + 1
        BY <1>3, <1>4, <3>1, <3>3
      <4>2. track.cttsAt[l + 1] <= number' + 1
        BY <2>3, <2>11, <3>1, <4>1 DEF next
      <4>3. InCtts'
        BY <1>2, <4>1, <4>2 DEF InCtts
      <4> QED BY <2>4, <2>8, <2>9, <2>11, <3>1, <4>1, <4>3
    <3> QED BY <3>2, <3>3
  <2> QED BY <2>5, <2>10, <2>11
<1> QED
  BY <1>7, <1>8

LEMMA KeyframeTypes ==
  ASSUME IInv, UnfoldSample
  PROVE  keyframe_index' \in 0..Len(track.stss) /\ IsKeyframe \in BOOLEAN
<1>1. /\ keyframe_index \in 0..Len(track.stss) /\ Len(track.stss) \in Nat
      /\ keyframe_index' = IF IsKeyframe THEN keyframe_index + 1 ELSE keyframe_index
  BY KeyframesOf DEF IInv, UnfoldSample, TypeOK
<1>2. IsKeyframe => keyframe_index < Len(track.stss)
  BY DEF IsKeyframe
<1>3. IsKeyframe \in BOOLEAN
  BY DEF IsKeyframe
<1> QED
  BY <1>1, <1>2, <1>3

(* The key frame cursor: stss grows, so what it points at is the first key  *)
(* frame not produced yet.                                                  *)
LEMMA KeyframesStep ==
  ASSUME IInv, UnfoldSample, LegalStss(track)
  PROVE  /\ InStss'
         /\ IsKeyframe <=> track.video /\ \E i \in 1..Len(track.stss) : track.stss[i] = number + 1
<1> DEFINE l == Len(track.stss)
           at == keyframe_index
           s == track.stss
<1>1. /\ IsTrack(track) /\ InStss /\ at \in 0..l
      /\ at' = IF IsKeyframe THEN at + 1 ELSE at
  BY DEF IInv, Cursors, UnfoldSample, TypeOK
<1>2. track' = track /\ number' = number + 1 /\ number \in Nat
  <2>1. number \in Nat
    BY <1>1, SumsOf DEF IInv, TypeOK
  <2> QED BY <2>1, Appended
<1>3. /\ l \in Nat /\ \A i \in 1..l : s[i] \in Nat
      /\ \A i, j \in 1..l : i < j => s[i] < s[j]
  BY <1>1, KeyframesOf
<1>4. track.video => \A i \in 1..l : i <= at <=> s[i] <= number
  BY <1>1 DEF InStss
<1>5. IsKeyframe <=> track.video /\ at < l /\ s[at + 1] = number + 1
  BY DEF IsKeyframe
<1>6. InStss' <=> (track.video => \A i \in 1..l : i <= at' <=> s[i] <= number + 1)
  BY <1>2 DEF InStss
<1> HIDE DEF l, at, s
<1>7. ASSUME track.video, NEW i \in 1..l
      PROVE  /\ i <= at' <=> s[i] <= number + 1
             /\ s[i] = number + 1 => i = at + 1
  <2>1. i \in Nat /\ s[i] \in Nat /\ (i <= at <=> s[i] <= number)
    BY <1>3, <1>4, <1>7
  <2>2. CASE i <= at
    <3>1. s[i] <= number /\ i <= at'
      BY <1>1, <2>1, <2>2
    <3> QED BY <1>2, <2>1, <3>1
  <2>3. CASE i = at + 1
    <3>1. s[i] > number /\ at < l
      BY <1>1, <1>2, <1>3, <2>1, <2>3
    <3>2. IsKeyframe <=> s[i] = number + 1
      BY <1>5, <1>7, <2>3, <3>1
    <3>3. s[i] = number + 1 <=> s[i] <= number + 1
      BY <1>2, <2>1, <3>1
    <3>4. i <= at' <=> IsKeyframe
      BY <1>1, <2>3
    <3> QED BY <2>3, <3>2, <3>3, <3>4
  <2>4. CASE i > at + 1
    <3>1. at + 1 \in 1..l /\ at + 1 < i /\ ~(at + 1 <= at) /\ ~(i <= at')
      BY <1>1, <1>3, <2>1, <2>4
    <3>2. s[at + 1] < s[i] /\ s[at + 1] \in Nat /\ ~(s[at + 1] <= number)
      BY <1>3, <1>4, <1>7, <3>1
    <3> QED BY <1>2, <2>1, <3>1, <3>2
  <2> QED BY <1>1, <2>1, <2>2, <2>3, <2>4
<1>9. IsKeyframe <=> track.video /\ \E i \in 1..l : s[i] = number + 1
  <2>1. at < l => at + 1 \in 1..l
    BY <1>1, <1>3
  <2>2. ASSUME track.video, NEW i \in 1..l, s[i] = number + 1 PROVE at < l
    BY <1>1, <1>3, <1>7, <2>2
  <2> QED BY <1>5, <1>7, <2>1, <2>2
<1> QED
  BY <1>6, <1>7, <1>9 DEF l, at, s

LEMMA ChunkTypes ==
  ASSUME IInv, UnfoldSample
  PROVE  /\ chunk_run' \in 2..Len(track.stsc) /\ samples_per_chunk' \in Nat
         /\ current_chunk' \in 0..NChunks(track)
         /\ offset_in_current_chunk' \in Nat /\ sample_number_in_chunk' \in Nat
         /\ Offset \in Nat
         /\ pc' \in {"loop", "aborted"}
<1> DEFINE s == track.stsc
           l == Len(s)
<1>1. /\ IsTrack(track) /\ TypeOK /\ pc = "loop"
      /\ StayInChunk \/ NextChunk \/ NextRun
  BY DEF IInv, UnfoldSample, MoreToUnfold
<1>2. /\ number \in Nat /\ number + 1 \in 1..NSamples(track)
      /\ current_chunk \in Nat /\ current_chunk + 1 \in 1..NChunks(track)
  BY InsideAt
<1>3. /\ NChunks(track) \in Nat /\ l \in Nat
      /\ \A i \in 1..l : s[i].first \in Nat /\ s[i].per \in Nat
      /\ l > 0 => s[l].first > NChunks(track) + 1
      /\ track.chunk_offsets[current_chunk + 1] \in Nat
      /\ track.sample_size[number + 1] \in Nat
  BY <1>1, <1>2, ChunksOf, SumsOf
<1>4. /\ chunk_run \in 2..l /\ samples_per_chunk \in Nat
      /\ offset_in_current_chunk \in Nat /\ sample_number_in_chunk \in Nat
  BY <1>1 DEF TypeOK
<1>5. Offset \in Nat
  BY <1>3, <1>4 DEF Offset
<1>6. CASE StayInChunk
  BY <1>1, <1>2, <1>3, <1>4, <1>5, <1>6 DEF StayInChunk
<1>7. CASE NextChunk
  BY <1>1, <1>2, <1>3, <1>4, <1>5, <1>7 DEF NextChunk, LeavesChunk
<1>8. CASE NextRun
  <2>1. /\ current_chunk + 2 >= s[chunk_run].first /\ chunk_run' = chunk_run + 1
        /\ samples_per_chunk' = s[chunk_run].per /\ offset_in_current_chunk' = 0
        /\ current_chunk' = current_chunk + 1 /\ sample_number_in_chunk' = 0
        /\ pc' \in {"loop", "aborted"}
    BY <1>8 DEF NextRun, LeavesChunk
  <2>2. chunk_run \in 1..l /\ l > 0
    BY <1>3, <1>4
  <2>3. s[chunk_run].first \in Nat /\ s[chunk_run].per \in Nat
    BY <1>3, <2>2
  <2>4. chunk_run # l
    <3>1. s[l].first > NChunks(track) + 1
      BY <1>3, <2>2
    <3> QED BY <1>2, <1>3, <2>1, <2>3, <3>1
  <2> QED BY <1>2, <1>3, <1>4, <1>5, <2>1, <2>3, <2>4
<1> QED
  BY <1>1, <1>6, <1>7, <1>8

(* The chunk cursors. *)
LEMMA ChunksStep ==
  ASSUME IInv, UnfoldSample, LegalStsc(track)
  PROVE  /\ InStsc'
         /\ \A c \in 1..NChunks(track) : InRun(track.first, c, number + 1) =>
              Offset = track.chunk_offsets[c] + track.before[number + 1]
                         - track.before[track.first[c]]
         /\ (\A r \in 1..Len(track.stsc) : track.stsc[r].desc = 1) => pc' = "loop"
<1> DEFINE s == track.stsc
           l == Len(s)
           r == chunk_run - 1
           c == current_chunk + 1
           k == number + 1
           per == samples_per_chunk
           nth == sample_number_in_chunk
           off == offset_in_current_chunk
           first == track.first
           before == track.before
           sizes == track.sample_size
<1>1. /\ IsTrack(track) /\ TypeOK /\ InStsc /\ pc = "loop"
      /\ StayInChunk \/ NextChunk \/ NextRun
  BY DEF IInv, Cursors, UnfoldSample, MoreToUnfold
<1>2. track' = track /\ number' = number + 1
  BY Appended
<1>3. /\ number \in Nat /\ k \in 1..NSamples(track)
      /\ current_chunk \in Nat /\ c \in 1..NChunks(track)
  BY InsideAt
<1>4. /\ NSamples(track) \in Nat
      /\ \A i \in 1..(NSamples(track) + 1) : before[i] \in Nat
      /\ \A i \in 1..NSamples(track) : sizes[i] \in Nat /\ before[i + 1] = before[i] + sizes[i]
  BY <1>1, SumsOf
<1>5. /\ NChunks(track) \in Nat /\ l \in Nat /\ l >= 2
      /\ \A i \in 1..l : s[i].first \in Nat /\ s[i].per \in Nat
      /\ s[l].first > NChunks(track) + 1
      /\ \A i \in 1..(l - 1) : s[i].per > 0 /\ s[i].first < s[i + 1].first
      /\ \A i \in 1..NChunks(track) : track.chunk_offsets[i] \in Nat
      /\ \A i \in 1..(NChunks(track) + 1) : first[i] \in Nat
      /\ \A i \in 1..NChunks(track) : first[i] <= first[i + 1]
      /\ \A i \in 1..NChunks(track) : \A j \in 1..(l - 1) :
           s[j].first <= i /\ i < s[j + 1].first => first[i + 1] = first[i] + s[j].per
  BY <1>1, ChunksOf, RunsOf
<1>6. chunk_run \in 2..l /\ r \in 1..(l - 1) /\ r + 1 = chunk_run
  <2>1. chunk_run \in 2..l
    BY <1>1 DEF TypeOK
  <2> QED BY <1>5, <2>1
<1>7. /\ s[r].first <= c /\ c < s[chunk_run].first /\ per = s[r].per
      /\ nth < per /\ k = first[c] + nth /\ off = before[k] - before[first[c]]
      /\ nth \in Nat /\ off \in Nat
  BY <1>1 DEF TypeOK, InStsc
<1>8. first[c + 1] = first[c] + per
  BY <1>3, <1>5, <1>6, <1>7
<1>9. /\ first[c] \in Nat /\ first[c + 1] \in Nat /\ per \in Nat
      /\ c + 1 \in 1..(NChunks(track) + 1) /\ c \in Nat
  <2>1. c \in 1..(NChunks(track) + 1) /\ c + 1 \in 1..(NChunks(track) + 1) /\ r \in 1..l
    BY <1>3, <1>5, <1>6
  <2> QED BY <1>3, <1>5, <1>7, <2>1
<1>10. /\ before[k] \in Nat /\ before[k + 1] \in Nat /\ sizes[k] \in Nat
       /\ before[k + 1] = before[k] + sizes[k]
  <2>1. k \in 1..(NSamples(track) + 1) /\ k + 1 \in 1..(NSamples(track) + 1)
    BY <1>3, <1>4
  <2> QED BY <1>3, <1>4, <2>1
<1>11. before[first[c]] \in Nat
  <2>1. first[c] <= k
    BY <1>3, <1>7, <1>9
  <2>2. first[1] = 1 /\ \A i, j \in 1..(NChunks(track) + 1) : i <= j => first[i] <= first[j]
    BY <1>1, <1>5, RunsOf, Grows
  <2>3. 1 \in 1..(NChunks(track) + 1) /\ c \in 1..(NChunks(track) + 1) /\ 1 <= c
    BY <1>3, <1>5
  <2>4. 1 <= first[c]
    BY <2>2, <2>3
  <2>5. first[c] \in 1..(NSamples(track) + 1)
    BY <1>3, <1>4, <1>9, <2>1, <2>4
  <2> QED BY <1>4, <2>5
<1>12. /\ Offset = track.chunk_offsets[c] + off /\ Offset \in Nat
  <2>1. Offset = track.chunk_offsets[c] + off
    BY DEF Offset
  <2>2. track.chunk_offsets[c] \in Nat
    BY <1>3, <1>5
  <2> QED BY <1>7, <2>1, <2>2
<1>13. ASSUME NEW d \in 1..NChunks(track), InRun(first, d, k)
       PROVE  Offset = track.chunk_offsets[d] + before[k] - before[first[d]]
  <2>1. InRun(first, c, k)
    <3>1. first[c] <= k /\ k < first[c + 1]
      BY <1>7, <1>8, <1>9
    <3> QED BY <3>1 DEF InRun
  <2>2. k \in Nat
    BY <1>3
  <2>3. d = c
    BY <1>3, <1>5, <1>13, <2>1, <2>2, OneRun
  <2>4. track.chunk_offsets[c] \in Nat
    BY <1>3, <1>5
  <2> QED BY <1>7, <1>10, <1>11, <1>12, <2>3, <2>4
<1>14. InStsc' <=>
         /\ chunk_run' <= l
         /\ s[chunk_run' - 1].first <= current_chunk' + 1
         /\ current_chunk' + 1 < s[chunk_run'].first
         /\ per' = s[chunk_run' - 1].per
         /\ nth' < per'
         /\ current_chunk' = NChunks(track) => nth' = 0
         /\ k + 1 = first[current_chunk' + 1] + nth'
         /\ off' = before[k + 1] - before[first[current_chunk' + 1]]
  BY <1>2 DEF InStsc
<1>15. CASE StayInChunk
  <2>1. /\ nth + 1 < per /\ nth' = nth + 1 /\ off' = off + sizes[k]
        /\ chunk_run' = chunk_run /\ per' = per /\ current_chunk' = current_chunk /\ pc' = pc
    BY <1>15 DEF StayInChunk
  <2>2. off' = before[k + 1] - before[first[c]] /\ off' \in Nat /\ nth' \in Nat
        /\ k + 1 = first[c] + nth'
    BY <1>3, <1>7, <1>9, <1>10, <1>11, <2>1
  <2>3. current_chunk' # NChunks(track)
    BY <1>3, <1>5, <2>1
  <2>4. InStsc'
    BY <1>6, <1>7, <1>14, <2>1, <2>2, <2>3
  <2> QED BY <1>1, <1>13, <2>1, <2>4
<1>16. ASSUME LeavesChunk
       PROVE  /\ nth' = 0 /\ current_chunk' = c /\ current_chunk' \in 0..NChunks(track)
              /\ k + 1 = first[c + 1] /\ 0 = before[k + 1] - before[first[c + 1]]
  <2>1. nth + 1 >= per /\ nth' = 0 /\ current_chunk' = current_chunk + 1
    BY <1>16 DEF LeavesChunk
  <2>2. nth + 1 = per
    BY <1>7, <1>9, <2>1
  <2>3. k + 1 = first[c + 1]
    BY <1>3, <1>7, <1>8, <1>9, <2>2
  <2>4. before[first[c + 1]] = before[k + 1]
    BY <2>3
  <2> QED BY <1>3, <1>5, <1>10, <2>1, <2>3, <2>4
<1>17. CASE NextChunk
  <2>1. /\ LeavesChunk /\ off' = 0 /\ current_chunk + 2 < s[chunk_run].first
        /\ chunk_run' = chunk_run /\ per' = per /\ pc' = pc
    BY <1>17 DEF NextChunk
  <2>2. 0 < per /\ c + 1 < s[chunk_run].first /\ s[r].first <= c + 1
    <3>1. s[r].first \in Nat
      <4>1. r \in 1..l
        BY <1>5, <1>6
      <4> QED BY <1>5, <4>1
    <3> QED BY <1>3, <1>7, <1>9, <2>1, <3>1
  <2>3. k + 1 = first[c + 1] + 0
    BY <1>9, <1>16, <2>1
  <2>4. InStsc'
    BY <1>6, <1>7, <1>14, <1>16, <2>1, <2>2, <2>3
  <2> QED BY <1>1, <1>13, <2>1, <2>4
<1>18. CASE NextRun
  <2>1. /\ LeavesChunk /\ off' = 0 /\ current_chunk + 2 >= s[chunk_run].first
        /\ per' = s[chunk_run].per /\ chunk_run' = chunk_run + 1
        /\ pc' = IF current_chunk + 2 = s[chunk_run].first /\ s[chunk_run + 1].desc = 1
                 THEN "loop" ELSE "aborted"
    BY <1>18 DEF NextRun
  <2>2. s[chunk_run].first \in Nat /\ s[chunk_run].per \in Nat
    <3>1. chunk_run \in 1..l
      BY <1>5, <1>6
    <3> QED BY <1>5, <3>1
  <2>3. c + 1 = s[chunk_run].first /\ current_chunk + 2 = c + 1
    BY <1>3, <1>7, <2>1, <2>2
  <2>4. chunk_run # l
    <3>1. c + 1 <= NChunks(track) + 1
      BY <1>3, <1>5
    <3> QED BY <1>5, <1>9, <2>3, <3>1
  <2>5. chunk_run \in 1..(l - 1) /\ chunk_run + 1 \in 1..l /\ (chunk_run + 1) - 1 = chunk_run
        /\ chunk_run + 1 \in 2..(l + 1) /\ chunk_run + 1 <= l
    BY <1>5, <1>6, <2>4
  <2>6. s[chunk_run].per > 0 /\ c + 1 < s[chunk_run + 1].first
    BY <1>5, <2>3, <2>5
  <2>7. k + 1 = first[c + 1] + 0
    BY <1>9, <1>16, <2>1
  <2>8. InStsc'
    BY <1>9, <1>14, <1>16, <2>1, <2>2, <2>3, <2>5, <2>6, <2>7
  <2>9. (\A i \in 1..l : s[i].desc = 1) => pc' = "loop"
    BY <2>1, <2>3, <2>5
  <2> QED BY <1>13, <2>8, <2>9
<1> QED
  BY <1>1, <1>15, <1>17, <1>18

LEMMA UnfoldSampleHolds ==
  ASSUME IInv, UnfoldSample
  PROVE  IInv'
<1> DEFINE k == number + 1
           Entry == [timestamp : Nat, composition_offset : Nat, sample_size : Nat,
                     offset : Nat, keyframe : BOOLEAN]
           new == [timestamp |-> current_time, composition_offset |-> CompositionOffset,
                   sample_size |-> track.sample_size[k], offset |-> Offset,
                   keyframe |-> IsKeyframe]
<1>1. /\ IsTrack(track) /\ TypeOK /\ pc = "loop"
      /\ OffsetsRight /\ FieldsRight /\ Ending
      /\ samples' = Append(samples, new)
  BY DEF IInv, Cursors, UnfoldSample, MoreToUnfold
<1>2. /\ track' = track /\ entry' = entry /\ iii' = iii + 1
      /\ number' = k /\ k \in 0..NSamples(track)
      /\ number = Len(samples) /\ Len(samples') = k
      /\ \A j \in 1..number : samples'[j] = samples[j]
      /\ samples'[k].composition_offset = CompositionOffset
      /\ samples'[k].sample_size = track.sample_size[k]
      /\ samples'[k].offset = Offset
      /\ samples'[k].keyframe = IsKeyframe
  BY Appended
<1>3. number \in Nat /\ k \in 1..NSamples(track)
  BY InsideAt
<1>4. ASSUME NEW j \in 1..k PROVE j = k \/ j \in 1..number
  BY <1>3
<1>5. TypeOK'
  <2>1. samples' \in Seq(Entry)
    <3>1. samples \in Seq(Entry)
      BY <1>1 DEF TypeOK
    <3>2. /\ current_time \in Nat /\ CompositionOffset \in Nat /\ track.sample_size[k] \in Nat
          /\ Offset \in Nat /\ IsKeyframe \in BOOLEAN
      BY <1>1, <1>3, TimesStep, CompositionTypes, ChunkTypes, KeyframeTypes, SumsOf
    <3>3. new \in Entry
      BY <3>2
    <3> HIDE DEF new, Entry
    <3> QED BY <1>1, <3>1, <3>3
  <2>2. /\ current_time' \in Nat /\ entry \in 1..Len(track.stts)
        /\ iii + 1 \in 0..track.stts[entry].count
    BY TimesStep
  <2>3. /\ cur_ctts_entry' \in 1..(Len(track.ctts) + 1) /\ order_n' \in Nat
        /\ order_n' > 0 => HasComposition' /\ order_n' < track.ctts[cur_ctts_entry'].count
    BY CompositionTypes
  <2>4. keyframe_index' \in 0..Len(track.stss)
    BY KeyframeTypes
  <2>5. /\ chunk_run' \in 2..Len(track.stsc) /\ samples_per_chunk' \in Nat
        /\ current_chunk' \in 0..NChunks(track)
        /\ offset_in_current_chunk' \in Nat /\ sample_number_in_chunk' \in Nat
        /\ pc' \in {"loop", "done", "aborted", "outside"}
    BY ChunkTypes
  <2>6. entry \in 1..(Len(track.stts) + 1)
    BY <2>2
  <2> HIDE DEF Entry, k
  <2> QED BY <1>1, <1>2, <2>1, <2>2, <2>3, <2>4, <2>5, <2>6 DEF TypeOK, Entry
<1>6. OffsetsRight'
  <2> SUFFICES ASSUME LegalStsc(track), NEW j \in 1..k, NEW c \in 1..NChunks(track), InRun(track.first, c, j)
               PROVE  /\ samples'[j].offset = track.chunk_offsets[c] + track.before[j]
                                                - track.before[track.first[c]]
                      /\ samples'[j].sample_size = track.sample_size[j]
    BY <1>2 DEF OffsetsRight
  <2>1. CASE j = k
    BY <1>2, <2>1, ChunksStep
  <2>2. CASE j \in 1..number
    BY <1>1, <1>2, <2>2 DEF OffsetsRight
  <2> QED BY <1>4, <2>1, <2>2
<1>7. FieldsRight'
  <2> DEFINE Right(j, field, key) ==
        /\ LegalCtts(track) =>
             /\ \A e \in 1..Len(track.ctts) :
                  InRun(track.cttsAt, e, j) => field = track.ctts[e].delta
             /\ j >= track.cttsAt[Len(track.ctts) + 1] => field = 0
        /\ LegalStss(track) =>
             (key <=> track.video /\ \E i \in 1..Len(track.stss) : track.stss[i] = j)
  <2>1. \A j \in 1..number : Right(j, samples[j].composition_offset, samples[j].keyframe)
    BY <1>1, <1>2 DEF FieldsRight
  <2>2. Right(k, CompositionOffset, IsKeyframe)
    BY CompositionsStep, KeyframesStep
  <2>3. FieldsRight' <=>
          \A j \in 1..k : Right(j, samples'[j].composition_offset, samples'[j].keyframe)
    BY <1>2 DEF FieldsRight
  <2> HIDE DEF Right
  <2>4. ASSUME NEW j \in 1..k
        PROVE  Right(j, samples'[j].composition_offset, samples'[j].keyframe)
    <3>1. CASE j = k
      BY <1>2, <2>2, <3>1
    <3>2. CASE j \in 1..number
      BY <1>2, <2>1, <3>2
    <3> QED BY <1>4, <3>1, <3>2
  <2> QED BY <2>3, <2>4
<1>8. Ending'
  <2>1. /\ pc' \in {"loop", "aborted"}
        /\ LegalStsc(track) /\ (\A r \in 1..Len(track.stsc) : track.stsc[r].desc = 1) =>
             pc' = "loop"
    BY ChunkTypes, ChunksStep
  <2> QED BY <1>2, <2>1 DEF Ending
<1>9. /\ InStts' /\ TimesRight'
      /\ LegalCtts(track) => InCtts'
      /\ LegalStsc(track) => InStsc'
      /\ LegalStss(track) => InStss'
  BY TimesStep, CompositionsStep, ChunksStep, KeyframesStep
<1>10. IsTrack(track') /\ number' = Len(samples')
  BY <1>1, <1>2
<1> QED
  BY <1>2, <1>5, <1>6, <1>7, <1>8, <1>9, <1>10 DEF IInv, Cursors

(* Going on to the next entry of stts, or stopping, produces no sample. *)
LEMMA NextEntryHolds ==
  ASSUME IInv, NextEntry
  PROVE  IInv'
<1>1. /\ IsTrack(track) /\ TypeOK /\ Cursors /\ number = Len(samples)
      /\ OffsetsRight /\ TimesRight /\ FieldsRight
      /\ pc = "loop" /\ entry <= Len(track.stts) /\ iii = track.stts[entry].count
      /\ entry' = entry + 1 /\ iii' = 0
      /\ UNCHANGED <<track, number, current_time, keyframe_index, samples, pc>>
      /\ UNCHANGED <<chunk_run, samples_per_chunk, current_chunk, offset_in_current_chunk,
                     sample_number_in_chunk, cur_ctts_entry, order_n>>
  BY DEF IInv, NextEntry, chunks, composition
<1>2. Len(track.stts) \in Nat /\ entry \in 1..Len(track.stts)
      /\ entry + 1 \in 1..(Len(track.stts) + 1)
  BY <1>1, TimesOf DEF TypeOK
<1>3. /\ track.stts[entry].count \in Nat
      /\ track.sttsAt[entry + 1] = track.sttsAt[entry] + track.stts[entry].count
      /\ track.sttsAt[entry + 1] \in Nat
  BY <1>1, <1>2, TimesOf
<1>4. ASSUME entry + 1 <= Len(track.stts) PROVE 0 \in 0..track.stts[entry + 1].count
  <2>1. entry + 1 \in 1..Len(track.stts)
    BY <1>2, <1>4
  <2>2. track.stts[entry + 1].count \in Nat
    BY <1>1, <2>1, TimesOf
  <2> QED BY <2>2
<1>5. TypeOK'
  BY <1>1, <1>2, <1>4 DEF TypeOK, HasComposition
<1>6. InStts'
  <2>1. number + 1 = track.sttsAt[entry] + track.stts[entry].count
    BY <1>1 DEF Cursors, InStts
  <2>2. number + 1 = track.sttsAt[entry + 1] + 0
    BY <1>3, <2>1
  <2> QED BY <1>1, <2>2 DEF Cursors, InStts
<1>7. /\ (LegalCtts(track) => InCtts') /\ (LegalStsc(track) => InStsc')
      /\ (LegalStss(track) => InStss') /\ Ending'
  BY <1>1 DEF Cursors, InCtts, HasComposition, InStsc, InStss, Ending
<1>8. OffsetsRight' /\ TimesRight' /\ FieldsRight'
  <2>1. OffsetsRight'
    BY <1>1 DEF OffsetsRight
  <2>2. TimesRight'
    BY <1>1 DEF TimesRight
  <2>3. FieldsRight'
    BY <1>1 DEF FieldsRight
  <2> QED BY <2>1, <2>2, <2>3
<1> QED
  BY <1>1, <1>5, <1>6, <1>7, <1>8 DEF IInv, Cursors

(* An index is past its end only if the tables do not agree: the chunks     *)
(* hold fewer samples than stts gives, or there are fewer sizes.            *)
LEMMA OutsideOf ==
  ASSUME IInv, entry <= Len(track.stts), iii < track.stts[entry].count, ~Inside,
         LegalStsc(track)
  PROVE  ~Agree(track)
<1>1. IsTrack(track) /\ TypeOK /\ InStsc
  BY DEF IInv, Cursors
<1>2. number \in Nat /\ number < Given(track)
  BY AtSample
<1>3. NSamples(track) \in Nat /\ NChunks(track) \in Nat /\ current_chunk \in 0..NChunks(track)
      /\ Given(track) \in Nat /\ number \in 0..NSamples(track)
  BY <1>1, SumsOf, ChunksOf, WithinGiven DEF TypeOK
<1>4. CASE number >= NSamples(track)
  BY <1>2, <1>3, <1>4 DEF Agree
<1>5. CASE current_chunk >= NChunks(track)
  <2>1. current_chunk = NChunks(track)
    BY <1>3, <1>5
  <2>2. sample_number_in_chunk = 0 /\ number + 1 = track.first[NChunks(track) + 1] + 0
    BY <1>1, <2>1 DEF InStsc
  <2>3. track.first[NChunks(track) + 1] \in Nat
    <3>1. NChunks(track) + 1 \in 1..(NChunks(track) + 1)
      BY <1>3
    <3> QED BY <1>1, <3>1, RunsOf
  <2> QED BY <1>2, <1>3, <2>2, <2>3 DEF Agree
<1> QED
  BY <1>3, <1>4, <1>5 DEF Inside

LEMMA ReadOutsideHolds ==
  ASSUME IInv, ReadOutside
  PROVE  IInv'
<1>1. /\ IsTrack(track) /\ TypeOK /\ Cursors /\ number = Len(samples)
      /\ OffsetsRight /\ TimesRight /\ FieldsRight
      /\ pc' = "outside" /\ ~Inside
      /\ entry <= Len(track.stts) /\ iii < track.stts[entry].count
      /\ UNCHANGED <<track, number, current_time, keyframe_index, samples, entry, iii>>
      /\ UNCHANGED <<chunk_run, samples_per_chunk, current_chunk, offset_in_current_chunk,
                     sample_number_in_chunk, cur_ctts_entry, order_n>>
  BY DEF IInv, ReadOutside, MoreToUnfold, chunks, composition
<1>2. TypeOK'
  BY <1>1 DEF TypeOK, HasComposition
<1>3. /\ InStts' /\ (LegalCtts(track) => InCtts') /\ (LegalStsc(track) => InStsc')
      /\ (LegalStss(track) => InStss')
  BY <1>1 DEF Cursors, InStts, InCtts, HasComposition, InStsc, InStss
<1>4. Ending'
  <2>1. LegalStsc(track) => ~Agree(track)
    BY <1>1, OutsideOf
  <2> QED BY <1>1, <2>1 DEF Ending
<1>5. OffsetsRight' /\ TimesRight' /\ FieldsRight'
  <2>1. OffsetsRight'
    BY <1>1 DEF OffsetsRight
  <2>2. TimesRight'
    BY <1>1 DEF TimesRight
  <2>3. FieldsRight'
    BY <1>1 DEF FieldsRight
  <2> QED BY <2>1, <2>2, <2>3
<1> QED
  BY <1>1, <1>2, <1>3, <1>4, <1>5 DEF IInv, Cursors

LEMMA FinishHolds ==
  ASSUME IInv, Finish
  PROVE  IInv'
<1>1. /\ IsTrack(track) /\ TypeOK /\ Cursors /\ number = Len(samples)
      /\ OffsetsRight /\ TimesRight /\ FieldsRight
      /\ pc = "loop" /\ pc' = "done" /\ entry > Len(track.stts)
      /\ UNCHANGED <<track, number, current_time, keyframe_index, samples, entry, iii>>
      /\ UNCHANGED <<chunk_run, samples_per_chunk, current_chunk, offset_in_current_chunk,
                     sample_number_in_chunk, cur_ctts_entry, order_n>>
  BY DEF IInv, Finish, chunks, composition
<1>2. entry = Len(track.stts) + 1
  <2>1. Len(track.stts) \in Nat
    BY <1>1, TimesOf
  <2>2. entry \in 1..(Len(track.stts) + 1)
    BY <1>1 DEF TypeOK
  <2> QED BY <1>1, <2>1, <2>2
<1>3. TypeOK'
  BY <1>1 DEF TypeOK, HasComposition
<1>4. /\ InStts' /\ (LegalCtts(track) => InCtts') /\ (LegalStsc(track) => InStsc')
      /\ (LegalStss(track) => InStss')
  BY <1>1 DEF Cursors, InStts, InCtts, HasComposition, InStsc, InStss
<1>5. Ending'
  BY <1>1, <1>2 DEF Ending
<1>6. OffsetsRight' /\ TimesRight' /\ FieldsRight'
  <2>1. OffsetsRight'
    BY <1>1 DEF OffsetsRight
  <2>2. TimesRight'
    BY <1>1 DEF TimesRight
  <2>3. FieldsRight'
    BY <1>1 DEF FieldsRight
  <2> QED BY <2>1, <2>2, <2>3
<1> QED
  BY <1>1, <1>3, <1>4, <1>5, <1>6 DEF IInv, Cursors

(* Any track starts in the invariant. *)
LEMMA StartHolds ==
  ASSUME IsTrack(track), Start
  PROVE  IInv
<1> USE DEF Start
<1>1. /\ NSamples(track) \in Nat /\ NChunks(track) \in Nat
      /\ Len(track.stts) \in Nat /\ Len(track.ctts) \in Nat /\ Len(track.stss) \in Nat
      /\ Len(track.stsc) \in Nat
  BY SumsOf, TimesOf, CompositionsOf, KeyframesOf, ChunksOf
<1>2. /\ pc \in {"loop", "aborted", "outside"}
      /\ pc = "outside" <=> NoRuns
      /\ NoRuns <=> Len(track.stsc) < 2
      /\ pc = "aborted" => track.stsc[2].desc # 1 /\ 2 \in 1..Len(track.stsc)
  BY <1>1 DEF Begin, NoRuns
<1>3. samples_per_chunk \in Nat
  <2>1. ~NoRuns => 1 \in 1..Len(track.stsc)
    BY <1>1, <1>2
  <2>2. ~NoRuns => track.stsc[1].per \in Nat
    BY <2>1, ChunksOf
  <2> QED BY <2>2
<1>4. IF entry <= Len(track.stts) THEN iii \in 0..track.stts[entry].count ELSE iii = 0
  <2>1. 1 <= Len(track.stts) => track.stts[1].count \in Nat
    <3>1. 1 <= Len(track.stts) => 1 \in 1..Len(track.stts)
      BY <1>1
    <3> QED BY <3>1, TimesOf
  <2> QED BY <1>1, <2>1
<1>5. TypeOK
  <2>1. samples \in Seq([timestamp : Nat, composition_offset : Nat, sample_size : Nat,
                         offset : Nat, keyframe : BOOLEAN])
    OBVIOUS
  <2>2. /\ number \in 0..NSamples(track) /\ current_time \in Nat
        /\ keyframe_index \in 0..Len(track.stss)
        /\ pc # "outside" => chunk_run \in 2..Len(track.stsc)
        /\ current_chunk \in 0..NChunks(track)
        /\ offset_in_current_chunk \in Nat /\ sample_number_in_chunk \in Nat
        /\ cur_ctts_entry \in 1..(Len(track.ctts) + 1) /\ entry \in 1..(Len(track.stts) + 1)
        /\ order_n \in Nat /\ ~(order_n > 0)
        /\ pc \in {"loop", "done", "aborted", "outside"}
    BY <1>1, <1>2
  <2> HIDE DEF Start
  <2> QED BY <1>3, <1>4, <2>1, <2>2 DEF TypeOK
<1>6. InStts
  <2>1. track.sttsAt[1] = 1
    BY TimesOf
  <2> QED BY <2>1 DEF InStts
<1>7. InCtts
  <2>1. track.cttsAt[1] = 1
    BY CompositionsOf
  <2>2. ~(1 <= Len(track.ctts)) => Len(track.ctts) + 1 = 1
    BY <1>1
  <2> QED BY <2>1, <2>2 DEF InCtts, HasComposition
<1>8. ASSUME LegalStsc(track) PROVE InStsc /\ ~NoRuns
  <2>1. Len(track.stsc) >= 2
    BY <1>8, RunsOf
  <2>2. /\ track.stsc[1].first = 1 /\ track.first[1] = 1 /\ track.before[1] = 0
        /\ track.stsc[1].per > 0 /\ track.stsc[1].first < track.stsc[1 + 1].first
    <3>1. 1 \in 1..(Len(track.stsc) - 1)
      BY <1>1, <2>1
    <3> QED BY <1>8, <3>1, SumsOf, RunsOf
  <2> QED BY <1>1, <1>2, <2>1, <2>2 DEF InStsc
<1>9. LegalStss(track) => InStss
  <2>1. LegalStss(track) => \A i \in 1..Len(track.stss) : track.stss[i] \in Nat /\ track.stss[i] > 0
    BY KeyframesOf
  <2> QED BY <2>1 DEF InStss
<1>10. Ending
  BY <1>2, <1>8 DEF Ending
<1>11. number = Len(samples) /\ OffsetsRight /\ TimesRight /\ FieldsRight
  BY DEF OffsetsRight, TimesRight, FieldsRight
<1> QED
  BY <1>5, <1>6, <1>7, <1>8, <1>9, <1>10, <1>11 DEF IInv, Cursors

LEMMA NextHolds ==
  ASSUME IInv, [Next]_vars
  PROVE  IInv'
<1>1. CASE UnfoldSample
  BY <1>1, UnfoldSampleHolds
<1>2. CASE NextEntry
  BY <1>2, NextEntryHolds
<1>5. CASE ReadOutside
  BY <1>5, ReadOutsideHolds
<1>3. CASE Finish
  BY <1>3, FinishHolds
<1>4. CASE UNCHANGED vars
  <2>1. /\ UNCHANGED <<track, number, current_time, keyframe_index, samples, entry, iii, pc>>
        /\ UNCHANGED <<chunk_run, samples_per_chunk, current_chunk, offset_in_current_chunk,
                       sample_number_in_chunk, cur_ctts_entry, order_n>>
    BY <1>4 DEF vars, chunks, composition
  <2>2. TypeOK'
    BY <2>1 DEF IInv, TypeOK, HasComposition
  <2>3. Cursors'
    BY <2>1 DEF IInv, Cursors, InStts, InCtts, HasComposition, InStsc, InStss, Ending
  <2>4. OffsetsRight' /\ TimesRight' /\ FieldsRight'
    BY <2>1 DEF IInv, OffsetsRight, TimesRight, FieldsRight
  <2> QED BY <2>1, <2>2, <2>3, <2>4 DEF IInv
<1> QED
  BY <1>1, <1>2, <1>3, <1>4, <1>5 DEF Next
-----------------------------------------------------------------------------
(* Every cursor of _unfold is in the run of its table that the next sample  *)
(* is in, and the samples produced are those the tables mean.               *)
THEOREM Invariance == Spec => []IInv
<1>1. Init => IInv
  BY TracksAssumption, StartHolds DEF Init
<1>2. IInv /\ [Next]_vars => IInv'
  BY NextHolds
<1> QED
  BY <1>1, <1>2, PTL DEF Spec

(* Every cursor stays within its table, or one past its end. *)
THEOREM TypesHold == Spec => []TypeOK
<1>1. IInv => TypeOK
  BY DEF IInv
<1> QED
  BY <1>1, Invariance, PTL

(* When the pass is over, every sample had a size and a place in a chunk. *)
LEMMA AgreeAtEnd ==
  ASSUME IInv, pc = "done", LegalStsc(track)
  PROVE  Agree(track)
<1>1. IsTrack(track) /\ TypeOK /\ InStsc /\ entry = Len(track.stts) + 1 /\ pc # "outside"
  BY DEF IInv, Cursors, Ending
<1>2. number \in Nat /\ number = Given(track)
  BY <1>1, WithinGiven
<1> DEFINE c == current_chunk + 1
           n == NChunks(track)
<1>3. NSamples(track) \in Nat /\ n \in Nat /\ c \in 1..(n + 1) /\ number <= NSamples(track)
  BY <1>1, SumsOf, ChunksOf DEF TypeOK
<1>4. /\ \A i \in 1..(n + 1) : track.first[i] \in Nat
      /\ \A i \in 1..n : track.first[i] <= track.first[i + 1]
      /\ \A i, j \in 1..(n + 1) : i <= j => track.first[i] <= track.first[j]
  BY <1>1, <1>3, RunsOf, Grows
<1>5. number + 1 <= track.first[n + 1]
  <2>1. /\ number + 1 = track.first[c] + sample_number_in_chunk
        /\ current_chunk = n => sample_number_in_chunk = 0
        /\ current_chunk \in Nat /\ sample_number_in_chunk \in Nat
    BY <1>1, <1>3 DEF InStsc, TypeOK
  <2>2. CASE c = n + 1
    BY <1>3, <1>4, <2>1, <2>2
  <2>3. CASE c # n + 1
    <3> DEFINE r == chunk_run - 1
    <3>1. c \in 1..n /\ c + 1 \in 1..(n + 1) /\ n + 1 \in 1..(n + 1) /\ c + 1 <= n + 1
      BY <1>3, <2>3
    <3>2. r \in 1..(Len(track.stsc) - 1) /\ r + 1 = chunk_run
      <4>1. chunk_run \in 2..Len(track.stsc) /\ Len(track.stsc) \in Nat
        BY <1>1, ChunksOf DEF TypeOK
      <4> QED BY <4>1
    <3>3. /\ track.stsc[r].first <= c /\ c < track.stsc[r + 1].first
          /\ sample_number_in_chunk < track.stsc[r].per
      BY <1>1, <3>2 DEF InStsc
    <3>4. track.first[c + 1] = track.first[c] + track.stsc[r].per
      BY <1>1, <3>1, <3>2, <3>3, RunsOf
    <3>5. track.stsc[r].per \in Nat
      <4>1. r \in 1..Len(track.stsc)
        BY <1>1, <3>2, ChunksOf
      <4> QED BY <1>1, <4>1, ChunksOf
    <3> HIDE DEF r
    <3>6. number + 1 < track.first[c + 1]
      BY <1>4, <2>1, <3>1, <3>3, <3>4, <3>5
    <3>7. track.first[c + 1] <= track.first[n + 1]
      BY <1>4, <3>1
    <3> QED BY <1>2, <1>4, <3>1, <3>6, <3>7
  <2> QED BY <2>2, <2>3
<1>6. track.first[n + 1] \in Nat
  BY <1>3, <1>4
<1> QED
  BY <1>2, <1>3, <1>5, <1>6 DEF Agree

(* The tables are read inside as long as they agree, and to the end only if *)
(* they do.                                                                 *)
LEMMA IInvInTables == IInv => InTables
BY AgreeAtEnd DEF InTables, IInv, Cursors, Ending

THEOREM InTablesHolds == Spec => []InTables
BY IInvInTables, Invariance, PTL

(* Every sample is at the place the chunks and sizes give it. *)
THEOREM OffsetsRightHolds == Spec => []OffsetsRight
<1>1. IInv => OffsetsRight
  BY DEF IInv
<1> QED
  BY <1>1, Invariance, PTL

(* Every sample is at the time stts gives it. *)
THEOREM TimesRightHolds == Spec => []TimesRight
<1>1. IInv => TimesRight
  BY DEF IInv
<1> QED
  BY <1>1, Invariance, PTL

(* Every sample has the composition offset of ctts and the flag of stss. *)
THEOREM FieldsRightHolds == Spec => []FieldsRight
<1>1. IInv => FieldsRight
  BY DEF IInv
<1> QED
  BY <1>1, Invariance, PTL

(* With one sample description, _unfold passes its asserts and produces     *)
(* every sample that stts gives.                                            *)
LEMMA IInvComplete == IInv => Complete
<1>1. ASSUME IInv, pc = "done" PROVE Len(samples) = Given(track)
  BY <1>1, WithinGiven DEF IInv, Cursors, Ending
<1> QED
  BY <1>1 DEF Complete, IInv, Cursors, Ending

THEOREM CompleteHolds == Spec => []Complete
BY IInvComplete, Invariance, PTL
-----------------------------------------------------------------------------
(* Finalize.  A sample as it is gathered. *)
Info ==
  [timestamp : Nat, timescale : {x \in Nat \ {0} : Clock % x = 0}, offset : Nat,
   sample_size : Nat, composition_offset : Nat, video : BOOLEAN, keyframe : BOOLEAN]

(* The track being unfolded is the next of the parsed ones. *)
InHand ==
  /\ IsParsed(parsed)
  /\ unfolded \in Nat
  /\ phase \in {"unfold", "sort", "close", "ready"}
  /\ phase = "unfold" => unfolded < Len(parsed) /\ track = parsed[unfolded + 1]

StartsAtZero(s) == \E k \in 1..Len(s) : Time(s[k]) = 0

(* What is gathered has a first sample at time 0 ... *)
Gathered ==
  /\ gathered \in Seq(Info)
  /\ Len(gathered) > 0 => StartsAtZero(gathered)

(* ... which the sort puts before all others. *)
Sorted ==
  /\ movie \in [samples : Seq(Info), duration : Nat]
  /\ phase \in {"close", "ready"} =>
       /\ Len(movie.samples) > 0 => StartsAtZero(movie.samples)
       /\ \A i, j \in 1..Len(movie.samples) :
            i < j => ~Precedes(movie.samples[j], movie.samples[i])

Closed ==
  phase = "ready" =>
    \A i \in 1..Len(parsed) : Ticks(parsed[i].duration, parsed[i].timescale) <= movie.duration

(* The samples of kind v in s have increasing times. *)
InOrder(s, v) ==
  \A j, k \in 1..Len(s) : j < k /\ s[j].video = v /\ s[k].video = v => Time(s[j]) < Time(s[k])

(* The samples in s are of the first n tracks of t, those of each in order. *)
AsDecoded(s, t, n) ==
  /\ \A k \in 1..Len(s) : \E i \in 1..n : s[k].video = t[i].video
  /\ \A i \in 1..n : ~Repeats(t[i]) => InOrder(s, t[i].video)

(* Tracks are gathered one after the other, and merged by the sort. *)
Ordered ==
  /\ AsDecoded(gathered, parsed, unfolded)
  /\ phase # "unfold" => unfolded = Len(parsed)
  /\ phase \in {"close", "ready"} => Merges(movie.samples, gathered, parsed)

(* The inductive invariant of Finalize. *)
FIInv == IInv /\ InHand /\ Gathered /\ Sorted /\ Closed /\ Ordered

(* A second is a whole number of units of a track's timescale. *)
LEMMA ClockOf ==
  ASSUME NEW n \in Nat \ {0}, Clock % n = 0
  PROVE  Clock \div n \in Nat /\ Clock = n * (Clock \div n)
<1> DEFINE q == Clock \div n
<1>1. q \in Int /\ Clock = n * q + (Clock % n)
  BY ClockAssumption, Division
<1> HIDE DEF q
<1>2. Clock = n * q
  BY <1>1
<1>3. Clock \in Nat /\ Clock > 0
  BY ClockAssumption
<1>4. ~(q < 0)
  <2>1. q < 0 => n * q < 0
    BY <1>1
  <2> QED BY <1>2, <1>3, <2>1
<1> QED
  BY <1>1, <1>2, <1>4 DEF q

LEMMA TicksOf ==
  ASSUME NEW t \in Nat, NEW n \in Nat \ {0}, Clock % n = 0
  PROVE  Ticks(t, n) \in Nat /\ (t = 0 => Ticks(t, n) = 0) /\ t * Clock = Ticks(t, n) * n
<1> DEFINE q == Clock \div n
<1>1. q \in Nat /\ Clock = n * q
  BY ClockOf
<1>2. Ticks(t, n) = t * q
  BY DEF Ticks
<1> HIDE DEF q
<1>3. t * q \in Nat /\ (t = 0 => t * q = 0)
  BY <1>1
<1>4. t * (n * q) = (t * q) * n
  BY <1>1
<1> QED
  BY <1>1, <1>2, <1>3, <1>4

LEMMA ParsedOf ==
  ASSUME NEW p, IsParsed(p), NEW i \in 1..Len(p)
  PROVE  /\ Len(p) \in Nat
         /\ IsTrack(p[i]) /\ p[i].duration \in Nat
         /\ p[i].timescale \in Nat \ {0} /\ Clock % p[i].timescale = 0
BY DEF IsParsed, IsTimescale

(* A gathered sample has a time. *)
LEMMA TimeOf ==
  ASSUME NEW si \in Info
  PROVE  Time(si) \in Nat /\ (si.timestamp = 0 => Time(si) = 0)
<1>1. si.timestamp \in Nat /\ si.timescale \in Nat \ {0} /\ Clock % si.timescale = 0
  BY DEF Info
<1> QED
  BY <1>1, TicksOf DEF Time
-----------------------------------------------------------------------------
LEMMA FInitHolds == FInit => FIInv
<1> SUFFICES ASSUME FInit PROVE FIInv
  OBVIOUS
<1>1. IsParsed(parsed) /\ 1 \in 1..Len(parsed) /\ Len(parsed) \in Nat
  BY ParsedAssumption DEF FInit, IsParsed
<1>2. IInv
  <2>1. IsTrack(track) /\ Start
    BY <1>1, ParsedOf DEF FInit
  <2> QED BY <2>1, StartHolds
<1>3. InHand
  BY <1>1 DEF FInit, InHand
<1>4. <<>> \in Seq(Info) /\ Len(<<>>) = 0
  OBVIOUS
<1>5. Gathered
  BY <1>4 DEF FInit, Gathered
<1>6. Sorted
  <2>1. phase = "unfold" /\ movie = [samples |-> <<>>, duration |-> 0]
    BY DEF FInit
  <2> QED BY <1>4, <2>1 DEF Sorted
<1>7. Closed
  BY DEF FInit, Closed
<1>8. Ordered
  <2>1. gathered = <<>> /\ unfolded = 0 /\ phase = "unfold"
    BY DEF FInit
  <2>2. AsDecoded(<<>>, parsed, 0)
    BY DEF AsDecoded
  <2> QED BY <2>1, <2>2 DEF Ordered
<1> QED
  BY <1>2, <1>3, <1>5, <1>6, <1>7, <1>8 DEF FIInv

(* _unfold reads its track and writes none of the lists of finalize. *)
LEMMA UnfoldHolds ==
  ASSUME FIInv, Unfold
  PROVE  FIInv'
<1>1. IInv /\ InHand /\ Gathered /\ Sorted /\ Closed /\ Ordered
  BY DEF FIInv
<1>2. Next /\ parsed' = parsed /\ unfolded' = unfolded /\ gathered' = gathered
      /\ movie' = movie /\ phase' = phase
  BY DEF Unfold
<1>3. track' = track
  BY <1>2 DEF Next, UnfoldSample, ReadOutside, NextEntry, Finish
<1>4. IInv'
  BY <1>1, <1>2, NextHolds
<1>5. InHand'
  BY <1>1, <1>2, <1>3 DEF InHand
<1>6. Gathered'
  BY <1>1, <1>2 DEF Gathered, StartsAtZero
<1>7. Sorted'
  BY <1>1, <1>2 DEF Sorted, StartsAtZero
<1>8. Closed'
  BY <1>1, <1>2 DEF Closed
<1>9. Ordered'
  BY <1>1, <1>2 DEF Ordered
<1> QED
  BY <1>4, <1>5, <1>6, <1>7, <1>8, <1>9 DEF FIInv

(* The samples of a track, as they are gathered: the first one, if the      *)
(* track has any, at time 0.                                                *)
LEMMA InfosHold ==
  ASSUME FIInv, phase = "unfold"
  PROVE  LET more == [k \in 1..Len(samples) |-> SampleInfo(samples[k])] IN
           /\ Len(samples) \in Nat
           /\ \A k \in 1..Len(samples) : more[k] \in Info
           /\ Len(samples) > 0 => Time(more[1]) = 0
<1>1. IsParsed(parsed) /\ unfolded + 1 \in 1..Len(parsed) /\ track = parsed[unfolded + 1]
  BY DEF FIInv, InHand, IsParsed
<1>2. /\ track.timescale \in Nat \ {0} /\ Clock % track.timescale = 0
      /\ track.video \in BOOLEAN
  BY <1>1, ParsedOf DEF IsTrack
<1> DEFINE S == [timestamp : Nat, composition_offset : Nat, sample_size : Nat,
                 offset : Nat, keyframe : BOOLEAN]
<1>3. samples \in Seq(S)
  BY DEF FIInv, IInv, TypeOK
<1>4. Len(samples) > 0 => samples[1].timestamp = 0
  BY DEF FIInv, IInv, TimesRight
<1>5. ASSUME NEW k \in 1..Len(samples) PROVE SampleInfo(samples[k]) \in Info
  <2>1. samples[k] \in S
    BY <1>3, ElementOf, Zenon
  <2> QED BY <1>2, <2>1 DEF SampleInfo, Info
<1>6. Len(samples) \in Nat
  BY <1>3
<1>7. Len(samples) > 0 => Time(SampleInfo(samples[1])) = 0
  <2>1. Len(samples) > 0 => SampleInfo(samples[1]) \in Info
    BY <1>5, <1>6
  <2>2. SampleInfo(samples[1]).timestamp = samples[1].timestamp
    BY DEF SampleInfo
  <2> QED BY <1>4, <2>1, <2>2, TimeOf
<1> QED
  BY <1>5, <1>6, <1>7

LEMMA GatherHolds ==
  ASSUME FIInv, Gather
  PROVE  Gathered'
<1> DEFINE l == Len(samples)
           more == [k \in 1..l |-> SampleInfo(samples[k])]
           old == Len(gathered)
<1>1. phase = "unfold" /\ gathered' = gathered \o more
  BY DEF Gather
<1>2. gathered \in Seq(Info) /\ (old > 0 => StartsAtZero(gathered))
  BY DEF FIInv, Gathered
<1>3. /\ l \in Nat /\ \A k \in 1..l : more[k] \in Info
      /\ l > 0 => Time(more[1]) = 0
  BY <1>1, InfosHold
<1>4. more \in Seq(Info) /\ Len(more) = l
  BY <1>3
<1> HIDE DEF l, more
<1>5. /\ gathered' \in Seq(Info) /\ Len(gathered') = old + l /\ old \in Nat
      /\ \A k \in 1..old : gathered'[k] = gathered[k]
      /\ l > 0 => gathered'[old + 1] = more[1]
  <2>1. PICK g : g = gathered
    OBVIOUS
  <2>2. g \in Seq(Info) /\ Len(g) \in Nat
    BY <1>2, <2>1
  <2>3. /\ g \o more \in Seq(Info) /\ Len(g \o more) = Len(g) + l
        /\ \A k \in 1..Len(g) : (g \o more)[k] = g[k]
        /\ l > 0 => (g \o more)[Len(g) + 1] = more[1]
    BY <1>3, <1>4, <2>2
  <2> QED BY <1>1, <2>1, <2>2, <2>3
<1>6. ASSUME old + l > 0 PROVE \E k \in 1..(old + l) : Time(gathered'[k]) = 0
  <2>1. CASE old > 0
    <3>1. PICK k \in 1..old : Time(gathered[k]) = 0
      BY <1>2, <2>1 DEF StartsAtZero
    <3>2. k \in 1..(old + l) /\ gathered'[k] = gathered[k]
      BY <1>3, <1>5, <3>1
    <3> QED BY <3>1, <3>2
  <2>2. CASE old = 0
    <3>1. l > 0 /\ old + 1 \in 1..(old + l)
      BY <1>3, <1>6, <2>2
    <3> QED BY <1>3, <1>5, <3>1
  <2> QED BY <1>5, <2>1, <2>2
<1>7. Len(gathered') > 0 => \E k \in 1..Len(gathered') : Time(gathered'[k]) = 0
  BY <1>5, <1>6
<1> QED
  BY <1>5, <1>7 DEF Gathered, StartsAtZero

(* A place that a table covers is in one of its runs. *)
LEMMA RunOf ==
  ASSUME NEW f, NEW n \in Nat, \A i \in 1..(n + 1) : f[i] \in Nat,
         NEW k \in Nat, f[1] <= k, k < f[n + 1]
  PROVE  \E e \in 1..n : InRun(f, e, k)
<1> DEFINE S == {e \in 1..n : f[e] <= k}
<1>1. 1 \in 1..(n + 1) /\ n + 1 \in 1..(n + 1) /\ f[1] \in Nat /\ f[n + 1] \in Nat
  OBVIOUS
<1>2. n # 0
  BY <1>1
<1>3. 1 \in S
  BY <1>2
<1>4. PICK e \in S : \A i \in S : i <= e
  <2>1. S \subseteq Nat /\ S # {} /\ \A i \in S : i <= n
    BY <1>3
  <2> HIDE DEF S
  <2> QED BY <2>1, GreatestElement
<1>5. k < f[e + 1]
  <2>1. CASE e = n
    BY <2>1
  <2>2. CASE e # n
    <3>1. e + 1 \in 1..n /\ ~(e + 1 <= e)
      BY <2>2
    <3>2. e + 1 \notin S
      BY <1>4, <3>1
    <3>3. f[e + 1] \in Nat /\ ~(f[e + 1] <= k)
      BY <3>1, <3>2
    <3> QED BY <3>3
  <2> QED BY <2>1, <2>2
<1> QED
  BY <1>4, <1>5 DEF InRun

(* Without zero durations the samples of a track have different times. *)
LEMMA TimesIncrease ==
  ASSUME IInv, ~Repeats(track)
  PROVE  \A j, k \in 1..Len(samples) : j < k => samples[j].timestamp < samples[k].timestamp
<1> DEFINE n == Len(samples)
           t == [k \in 1..n |-> samples[k].timestamp]
           S == [timestamp : Nat, composition_offset : Nat, sample_size : Nat,
                 offset : Nat, keyframe : BOOLEAN]
<1>1. IsTrack(track) /\ samples \in Seq(S) /\ n = number /\ TimesRight
  BY DEF IInv, TypeOK
<1>2. n \in Nat /\ Given(track) \in Nat /\ n <= Given(track)
  BY <1>1, WithinGiven
<1>3. ASSUME NEW k \in 1..n PROVE t[k] \in Nat /\ t[k] = samples[k].timestamp
  <2>1. samples[k] \in S
    BY <1>1, ElementOf, Zenon
  <2> QED BY <2>1
<1>4. ASSUME NEW k \in 1..(n - 1) PROVE t[k] < t[k + 1]
  <2>1. k \in 1..n /\ k + 1 \in 1..n /\ k \in Nat /\ 1 <= k /\ k < Given(track) + 1
    BY <1>2
  <2>2. PICK e \in 1..Len(track.stts) : InRun(track.sttsAt, e, k)
    BY <1>1, <2>1, TimesOf, RunOf
  <2>3. samples[k + 1].timestamp = samples[k].timestamp + track.stts[e].delta
    BY <1>1, <2>2 DEF TimesRight
  <2>4. track.stts[e].delta \in Nat /\ track.stts[e].delta # 0
    BY <1>1, TimesOf DEF Repeats
  <2> QED BY <1>3, <2>1, <2>3, <2>4
<1> HIDE DEF t, n
<1>5. ASSUME NEW j \in 1..n, NEW k \in 1..n, j < k PROVE t[j] < t[k]
  <2>1. PICK m \in Nat : n = m + 1
    <3>1. n - 1 \in Nat /\ n = n - 1 + 1
      BY <1>2, <1>5
    <3> QED BY <3>1
  <2>2. \A i \in 1..(m + 1) : t[i] \in Nat
    BY <1>3, <2>1
  <2>3. \A i \in 1..m : t[i] < t[i + 1]
    BY <1>4, <2>1
  <2>4. \A i \in 1..m : t[i] <= t[i + 1]
    BY <2>2, <2>3
  <2>5. \A a, b \in 1..(m + 1) : a <= b => t[a] <= t[b]
    BY <2>2, <2>4, Grows
  <2>6. j \in 1..m /\ j + 1 \in 1..(m + 1) /\ k \in 1..(m + 1) /\ j + 1 <= k
    BY <1>5, <2>1
  <2>7. t[j + 1] <= t[k]
    BY <2>5, <2>6
  <2>8. t[j] < t[j + 1]
    BY <2>3, <2>6
  <2>9. t[j] \in Nat /\ t[j + 1] \in Nat /\ t[k] \in Nat
    BY <2>2, <2>6
  <2> QED BY <2>7, <2>8, <2>9
<1> QED
  BY <1>3, <1>5 DEF n

(* The order of times is that of time stamps. *)
LEMMA TicksGrow ==
  ASSUME NEW a \in Nat, NEW b \in Nat, a < b, NEW n \in Nat \ {0}, Clock % n = 0
  PROVE  Ticks(a, n) < Ticks(b, n)
<1> DEFINE q == Clock \div n
<1>1. q \in Nat /\ Clock = n * q /\ Clock > 0
  BY ClockOf, ClockAssumption
<1>2. Ticks(a, n) = a * q /\ Ticks(b, n) = b * q
  BY DEF Ticks
<1> HIDE DEF q
<1>3. q > 0
  <2>1. q = 0 => n * q = 0
    OBVIOUS
  <2> QED BY <1>1, <2>1
<1>4. PICK d \in Nat : b = a + d /\ d > 0
  <2>1. b - a \in Nat /\ b = a + (b - a) /\ b - a > 0
    OBVIOUS
  <2> QED BY <2>1
<1>5. b * q = a * q + d * q
  BY <1>1, <1>4
<1>6. d * q > 0
  BY <1>1, <1>3, <1>4
<1>7. a * q \in Nat /\ b * q \in Nat /\ d * q \in Nat
  BY <1>1, <1>4
<1> QED
  BY <1>2, <1>5, <1>6, <1>7

(* The two tracks of a movie are of different kinds. *)
LEMMA KindsDiffer ==
  ASSUME NEW p, IsParsed(p), NEW i \in 1..Len(p), NEW j \in 1..Len(p), i # j
  PROVE  p[i].video # p[j].video
<1>1. Len(p) \in 1..2 /\ (Len(p) = 2 => p[1].video /\ ~p[2].video)
  BY DEF IsParsed
<1>2. Len(p) = 2 /\ ((i = 1 /\ j = 2) \/ (i = 2 /\ j = 1))
  <2>1. PICK n \in 1..2 : n = Len(p)
    BY <1>1
  <2>2. i \in 1..n /\ j \in 1..n /\ i # j
    BY <2>1
  <2>3. n = 2 /\ ((i = 1 /\ j = 2) \/ (i = 2 /\ j = 1))
    BY <2>2
  <2> QED BY <2>1, <2>3
<1> QED
  BY <1>1, <1>2

(* What a track adds is of its kind only, and in the order of its samples. *)
LEMMA GatherOrders ==
  ASSUME FIInv, Gather
  PROVE  AsDecoded(gathered', parsed', unfolded')
<1> DEFINE l == Len(samples)
           more == [k \in 1..l |-> SampleInfo(samples[k])]
           old == Len(gathered)
           u == unfolded + 1
<1>1. /\ phase = "unfold" /\ gathered' = gathered \o more
      /\ parsed' = parsed /\ unfolded' = u
  BY DEF Gather
<1>2. /\ IsParsed(parsed) /\ unfolded \in Nat /\ u \in 1..Len(parsed) /\ track = parsed[u]
      /\ Len(parsed) \in Nat
  BY <1>1 DEF FIInv, InHand, IsParsed
<1>3. AsDecoded(gathered, parsed, unfolded)
  BY DEF FIInv, Ordered
<1>4. l \in Nat /\ \A k \in 1..l : more[k] \in Info
  BY <1>1, InfosHold
<1>5. more \in Seq(Info) /\ Len(more) = l
  BY <1>4
<1>6. \A k \in 1..l : more[k].video = parsed[u].video
  BY <1>2 DEF SampleInfo
<1>7. ASSUME ~Repeats(parsed[u]), NEW j \in 1..l, NEW k \in 1..l, j < k
      PROVE  Time(more[j]) < Time(more[k])
  <2>1. samples[j].timestamp < samples[k].timestamp
    BY <1>2, <1>7, TimesIncrease DEF FIInv
  <2>2. /\ more[j].timestamp = samples[j].timestamp /\ more[k].timestamp = samples[k].timestamp
        /\ more[j].timescale = track.timescale /\ more[k].timescale = track.timescale
    BY DEF SampleInfo
  <2>3. /\ more[j].timestamp \in Nat /\ more[k].timestamp \in Nat
        /\ track.timescale \in Nat \ {0} /\ Clock % track.timescale = 0
    <3>1. more[j] \in Info /\ more[k] \in Info
      BY <1>4
    <3> QED BY <2>2, <3>1 DEF Info
  <2> HIDE DEF more
  <2> QED BY <2>1, <2>2, <2>3, TicksGrow DEF Time
<1> HIDE DEF more
<1>8. PICK g \in Seq(Info) : g = gathered
  BY DEF FIInv, Gathered
<1> DEFINE h == g \o more
<1>9. /\ old \in Nat /\ old = Len(g) /\ Len(h) = old + l
      /\ \A k \in 1..old : h[k] = g[k]
      /\ \A k \in 1..(old + l) : k > old => k - old \in 1..l /\ h[k] = more[k - old]
  BY <1>4, <1>5, <1>8
<1>10. gathered' = h
  BY <1>1, <1>8
<1> HIDE DEF h, l, old
<1>11. ASSUME NEW k \in 1..(old + l)
       PROVE  IF k <= old THEN \E i \in 1..unfolded : h[k].video = parsed[i].video
                          ELSE h[k].video = parsed[u].video
  <2>1. CASE k <= old
    <3>1. k \in 1..old
      BY <1>9, <2>1
    <3>2. \E i \in 1..unfolded : g[k].video = parsed[i].video
      BY <1>3, <1>8, <1>9, <3>1 DEF AsDecoded
    <3> QED BY <1>9, <2>1, <3>1, <3>2
  <2>2. CASE ~(k <= old)
    <3>1. k > old
      BY <1>4, <1>9, <2>2
    <3> QED BY <1>6, <1>9, <2>2, <3>1
  <2> QED BY <2>1, <2>2
<1>12. ASSUME NEW k \in 1..(old + l) PROVE \E i \in 1..u : h[k].video = parsed[i].video
  <2>1. u \in 1..u /\ \A i \in 1..unfolded : i \in 1..u
    BY <1>2
  <2> HIDE DEF u
  <2> QED BY <1>11, <2>1
<1>13. ASSUME NEW i \in 1..u, ~Repeats(parsed[i]),
              NEW j \in 1..(old + l), NEW k \in 1..(old + l), j < k,
              h[j].video = parsed[i].video, h[k].video = parsed[i].video
       PROVE  Time(h[j]) < Time(h[k])
  <2>1. CASE i = u
    <3>1. ASSUME NEW m \in 1..(old + l), h[m].video = parsed[u].video PROVE m > old
      <4>1. ASSUME NEW e \in 1..unfolded PROVE parsed[e].video # parsed[u].video
        <5>1. e \in 1..Len(parsed) /\ e # u
          BY <1>2
        <5> QED BY <1>2, <5>1, KindsDiffer
      <4>2. ~(m <= old)
        BY <1>11, <3>1, <4>1
      <4> QED BY <1>4, <1>9, <4>2
    <3>2. j > old /\ k > old
      BY <1>13, <2>1, <3>1
    <3>3. /\ j - old \in 1..l /\ k - old \in 1..l /\ j - old < k - old
          /\ h[j] = more[j - old] /\ h[k] = more[k - old]
      BY <1>9, <1>13, <3>2
    <3> QED BY <1>7, <1>13, <2>1, <3>3
  <2>2. CASE i # u
    <3>1. i \in 1..unfolded /\ i \in 1..Len(parsed)
      BY <1>2, <2>2
    <3>2. parsed[i].video # parsed[u].video
      BY <1>2, <2>2, <3>1, KindsDiffer
    <3>3. j <= old /\ k <= old
      BY <1>11, <1>13, <3>2
    <3>4. j \in 1..old /\ k \in 1..old /\ h[j] = g[j] /\ h[k] = g[k]
      BY <1>9, <3>3
    <3>5. InOrder(g, parsed[i].video)
      BY <1>3, <1>8, <1>13, <3>1 DEF AsDecoded
    <3> QED BY <1>9, <1>13, <3>4, <3>5 DEF InOrder
  <2> QED BY <2>1, <2>2
<1>14. AsDecoded(h, parsed, u)
  BY <1>9, <1>12, <1>13 DEF AsDecoded, InOrder
<1> QED
  BY <1>1, <1>10, <1>14

(* A track can be started on at any time. *)
LEMMA StartImplies == IsTrack(track) /\ Start => IInv
BY StartHolds

LEMMA StartsAnew == (IsTrack(track) /\ Start)' => IInv'
BY StartImplies, PTL

(* The second track is unfolded as the first one was. *)
LEMMA NextTrackHolds ==
  ASSUME FIInv, NextTrack
  PROVE  FIInv'
<1>1. InHand /\ Sorted /\ Closed
  BY DEF FIInv
<1>2. /\ parsed' = parsed /\ unfolded' = unfolded + 1 /\ movie' = movie
      /\ phase = "unfold" /\ phase' = phase
      /\ unfolded + 1 < Len(parsed) /\ track' = parsed[unfolded + 2]
      /\ Gather
  BY DEF NextTrack, Gather
<1>3. IsParsed(parsed) /\ unfolded \in Nat /\ unfolded + 2 \in 1..Len(parsed)
  BY <1>1, <1>2 DEF InHand, IsParsed
<1>4. IInv'
  <2>1. IsTrack(track)'
    BY <1>2, <1>3, ParsedOf
  <2>2. Start'
    BY DEF NextTrack, Start
  <2> QED BY <2>1, <2>2, StartsAnew
<1>5. InHand'
  BY <1>1, <1>2, <1>3 DEF InHand
<1>6. Gathered'
  BY <1>2, GatherHolds
<1>7. Sorted'
  BY <1>1, <1>2 DEF Sorted
<1>8. Closed'
  BY <1>2 DEF Closed
<1>9. Ordered'
  <2>1. AsDecoded(gathered', parsed', unfolded')
    BY <1>2, GatherOrders
  <2> QED BY <1>2, <2>1 DEF Ordered
<1> QED
  BY <1>4, <1>5, <1>6, <1>7, <1>8, <1>9 DEF FIInv

(* A step that leaves the variables of SampleTable. *)
LEMMA TrackUnchanged ==
  ASSUME IInv, UNCHANGED vars
  PROVE  IInv' /\ track' = track
BY NextHolds DEF vars

LEMMA LastTrackHolds ==
  ASSUME FIInv, LastTrack
  PROVE  FIInv'
<1>1. InHand /\ Sorted /\ Closed
  BY DEF FIInv
<1>2. /\ parsed' = parsed /\ unfolded' = unfolded + 1 /\ movie' = movie
      /\ phase' = "sort" /\ UNCHANGED vars /\ Gather
  BY DEF LastTrack, Gather
<1>3. IInv'
  BY <1>2, TrackUnchanged DEF FIInv
<1>4. InHand'
  BY <1>1, <1>2 DEF InHand
<1>5. Gathered'
  BY <1>2, GatherHolds
<1>6. Sorted'
  BY <1>1, <1>2 DEF Sorted
<1>7. Closed'
  BY <1>2 DEF Closed
<1>8. Ordered'
  <2>1. AsDecoded(gathered', parsed', unfolded')
    BY <1>2, GatherOrders
  <2>2. unfolded' = Len(parsed')
    BY DEF LastTrack, Gather
  <2> QED BY <1>2, <2>1, <2>2 DEF Ordered
<1> QED
  BY <1>3, <1>4, <1>5, <1>6, <1>7, <1>8 DEF FIInv

(* The sort turns no two samples of a track around that have different      *)
(* times.                                                                   *)
LEMMA SortMerges ==
  ASSUME NEW g \in Seq(Info), NEW ts, Len(ts) \in Nat, AsDecoded(g, ts, Len(ts)),
         NEW p \in Orders(g),
         \A i, j \in DOMAIN g : i < j => ~Precedes(g[p[j]], g[p[i]])
  PROVE  Merges([k \in 1..Len(g) |-> g[p[k]]], g, ts)
<1> DEFINE n == Len(g)
           s == [k \in 1..n |-> g[p[k]]]
<1>1. n \in Nat /\ DOMAIN g = 1..n
  OBVIOUS
<1>2. p \in [1..n -> 1..n] /\ \A i, j \in 1..n : i < j => p[i] # p[j]
  BY <1>1 DEF Orders
<1>3. \A k \in 1..n : s[k] = g[p[k]]
  OBVIOUS
<1>4. s = [k \in DOMAIN g |-> g[p[k]]]
  BY <1>1
<1> HIDE DEF s
<1>5. ASSUME NEW i \in 1..Len(ts), ~Repeats(ts[i]), NEW j \in 1..n, NEW k \in 1..n,
             j < k, s[j].video = ts[i].video, s[k].video = ts[i].video
      PROVE  p[j] < p[k]
  <2>1. PICK a \in 1..n, b \in 1..n : a = p[j] /\ b = p[k]
    BY <1>2
  <2>2. a # b
    BY <1>2, <1>5, <2>1
  <2>3. ~(b < a)
    <3>1. ~Precedes(g[b], g[a])
      BY <1>1, <1>5, <2>1
    <3>2. b < a => Time(g[b]) < Time(g[a])
      <4>1. InOrder(g, ts[i].video)
        BY <1>5 DEF AsDecoded
      <4>2. g[a].video = ts[i].video /\ g[b].video = ts[i].video
        BY <1>3, <1>5, <2>1
      <4> QED BY <4>1, <4>2 DEF InOrder, n
    <3> QED BY <3>1, <3>2 DEF Precedes
  <2> QED BY <1>1, <2>1, <2>2, <2>3
<1> QED
  BY <1>1, <1>4, <1>5 DEF Merges, s

(* An order of n elements leaves none out: it is one to one from 1..n to    *)
(* itself.                                                                  *)
LEMMA OrderReaches ==
  ASSUME NEW n \in Nat, NEW p \in [1..n -> 1..n],
         \A i, j \in 1..n : i < j => p[i] # p[j],
         NEW k \in 1..n
  PROVE  \E i \in 1..n : p[i] = k
<1> DEFINE S == 1..n
<1>1. IsFiniteSet(S)
  BY FS_Interval
<1>2. p \in Injection(S, S)
  <2>1. ASSUME NEW i \in S, NEW j \in S, p[i] = p[j] PROVE i = j
    BY <2>1
  <2> QED BY <2>1 DEF Injection, IsInjective
<1> HIDE DEF S
<1>3. p \in Surjection(S, S)
  BY <1>1, <1>2, FS_Injection
<1> QED
  BY <1>3 DEF Surjection, S

(* The sort leaves no inversion and loses no sample, so the sample at time  *)
(* 0 is still there.                                                        *)
LEMMA SortHolds ==
  ASSUME FIInv, Sort
  PROVE  FIInv'
<1>1. InHand /\ Gathered /\ Sorted
  BY DEF FIInv
<1>2. /\ phase = "sort" /\ phase' = "close" /\ UNCHANGED vars
      /\ parsed' = parsed /\ unfolded' = unfolded /\ gathered' = gathered
  BY DEF Sort
<1>3. PICK g : g = gathered
  OBVIOUS
<1> DEFINE n == Len(g)
<1>4. g \in Seq(Info) /\ n \in Nat /\ DOMAIN g = 1..n /\ (n > 0 => StartsAtZero(g))
  BY <1>1, <1>3 DEF Gathered
<1>5. PICK p \in Orders(g) :
        /\ \A i, j \in DOMAIN g : i < j => ~Precedes(g[p[j]], g[p[i]])
        /\ movie' = [movie EXCEPT !.samples = [k \in DOMAIN g |-> g[p[k]]]]
  BY <1>3 DEF Sort
<1>6. p \in [1..n -> 1..n] /\ \A i, j \in 1..n : i < j => p[i] # p[j]
  BY <1>4, <1>5 DEF Orders
<1> DEFINE s == [k \in 1..n |-> g[p[k]]]
<1>7. \A k \in 1..n : s[k] = g[p[k]] /\ s[k] \in Info
  BY <1>4, <1>6
<1>8. s \in Seq(Info) /\ Len(s) = n
  BY <1>4, <1>7
<1>9. movie' = [samples |-> s, duration |-> movie.duration] /\ movie.duration \in Nat
  BY <1>1, <1>4, <1>5 DEF Sorted
<1> HIDE DEF n, s
<1>10. \A i, j \in 1..n : i < j => ~Precedes(s[j], s[i])
  BY <1>4, <1>5, <1>7
<1>11. ASSUME n > 0 PROVE StartsAtZero(s)
  <2>1. PICK k \in 1..n : Time(g[k]) = 0
    BY <1>4, <1>11 DEF StartsAtZero, n
  <2>2. PICK i \in 1..n : p[i] = k
    BY <1>4, <1>6, OrderReaches
  <2>3. i \in 1..Len(s) /\ Time(s[i]) = 0
    BY <1>7, <1>8, <2>1, <2>2
  <2> QED BY <2>3 DEF StartsAtZero
<1>12. movie'.samples = s /\ movie' \in [samples : Seq(Info), duration : Nat]
  BY <1>8, <1>9
<1>13. Sorted'
  <2>1. /\ Len(movie'.samples) > 0 => StartsAtZero(movie'.samples)
        /\ \A i, j \in 1..Len(movie'.samples) :
             i < j => ~Precedes(movie'.samples[j], movie'.samples[i])
    BY <1>8, <1>10, <1>11, <1>12
  <2> QED BY <1>12, <2>1 DEF Sorted
<1>14. IInv'
  BY <1>2, TrackUnchanged DEF FIInv
<1>15. InHand'
  BY <1>1, <1>2 DEF InHand
<1>16. Gathered'
  BY <1>1, <1>2 DEF Gathered
<1>17. Closed'
  BY <1>2 DEF Closed
<1>18. Ordered'
  <2>1. Ordered
    BY DEF FIInv
  <2>2. AsDecoded(g, parsed, Len(parsed)) /\ Len(parsed) \in Nat
    BY <1>1, <1>2, <1>3, <2>1 DEF Ordered, InHand, IsParsed
  <2>3. Merges(s, g, parsed)
    BY <1>4, <1>5, <2>2, SortMerges DEF s, n
  <2> QED BY <1>2, <1>3, <1>12, <2>1, <2>3 DEF Ordered
<1> QED
  BY <1>13, <1>14, <1>15, <1>16, <1>17, <1>18 DEF FIInv

(* The duration is that of a track, and of the other one if it is longer. *)
LEMMA CloseHolds ==
  ASSUME FIInv, Close
  PROVE  FIInv'
<1> DEFINE d(i) == Ticks(parsed[i].duration, parsed[i].timescale)
           n == Len(parsed)
           longest == IF n = 2 /\ d(1) < d(n) THEN d(n) ELSE d(1)
<1>1. InHand /\ Gathered /\ Sorted
  BY DEF FIInv
<1>2. /\ phase = "close" /\ phase' = "ready" /\ UNCHANGED vars
      /\ parsed' = parsed /\ unfolded' = unfolded /\ gathered' = gathered
      /\ movie' = [movie EXCEPT !.duration = longest]
  BY DEF Close
<1>3. IsParsed(parsed) /\ n \in 1..2
  BY <1>1 DEF InHand, IsParsed
<1>4. \A i \in 1..n : d(i) \in Nat
  BY <1>3, ParsedOf, TicksOf
<1> HIDE DEF d, n
<1>5. 1 \in 1..n /\ n \in 1..n /\ \A i \in 1..n : i = 1 \/ (i = n /\ n = 2)
  <2>1. CASE n = 1
    BY <2>1
  <2>2. CASE n = 2
    BY <2>2
  <2> QED BY <1>3, <2>1, <2>2
<1>6. longest \in Nat /\ \A i \in 1..n : d(i) <= longest
  BY <1>4, <1>5
<1> HIDE DEF longest
<1>7. /\ movie' \in [samples : Seq(Info), duration : Nat]
      /\ movie'.samples = movie.samples /\ movie'.duration = longest
  BY <1>1, <1>2, <1>6 DEF Sorted
<1>8. Sorted'
  BY <1>1, <1>2, <1>7 DEF Sorted
<1>9. Closed'
  <2>1. \A i \in 1..Len(parsed) :
          Ticks(parsed[i].duration, parsed[i].timescale) <= movie'.duration
    BY <1>6, <1>7 DEF d, n
  <2> QED BY <1>2, <2>1 DEF Closed
<1>10. IInv'
  BY <1>2, TrackUnchanged DEF FIInv
<1>11. InHand'
  BY <1>1, <1>2 DEF InHand
<1>12. Gathered'
  BY <1>1, <1>2 DEF Gathered
<1>13. Ordered'
  BY <1>2, <1>7 DEF FIInv, Ordered
<1> QED
  BY <1>8, <1>9, <1>10, <1>11, <1>12, <1>13 DEF FIInv

LEMMA FNextHolds ==
  ASSUME FIInv, [FNext]_fvars
  PROVE  FIInv'
<1>1. CASE Unfold
  BY <1>1, UnfoldHolds
<1>2. CASE NextTrack
  BY <1>2, NextTrackHolds
<1>3. CASE LastTrack
  BY <1>3, LastTrackHolds
<1>4. CASE Sort
  BY <1>4, SortHolds
<1>5. CASE Close
  BY <1>5, CloseHolds
<1>6. CASE UNCHANGED fvars
  <2>1. /\ UNCHANGED vars /\ parsed' = parsed /\ unfolded' = unfolded
        /\ gathered' = gathered /\ movie' = movie /\ phase' = phase
    BY <1>6 DEF fvars
  <2>2. IInv' /\ track' = track
    BY <2>1, TrackUnchanged DEF FIInv
  <2>3. InHand'
    BY <2>1, <2>2 DEF FIInv, InHand
  <2>4. Gathered'
    BY <2>1 DEF FIInv, Gathered
  <2>5. Sorted'
    BY <2>1 DEF FIInv, Sorted
  <2>6. Closed'
    BY <2>1 DEF FIInv, Closed
  <2>7. Ordered'
    BY <2>1 DEF FIInv, Ordered
  <2> QED BY <2>2, <2>3, <2>4, <2>5, <2>6, <2>7 DEF FIInv
<1> QED
  BY <1>1, <1>2, <1>3, <1>4, <1>5, <1>6 DEF FNext

-----------------------------------------------------------------------------
(* In a movie of one or two tracks too, the cursors of _unfold are in their *)
(* runs, the list gathered holds a sample at time 0, the sort keeps it and  *)
(* puts the list in order, and the duration covers every track.             *)
THEOREM FInvariance == FSpec => []FIInv
<1>1. FInit => FIInv
  BY FInitHolds
<1>2. FIInv /\ [FNext]_fvars => FIInv'
  BY FNextHolds
<1> QED
  BY <1>1, <1>2, PTL DEF FSpec

(* The types of _unfold's cursors hold for each track of a movie. *)
THEOREM EachTypesHold == FSpec => []TypeOK
<1>1. FIInv => TypeOK
  BY DEF FIInv, IInv
<1> QED
  BY <1>1, FInvariance, PTL

(* Unfolding one track after the other, finalize indexes no size and no     *)
(* chunk past the end of its table when the tables agree, and is never done *)
(* with a track whose tables do not.                                        *)
THEOREM EachInTables == FSpec => []InTables
<1>1. FIInv => InTables
  BY IInvInTables DEF FIInv
<1> QED
  BY <1>1, FInvariance, PTL

(* The position of every sample of every track is the right one, ...        *)
THEOREM EachOffsetsRight == FSpec => []OffsetsRight
<1>1. FIInv => OffsetsRight
  BY DEF FIInv, IInv
<1> QED
  BY <1>1, FInvariance, PTL

(* ... so is its time, ... *)
THEOREM EachTimesRight == FSpec => []TimesRight
<1>1. FIInv => TimesRight
  BY DEF FIInv, IInv
<1> QED
  BY <1>1, FInvariance, PTL

(* ... and so are its composition offset and key frame flag. *)
THEOREM EachFieldsRight == FSpec => []FieldsRight
<1>1. FIInv => FieldsRight
  BY DEF FIInv, IInv
<1> QED
  BY <1>1, FInvariance, PTL

(* With one sample description and legal runs no track of the movie trips   *)
(* an assert of _unfold, and none loses a sample that stts gives.           *)
THEOREM EachComplete == FSpec => []Complete
<1>1. FIInv => Complete
  BY IInvComplete DEF FIInv
<1> QED
  BY <1>1, FInvariance, PTL

(* At the end the invariant says what the caller relies on. *)
LEMMA FIInvTimeline == FIInv => GivesTimeline
<1> SUFFICES ASSUME FIInv, phase = "ready" PROVE GivesTimeline
  BY DEF GivesTimeline
<1>1. PICK s : s = movie.samples
  OBVIOUS
<1> DEFINE n == Len(s)
           t == AsTimeline(s)
<1>2. /\ s \in Seq(Info) /\ n \in Nat /\ (n > 0 => StartsAtZero(s))
      /\ \A i, j \in 1..n : i < j => ~Precedes(s[j], s[i])
      /\ movie.duration \in Nat
  BY <1>1 DEF FIInv, Sorted
<1>3. t = [k \in 1..n |-> [time |-> Time(s[k]), size |-> s[k].sample_size,
                           video |-> s[k].video, keyframe |-> s[k].keyframe]]
  BY DEF AsTimeline
<1>4. ASSUME NEW k \in 1..n PROVE t[k] \in Sample /\ t[k].time = Time(s[k]) /\ Time(s[k]) \in Nat
  <2>1. s[k] \in Info
    BY <1>2, <1>4, ElementOf, Zenon
  <2>2. Time(s[k]) \in Nat
    BY <2>1, TimeOf
  <2>3. s[k].sample_size \in Nat /\ s[k].video \in BOOLEAN /\ s[k].keyframe \in BOOLEAN
    BY <2>1 DEF Info
  <2>4. t[k] = [time |-> Time(s[k]), size |-> s[k].sample_size,
                video |-> s[k].video, keyframe |-> s[k].keyframe]
    BY <1>3
  <2> QED BY <2>2, <2>3, <2>4 DEF Sample
<1>5. t \in Seq(Sample) /\ Len(t) = n
  BY <1>2, <1>3, <1>4
<1> HIDE DEF n, t
<1>6. ASSUME NEW j \in 1..n, NEW k \in 1..n, j <= k PROVE Time(s[j]) <= Time(s[k])
  <2>1. CASE j = k
    BY <1>4, <2>1
  <2>2. CASE j # k
    <3>1. j < k
      BY <1>2, <1>6, <2>2
    <3>2. ~(Time(s[k]) < Time(s[j]))
      BY <1>2, <3>1 DEF Precedes
    <3> QED BY <1>4, <3>2
  <2> QED BY <2>1, <2>2
<1>7. n > 0 => Time(s[1]) = 0
  <2> SUFFICES ASSUME n > 0 PROVE Time(s[1]) = 0
    OBVIOUS
  <2>1. PICK k \in 1..n : Time(s[k]) = 0
    BY <1>2 DEF StartsAtZero, n
  <2>2. 1 \in 1..n /\ 1 <= k
    BY <1>2
  <2> QED BY <1>4, <1>6, <2>1, <2>2
<1>8. IsTimeline(t)
  <2>1. \A j \in 1..n : \A k \in 1..n : j <= k => t[j].time <= t[k].time
    BY <1>4, <1>6
  <2>2. n > 0 => t[1].time = 0
    BY <1>2, <1>4, <1>7
  <2> QED BY <1>5, <2>1, <2>2 DEF IsTimeline
<1>9. ASSUME NEW i \in 1..Len(parsed)
      PROVE  parsed[i].duration * Clock <= movie.duration * parsed[i].timescale
  <2> DEFINE d == parsed[i].duration
             ts == parsed[i].timescale
             x == Ticks(d, ts)
             m == movie.duration
  <2>1. d \in Nat /\ ts \in Nat \ {0} /\ Clock % ts = 0
    BY ParsedOf DEF FIInv, InHand
  <2>2. x \in Nat /\ d * Clock = x * ts
    BY <2>1, TicksOf
  <2>3. x <= m /\ m \in Nat
    BY <1>2 DEF FIInv, Closed
  <2> HIDE DEF d, ts, x, m
  <2>4. x * ts <= m * ts
    BY <2>1, <2>2, <2>3
  <2>5. d * Clock <= m * ts
    BY <2>2, <2>4
  <2> QED BY <2>5 DEF d, ts, m
<1> QED
  BY <1>1, <1>2, <1>8, <1>9 DEF GivesTimeline, t

(* The list finalize returns satisfies what generate_fragments relies on,   *)
(* for any timescales that the clock can count.                             *)
THEOREM GivesTimelineHolds == FSpec => []GivesTimeline
BY FIInvTimeline, FInvariance, PTL

(* Sorting by time keeps all samples and turns no track around, whatever    *)
(* the order of its chunks in the file, unless its table repeats times.     *)
THEOREM KeepsOrderHolds == FSpec => []KeepsOrder
<1>1. FIInv => KeepsOrder
  BY DEF FIInv, Ordered, KeepsOrder
<1> QED
  BY <1>1, FInvariance, PTL
=============================================================================
