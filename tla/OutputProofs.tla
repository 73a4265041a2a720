---------------------------- MODULE OutputProofs ----------------------------
(***************************************************************************)
(* Proofs about cutting a movie and about what is made of its fragments.   *)
(*                                                                         *)
(* Fragmenter, for every movie and every requested duration: the inductive *)
(* invariant IInv adds to the checked invariants what ties the loop's      *)
(* variables to the fragments: timebase is the start of the open fragment  *)
(* and limit_ts is timestep later.                                         *)
(*                                                                         *)
(* Packager, for any sources, fragment durations, units and widths: the    *)
(* source in hand keeps the invariant of Fragmenter; what it says when a   *)
(* source is done is kept for each media of the list (IsCut), and the rows *)
(* of the table are those of the first media (RowsRight).                  *)
(*                                                                         *)
(* StaticFragments, for any movie and codec data: the sum that             *)
(* generate_fragments keeps is the bytes of the samples between two        *)
(* positions of the movie (Sized), and the file that is open is the        *)
(* beginning of what its fragment should give (Holds).                     *)
(***************************************************************************)
EXTENDS Packager, StaticFragments, NumberFacts, SequenceTheorems

(* The loop variables say where the open fragment starts and may end. *)
LoopVariables ==
  /\ timebase = StartTime(Len(fragments))
  /\ limit_ts = timebase + timestep

(* With a positive timestep the first sample, at time 0, cannot start a cut. *)
FirstHasSample == timestep > 0 /\ nsample > 0 => fragments[1].samples # <<>>

IInv ==
  /\ TypeOK
  /\ Lossless
  /\ StartsWithKey
  /\ LoopVariables
  /\ DurationsTile
  /\ CutAtFirstChance
  /\ FirstHasSample
  /\ pc = "done" => nsample = Len(Samples)
-----------------------------------------------------------------------------
(* The movie's samples are samples, in order, and their positions naturals. *)
LEMMA MovieFacts ==
  ASSUME TypeOK
  PROVE  /\ Samples \in Seq(Sample)
         /\ Len(Samples) \in Nat
         /\ \A j \in 1..Len(Samples) : Samples[j] \in Sample
         /\ \A j \in 1..Len(Samples) : \A k \in 1..Len(Samples) :
              j <= k => Samples[j].time <= Samples[k].time
         /\ Len(Samples) > 0 => Samples[1].time = 0
         /\ movie.duration \in Nat
         /\ timestep \in Nat
<1>1. movie \in Movies /\ timestep \in Timesteps
  BY DEF TypeOK
<1>2. IsTimeline(Samples) /\ movie.duration \in Nat
  BY <1>1, MoviesAssumption DEF Samples
<1>3. timestep \in Nat
  BY <1>1, TimestepsAssumption
<1>4. Samples \in Seq(Sample)
  BY <1>2 DEF IsTimeline
<1>5. Len(Samples) \in Nat /\ \A j \in 1..Len(Samples) : Samples[j] \in Sample
  BY <1>4
<1> QED
  BY <1>2, <1>3, <1>4, <1>5 DEF IsTimeline

(* Closing a fragment keeps its samples and its size. *)
LEMMA CloseKeepsSamples ==
  ASSUME NEW f \in Fragment, NEW d \in Int
  PROVE  /\ [f EXCEPT !.duration = d] \in Fragment
         /\ [f EXCEPT !.duration = d].duration = d
         /\ [f EXCEPT !.duration = d].samples = f.samples
         /\ [f EXCEPT !.duration = d].totalsize = f.totalsize
BY DEF Fragment

(* Positions of samples are naturals. *)
LEMMA EndIsNat == TypeOK => \A i \in 1..Len(fragments) : End(i) \in Nat
<1> SUFFICES ASSUME TypeOK, NEW i \in 1..Len(fragments) PROVE End(i) \in Nat
  OBVIOUS
<1>1. fragments[i] \in Fragment
  BY DEF TypeOK
<1>2. fragments[i].samples \in Seq(1..Len(Samples))
  BY <1>1 DEF Fragment
<1> QED
  BY <1>2, MovieFacts, LenProperties DEF End

(* What StartFragment does to the sequence of fragments. *)
LEMMA StartShape ==
  ASSUME TypeOK, StartFragment
  PROVE  LET n == Len(fragments) IN
         /\ Next_k \in 1..Len(Samples) /\ nsample' \in 0..Len(Samples)
         /\ fragments' \in Seq(Fragment) /\ Len(fragments') = n + 1
         /\ \A i \in 1..n : fragments'[i].samples = fragments[i].samples
         /\ \A i \in 1..(n - 1) : fragments'[i].duration = fragments[i].duration
         /\ fragments'[n].duration = Samples[Next_k].time - timebase
         /\ fragments'[n + 1].samples = <<Next_k>>
         /\ \A i \in 1..n : fragments'[i].totalsize = fragments[i].totalsize
         /\ fragments'[n + 1].totalsize = PacketSize(Samples[Next_k])
<1> DEFINE n == Len(fragments)
           k == Next_k
           d == Samples[k].time - timebase
           last == [fragments[n] EXCEPT !.duration = d]
           closed == [fragments EXCEPT ![n] = last]
           opened == AddSample(NewFragment, k)
<1>1. n \in Nat \ {0} /\ fragments \in Seq(Fragment) /\ fragments[n] \in Fragment
  BY DEF TypeOK
<1>2. k \in 1..Len(Samples) /\ nsample' = k /\ nsample' \in 0..Len(Samples)
  BY MovieFacts DEF TypeOK, StartFragment, Next_k
<1>3. Samples[k].time \in Nat /\ Samples[k].size \in Nat /\ d \in Int
  BY <1>2, MovieFacts DEF TypeOK, Sample
<1>4. /\ last \in Fragment /\ last.duration = d /\ last.samples = fragments[n].samples
      /\ last.totalsize = fragments[n].totalsize
  BY <1>1, <1>3, CloseKeepsSamples
<1>5. /\ closed \in Seq(Fragment) /\ Len(closed) = n
      /\ \A i \in 1..n : closed[i] = IF i = n THEN last ELSE fragments[i]
  <2> HIDE DEF last
  <2> QED BY <1>1, <1>4, ExceptSeq
<1>6. opened.samples = <<k>> /\ <<k>> \in Seq(1..Len(Samples))
  BY <1>2 DEF AddSample, NewFragment
<1>7. PacketSize(Samples[k]) \in Nat
  BY <1>3 DEF PacketSize
<1>8. opened \in Fragment /\ opened.totalsize = PacketSize(Samples[k])
  BY <1>3, <1>6, <1>7 DEF AddSample, NewFragment, Fragment
<1>9. fragments' = Append(closed, opened)
  BY DEF StartFragment, SetDuration
<1> HIDE DEF last, closed, opened, k, d
<1>10. /\ fragments' \in Seq(Fragment) /\ Len(fragments') = n + 1
       /\ \A i \in 1..n : fragments'[i] = closed[i]
       /\ fragments'[n + 1] = opened
  BY <1>1, <1>5, <1>8, <1>9, AppendProperties
<1>11. \A i \in 1..n : fragments'[i].samples = fragments[i].samples
  BY <1>4, <1>5, <1>10
<1>12. \A i \in 1..(n - 1) : fragments'[i].duration = fragments[i].duration
  BY <1>1, <1>5, <1>10
<1>13. fragments'[n].duration = d
  BY <1>1, <1>4, <1>5, <1>10
<1>14. \A i \in 1..n : fragments'[i].totalsize = fragments[i].totalsize
  BY <1>4, <1>5, <1>10
<1> QED
  BY <1>2, <1>6, <1>8, <1>10, <1>11, <1>12, <1>13, <1>14 DEF k, d

(* What ExtendFragment does to the sequence of fragments. *)
LEMMA ExtendShape ==
  ASSUME TypeOK, ExtendFragment
  PROVE  LET n == Len(fragments) IN
         /\ Next_k \in 1..Len(Samples) /\ nsample' \in 0..Len(Samples)
         /\ fragments' \in Seq(Fragment) /\ Len(fragments') = n
         /\ \A i \in 1..(n - 1) : fragments'[i] = fragments[i]
         /\ fragments'[n].samples = Append(fragments[n].samples, Next_k)
         /\ fragments'[n].totalsize = fragments[n].totalsize + PacketSize(Samples[Next_k])
<1> DEFINE n == Len(fragments)
           k == Next_k
           grown == AddSample(fragments[n], k)
<1>1. n \in Nat \ {0} /\ fragments \in Seq(Fragment) /\ fragments[n] \in Fragment
  BY DEF TypeOK
<1>2. k \in 1..Len(Samples) /\ nsample' = k /\ nsample' \in 0..Len(Samples)
  BY MovieFacts DEF TypeOK, ExtendFragment, Next_k
<1>3. Samples[k].time \in Nat /\ Samples[k].size \in Nat
  BY <1>2, MovieFacts DEF Sample
<1>4. PacketSize(Samples[k]) \in Nat
  BY <1>3 DEF PacketSize
<1>5. Append(fragments[n].samples, k) \in Seq(1..Len(Samples))
  BY <1>1, <1>2, AppendProperties DEF Fragment
<1>6. grown \in Fragment /\ grown.samples = Append(fragments[n].samples, k)
  BY <1>1, <1>3, <1>4, <1>5, SMTT(30) DEF AddSample, Fragment
<1>7. fragments' = [fragments EXCEPT ![n] = grown]
  BY DEF ExtendFragment
<1>9. grown.totalsize = fragments[n].totalsize + PacketSize(Samples[k])
  BY DEF AddSample
<1>8. /\ fragments' \in Seq(Fragment) /\ Len(fragments') = n
      /\ \A i \in 1..n : fragments'[i] = IF i = n THEN grown ELSE fragments[i]
  BY <1>1, <1>6, <1>7, ExceptSeq
<1> QED
  BY <1>1, <1>2, <1>6, <1>8, <1>9

(* What Finish does to the sequence of fragments. *)
LEMMA FinishShape ==
  ASSUME TypeOK, Finish
  PROVE  LET n == Len(fragments) IN
         /\ fragments' \in Seq(Fragment) /\ Len(fragments') = n
         /\ \A i \in 1..n : fragments'[i].samples = fragments[i].samples
         /\ \A i \in 1..(n - 1) : fragments'[i].duration = fragments[i].duration
         /\ fragments'[n].duration = movie.duration - timebase
         /\ \A i \in 1..n : fragments'[i].totalsize = fragments[i].totalsize
<1> DEFINE n == Len(fragments)
           d == movie.duration - timebase
           last == [fragments[n] EXCEPT !.duration = d]
<1>1. n \in Nat \ {0} /\ fragments \in Seq(Fragment) /\ fragments[n] \in Fragment
  BY DEF TypeOK
<1>2. d \in Int
  BY MovieFacts DEF TypeOK
<1>3. /\ last \in Fragment /\ last.duration = d /\ last.samples = fragments[n].samples
      /\ last.totalsize = fragments[n].totalsize
  BY <1>1, <1>2, CloseKeepsSamples
<1>4. fragments' = [fragments EXCEPT ![n] = last]
  BY DEF Finish, SetDuration
<1> HIDE DEF last, d
<1>5. /\ fragments' \in Seq(Fragment) /\ Len(fragments') = n
      /\ \A i \in 1..n : fragments'[i] = IF i = n THEN last ELSE fragments[i]
  BY <1>1, <1>3, <1>4, ExceptSeq
<1> QED
  BY <1>1, <1>3, <1>5 DEF d
-----------------------------------------------------------------------------
(* The invariant holds of the single empty fragment the loop starts from. *)
LEMMA InitInvariant == Init => IInv
<1> SUFFICES ASSUME Init PROVE IInv
  OBVIOUS
<1>1. fragments = <<NewFragment>> /\ NewFragment.samples = <<>>
  BY DEF Init, NewFragment
<1>2. NewFragment \in Fragment
  BY DEF NewFragment, Fragment
<1>3. TypeOK
  <2>1. Len(Samples) \in Nat
    BY MoviesAssumption DEF Init, Samples, IsTimeline
  <2> QED BY <1>1, <1>2, <2>1, TimestepsAssumption DEF Init, TypeOK
<1>4. Len(fragments) = 1 /\ fragments[1].samples = <<>>
  BY <1>1
<1>5. Lossless /\ StartsWithKey /\ LoopVariables
  BY <1>3, <1>4, TimestepsAssumption
  DEF Init, Lossless, StartsWithKey, LoopVariables, End, StartTime, TypeOK
<1>6. DurationsTile /\ CutAtFirstChance /\ FirstHasSample
  BY <1>4 DEF Init, DurationsTile, CutAtFirstChance, FirstHasSample
<1> QED
  BY <1>3, <1>5, <1>6 DEF IInv, Init

(* Starting a fragment: the closed one keeps its samples, the new one is <<k>>. *)
LEMMA StartKeepsInvariant == IInv /\ StartFragment => IInv'
<1> SUFFICES ASSUME IInv, StartFragment PROVE IInv'
  OBVIOUS
<1>a. TypeOK
  BY DEF IInv
<1>n. PICK n \in Nat \ {0} : n = Len(fragments)
  BY <1>a DEF TypeOK
<1>k. PICK k \in Nat : k = Next_k
  BY <1>a, StartShape, MovieFacts
<1>b. n \in Nat \ {0} /\ Len(fragments) = n /\ Len(fragments') = n + 1
  BY <1>a, <1>n, StartShape
<1>c. Samples' = Samples /\ movie' = movie /\ timestep' = timestep /\ Fragment' = Fragment
      /\ late' = late
  BY DEF StartFragment, inputs, Samples, Fragment
<1>d. /\ k \in 1..Len(Samples) /\ k = nsample + 1 /\ nsample' = k
      /\ Samples[k] \in Sample /\ CutsAt(Samples[k])
      /\ timebase' = Samples[k].time /\ limit_ts' = Samples[k].time + timestep
      /\ timestep \in Nat /\ pc = "fill" /\ pc' = "fill"
  BY <1>a, <1>k, StartShape, MovieFacts DEF StartFragment, Next_k
<1>e. Samples[k].time \in Nat /\ Samples[k].time >= limit_ts /\ IsKey(Samples[k])
  BY <1>a, <1>d DEF Sample, CutsAt, Reaches, TypeOK
<1>f. /\ \A i \in 1..n : fragments'[i].samples = fragments[i].samples
      /\ \A i \in 1..(n - 1) : fragments'[i].duration = fragments[i].duration
      /\ fragments'[n].duration = Samples[k].time - timebase
      /\ fragments'[n + 1].samples = <<k>>
  BY <1>a, <1>n, <1>k, StartShape
<1>g. /\ \A i \in 1..n : End(i)' = End(i)
      /\ End(n + 1)' = k
  BY <1>b, <1>d, <1>f DEF End
<1>h. /\ \A i \in 1..n : EndBefore(i)' = EndBefore(i)
      /\ EndBefore(n + 1)' = nsample
  <2>1. EndBefore(n + 1)' = End(n)'
    BY <1>b DEF EndBefore
  <2>2. End(n) = nsample
    BY <1>b, <1>n DEF IInv, Lossless
  <2> QED BY <1>b, <1>g, <2>1, <2>2 DEF EndBefore
<1>i. /\ \A i \in 1..n : StartTime(i)' = StartTime(i)
      /\ StartTime(n + 1)' = Samples[k].time
  BY <1>b, <1>c, <1>f DEF StartTime
<1>1. TypeOK'
  <2>1. fragments' \in Seq(Fragment) /\ Len(fragments') = n + 1
    BY <1>a, <1>b, StartShape
  <2> QED BY <1>a, <1>b, <1>c, <1>d, <1>e, <2>1 DEF TypeOK
<1>2. Lossless'
  <2>1. End(n + 1)' = nsample'
    BY <1>b, <1>d, <1>g
  <2>2. ASSUME NEW i \in 1..(n + 1), NEW j \in 1..Len(fragments'[i].samples)
        PROVE  fragments'[i].samples[j] = EndBefore(i)' + j
    <3>1. CASE i = n + 1
      BY <1>d, <1>f, <1>h, <3>1
    <3>2. CASE i \in 1..n
      BY <1>b, <1>f, <1>h, <3>2 DEF IInv, Lossless
    <3> QED BY <1>b, <3>1, <3>2
  <2> QED BY <1>b, <2>1, <2>2 DEF Lossless
<1>3. StartsWithKey'
  <2>1. ASSUME NEW i \in 2..(n + 1)
        PROVE  /\ fragments'[i].samples # <<>>
               /\ IsKey(Samples[fragments'[i].samples[1]])
    <3>1. CASE i = n + 1
      BY <1>e, <1>f, <3>1
    <3>2. CASE i \in 2..n
      BY <1>b, <1>f, <3>2 DEF IInv, StartsWithKey
    <3> QED BY <1>b, <3>1, <3>2
  <2> QED BY <1>b, <1>c, <2>1 DEF StartsWithKey, IsKey
<1>4. LoopVariables'
  BY <1>b, <1>c, <1>d, <1>i DEF LoopVariables
<1>5. DurationsTile'
  <2>1. timebase = StartTime(n)
    BY <1>b DEF IInv, LoopVariables
  <2>2. ASSUME NEW i \in 1..n
        PROVE  fragments'[i].duration = StartTime(i + 1)' - StartTime(i)'
    <3>1. CASE i = n
      BY <1>b, <1>f, <1>i, <2>1, <3>1
    <3>2. CASE i \in 1..(n - 1)
      BY <1>b, <1>f, <1>i, <3>2 DEF IInv, DurationsTile
    <3> QED BY <1>b, <3>1, <3>2
  <2> QED BY <1>b, <1>d, <2>2 DEF DurationsTile
<1>6. CutAtFirstChance'
  <2>1. ASSUME NEW i \in 1..n
        PROVE  fragments'[i].duration >= timestep
    <3>1. CASE i = n
      BY <1>b, <1>a, <1>d, <1>e, <1>f, <3>1 DEF IInv, LoopVariables, TypeOK
    <3>2. CASE i \in 1..(n - 1)
      BY <1>b, <1>f, <3>2 DEF IInv, CutAtFirstChance
    <3> QED BY <1>b, <3>1, <3>2
  <2>2. ASSUME NEW i \in 1..(n + 1), NEW j \in 1..Len(fragments'[i].samples),
               i = 1 \/ j > 1
        PROVE  LET si == Samples[fragments'[i].samples[j]] IN
               ~(IsKey(si) /\ Reaches(si.time, StartTime(i)' + timestep))
    <3>1. i # n + 1
      <4> SUFFICES ASSUME i = n + 1 PROVE FALSE
        OBVIOUS
      <4>1. j = 1 /\ i # 1
        BY <1>b, <1>f
      <4> QED BY <2>2, <4>1
    <3>2. i \in 1..n
      BY <1>b, <3>1
    <3> QED BY <1>b, <1>f, <1>i, <2>2, <3>2 DEF IInv, CutAtFirstChance
  <2> QED BY <1>b, <1>c, <2>1, <2>2 DEF CutAtFirstChance, IsKey, Reaches
<1>7. FirstHasSample'
  <2>1. ASSUME timestep > 0 PROVE fragments[1].samples # <<>>
    <3>1. CASE nsample > 0
      BY <2>1, <3>1 DEF IInv, FirstHasSample
    <3>2. CASE nsample = 0
      <4>1. k = 1 /\ Samples[k].time = 0
        BY <1>a, <1>d, <3>2, MovieFacts
      <4>2. timebase \in Nat /\ limit_ts = timebase + timestep
        BY <1>b, <1>a DEF IInv, LoopVariables, TypeOK
      <4> QED BY <1>d, <1>e, <2>1, <4>1, <4>2
    <3> QED BY <1>a, <3>1, <3>2, MovieFacts DEF TypeOK
  <2> QED BY <1>b, <1>c, <1>f, <2>1 DEF FirstHasSample
<1> QED
  BY <1>1, <1>2, <1>3, <1>4, <1>5, <1>6, <1>7, <1>d DEF IInv

(* Extending a fragment: only the last one changes, by one sample at its end. *)
LEMMA ExtendKeepsInvariant == IInv /\ ExtendFragment => IInv'
<1> SUFFICES ASSUME IInv, ExtendFragment PROVE IInv'
  OBVIOUS
<1>a. TypeOK
  BY DEF IInv
<1>n. PICK n \in Nat \ {0} : n = Len(fragments)
  BY <1>a DEF TypeOK
<1>k. PICK k \in Nat : k = Next_k
  BY <1>a, ExtendShape, MovieFacts
<1>s. PICK s \in Seq(1..Len(Samples)) : s = fragments[n].samples
  <2>1. fragments[n] \in Fragment
    BY <1>a, <1>n DEF TypeOK
  <2> QED BY <2>1 DEF Fragment
<1>b. Len(fragments) = n /\ Len(fragments') = n /\ n \in 1..n
  BY <1>a, <1>n, ExtendShape
<1>c. /\ Samples' = Samples /\ movie' = movie /\ timestep' = timestep /\ Fragment' = Fragment
      /\ late' = late
      /\ limit_ts' = limit_ts /\ timebase' = timebase /\ pc = "fill" /\ pc' = "fill"
  BY DEF ExtendFragment, inputs, Samples, Fragment
<1>d. /\ k \in 1..Len(Samples) /\ k = nsample + 1 /\ nsample' = k
      /\ Samples[k] \in Sample /\ ~CutsAt(Samples[k])
  BY <1>a, <1>k, ExtendShape, MovieFacts DEF ExtendFragment, Next_k
<1>e. /\ fragments' \in Seq(Fragment)
      /\ \A i \in 1..(n - 1) : fragments'[i] = fragments[i]
      /\ fragments'[n].samples = Append(s, k)
  BY <1>a, <1>n, <1>k, <1>s, ExtendShape
<1>f. /\ Len(s) \in Nat /\ Len(Append(s, k)) = Len(s) + 1
      /\ Append(s, k) # <<>>
      /\ Append(s, k)[Len(s) + 1] = k
      /\ \A j \in 1..Len(s) : Append(s, k)[j] = s[j]
  BY <1>d, AppendProperties
<1>g. /\ \A i \in 1..(n - 1) : End(i)' = End(i)
      /\ End(n)' = k
  BY <1>d, <1>e, <1>f DEF End
<1>h. \A i \in 1..n : EndBefore(i)' = EndBefore(i)
  BY <1>g, <1>n DEF EndBefore
<1>i. \A i \in 1..n : StartTime(i)' = StartTime(i)
  <2>1. CASE n = 1
    BY <2>1 DEF StartTime
  <2>2. CASE n > 1
    <3>1. s # <<>>
      BY <1>b, <1>s, <2>2 DEF IInv, StartsWithKey
    <3>2. Append(s, k)[1] = s[1]
      BY <1>f, <3>1
    <3>3. StartTime(n)' = StartTime(n)
      BY <1>c, <1>e, <1>s, <3>2 DEF StartTime
    <3>4. \A i \in 1..(n - 1) : StartTime(i)' = StartTime(i)
      BY <1>c, <1>e DEF StartTime
    <3> QED BY <3>3, <3>4
  <2> QED BY <2>1, <2>2
<1>1. TypeOK'
  BY <1>a, <1>b, <1>c, <1>d, <1>e DEF TypeOK
<1>2. Lossless'
  <2>1. \A j \in 1..Len(s) : s[j] = EndBefore(n) + j
    BY <1>b, <1>s DEF IInv, Lossless
  <2>2. EndBefore(n) + Len(s) = nsample
    <3>1. CASE s = <<>>
      <4>1. End(n) = 0 /\ nsample = 0 /\ Len(s) = 0
        BY <1>b, <1>s, <3>1 DEF IInv, Lossless, End
      <4>2. n = 1
        <5> SUFFICES ASSUME n # 1 PROVE FALSE
          OBVIOUS
        <5>1. n \in 2..Len(fragments)
          BY <1>b
        <5>2. fragments[n].samples # <<>>
          BY <5>1 DEF IInv, StartsWithKey
        <5> QED BY <1>s, <3>1, <5>2
      <4> QED BY <4>1, <4>2 DEF EndBefore
    <3>2. CASE s # <<>>
      <4>1. End(n) = nsample /\ End(n) = s[Len(s)]
        BY <1>b, <1>s, <3>2 DEF IInv, Lossless, End
      <4>2. Len(s) \in 1..Len(s)
        BY <1>f, <3>2
      <4> QED BY <2>1, <4>1, <4>2
    <3> QED BY <3>1, <3>2
  <2>3. ASSUME NEW i \in 1..n, NEW j \in 1..Len(fragments'[i].samples)
        PROVE  fragments'[i].samples[j] = EndBefore(i)' + j
    <3>1. CASE i \in 1..(n - 1)
      BY <1>b, <1>e, <1>h, <3>1 DEF IInv, Lossless
    <3>2. CASE i = n /\ j \in 1..Len(s)
      BY <1>b, <1>e, <1>f, <1>h, <2>1, <3>2
    <3>3. CASE i = n /\ j = Len(s) + 1
      <4>1. EndBefore(n) \in Int
        BY <1>a, <1>n, EndIsNat DEF EndBefore
      <4> QED BY <1>b, <1>d, <1>e, <1>f, <1>h, <2>2, <3>3, <4>1
    <3> QED BY <1>e, <1>f, <3>1, <3>2, <3>3
  <2> QED BY <1>b, <1>d, <1>g, <2>3 DEF Lossless
<1>3. StartsWithKey'
  <2>1. ASSUME NEW i \in 2..n
        PROVE  /\ fragments'[i].samples # <<>>
               /\ IsKey(Samples[fragments'[i].samples[1]])
    <3>1. fragments[i].samples # <<>> /\ IsKey(Samples[fragments[i].samples[1]])
      BY <1>b DEF IInv, StartsWithKey
    <3>2. CASE i = n
      <4>1. Append(s, k)[1] = s[1]
        BY <1>f, <1>s, <3>1, <3>2
      <4> QED BY <1>e, <1>f, <1>s, <3>1, <3>2, <4>1
    <3>3. CASE i \in 2..(n - 1)
      BY <1>e, <3>1, <3>3
    <3> QED BY <3>2, <3>3
  <2> QED BY <1>b, <1>c, <2>1 DEF StartsWithKey, IsKey
<1>4. LoopVariables'
  BY <1>b, <1>c, <1>i DEF IInv, LoopVariables
<1>5. DurationsTile'
  BY <1>b, <1>c, <1>e, <1>i DEF IInv, DurationsTile
<1>6. CutAtFirstChance'
  <2>1. ASSUME NEW i \in 1..n, NEW j \in 1..Len(fragments'[i].samples),
               i = 1 \/ j > 1
        PROVE  LET si == Samples[fragments'[i].samples[j]] IN
               ~(IsKey(si) /\ Reaches(si.time, StartTime(i)' + timestep))
    <3>1. CASE i \in 1..(n - 1)
      BY <1>b, <1>e, <1>i, <2>1, <3>1 DEF IInv, CutAtFirstChance
    <3>2. CASE i = n /\ j \in 1..Len(s)
      BY <1>b, <1>e, <1>f, <1>i, <1>s, <2>1, <3>2 DEF IInv, CutAtFirstChance
    <3>3. CASE i = n /\ j = Len(s) + 1
      <4>1. limit_ts = StartTime(n) + timestep
        BY <1>b DEF IInv, LoopVariables
      <4> QED BY <1>b, <1>d, <1>e, <1>f, <1>i, <3>3, <4>1 DEF CutsAt
    <3> QED BY <1>e, <1>f, <3>1, <3>2, <3>3
  <2>2. \A i \in 1..(n - 1) : fragments'[i].duration >= timestep
    BY <1>b, <1>e DEF IInv, CutAtFirstChance
  <2> QED BY <1>b, <1>c, <2>1, <2>2 DEF CutAtFirstChance, IsKey, Reaches
<1>7. FirstHasSample'
  <2>1. CASE n = 1
    BY <1>e, <1>f, <2>1 DEF FirstHasSample
  <2>2. CASE n > 1
    <3>1. nsample > 0
      <4>1. fragments[n].samples # <<>>
        BY <1>b, <2>2 DEF IInv, StartsWithKey
      <4>2. End(n) = s[Len(s)] /\ Len(s) \in 1..Len(s)
        BY <1>f, <1>s, <4>1 DEF End
      <4> QED BY <1>b, <4>2 DEF IInv, Lossless
    <3> QED BY <1>c, <1>e, <2>2, <3>1 DEF IInv, FirstHasSample
  <2> QED BY <2>1, <2>2
<1> QED
  BY <1>1, <1>2, <1>3, <1>4, <1>5, <1>6, <1>7, <1>c DEF IInv

(* Finishing only sets the duration of the last fragment. *)
LEMMA FinishKeepsInvariant == IInv /\ Finish => IInv'
<1> SUFFICES ASSUME IInv, Finish PROVE IInv'
  OBVIOUS
<1>a. TypeOK
  BY DEF IInv
<1>n. PICK n \in Nat \ {0} : n = Len(fragments)
  BY <1>a DEF TypeOK
<1>b. Len(fragments) = n /\ Len(fragments') = n /\ n \in 1..n
  BY <1>a, <1>n, FinishShape
<1>c. /\ Samples' = Samples /\ movie' = movie /\ timestep' = timestep /\ Fragment' = Fragment
      /\ late' = late
      /\ limit_ts' = limit_ts /\ timebase' = timebase /\ nsample' = nsample
      /\ nsample = Len(Samples) /\ pc' = "done"
  BY DEF Finish, inputs, Samples, Fragment
<1>d. /\ fragments' \in Seq(Fragment)
      /\ \A i \in 1..n : fragments'[i].samples = fragments[i].samples
      /\ \A i \in 1..(n - 1) : fragments'[i].duration = fragments[i].duration
      /\ fragments'[n].duration = movie.duration - timebase
  BY <1>a, <1>n, FinishShape
<1>e. \A i \in 1..n : End(i)' = End(i)
  BY <1>d DEF End
<1>f. \A i \in 1..n : EndBefore(i)' = EndBefore(i)
  BY <1>e, <1>n DEF EndBefore
<1>g. \A i \in 1..n : StartTime(i)' = StartTime(i)
  BY <1>c, <1>d DEF StartTime
<1>1. TypeOK'
  BY <1>a, <1>b, <1>c, <1>d DEF TypeOK
<1>2. Lossless'
  BY <1>b, <1>c, <1>d, <1>e, <1>f DEF IInv, Lossless
<1>3. StartsWithKey'
  BY <1>b, <1>c, <1>d DEF IInv, StartsWithKey, IsKey
<1>4. LoopVariables'
  BY <1>b, <1>c, <1>g DEF IInv, LoopVariables
<1>5. DurationsTile'
  BY <1>b, <1>c, <1>d, <1>g DEF IInv, DurationsTile, LoopVariables
<1>6. CutAtFirstChance'
  BY <1>b, <1>c, <1>d, <1>g, SMTT(30) DEF IInv, CutAtFirstChance, IsKey, Reaches
<1>7. FirstHasSample'
  BY <1>b, <1>c, <1>d DEF IInv, FirstHasSample
<1> QED
  BY <1>1, <1>2, <1>3, <1>4, <1>5, <1>6, <1>7, <1>c DEF IInv

(* A stuttering step changes nothing. *)
LEMMA StutterKeepsInvariant == IInv /\ UNCHANGED vars => IInv'
<1> SUFFICES ASSUME IInv, UNCHANGED vars PROVE IInv'
  OBVIOUS
<1>1. TypeOK'
  BY DEF IInv, vars, TypeOK, Fragment, Samples
<1>2. Lossless'
  BY DEF IInv, vars, Lossless, End, EndBefore
<1>3. StartsWithKey'
  BY DEF IInv, vars, StartsWithKey, IsKey, Samples
<1>4. LoopVariables'
  BY DEF IInv, vars, LoopVariables, StartTime, Samples
<1>5. DurationsTile'
  BY DEF IInv, vars, DurationsTile, End, EndBefore, StartTime, Samples
<1>6. CutAtFirstChance'
  BY DEF IInv, vars, CutAtFirstChance, IsKey, Reaches, StartTime, Samples
<1>7. FirstHasSample'
  BY DEF IInv, vars, FirstHasSample
<1> QED
  BY <1>1, <1>2, <1>3, <1>4, <1>5, <1>6, <1>7 DEF IInv, vars, Samples

(* The inductive invariant is one. *)
THEOREM Invariance == Spec => []IInv
<1>1. IInv /\ [Next]_vars => IInv'
  BY StartKeepsInvariant, ExtendKeepsInvariant, FinishKeepsInvariant,
     StutterKeepsInvariant DEF Next
<1> QED
  BY InitInvariant, <1>1, PTL DEF Spec

(* A fragment that follows another holds its key frame; the first one holds *)
(* the sample at time 0 as soon as a duration is asked for.                 *)
LEMMA NoneEmpty == IInv => NoEmptyFragment
<1> SUFFICES ASSUME IInv, pc = "done", timestep > 0, Samples # <<>>,
                    NEW i \in 1..Len(fragments)
             PROVE  fragments[i].samples # <<>>
  BY DEF NoEmptyFragment
<1>1. nsample > 0
  BY MovieFacts DEF IInv
<1>2. CASE i = 1
  BY <1>1, <1>2 DEF IInv, FirstHasSample
<1>3. CASE i # 1
  <2>1. i \in 2..Len(fragments)
    BY <1>3 DEF IInv, TypeOK
  <2> QED BY <2>1 DEF IInv, StartsWithKey
<1> QED
  BY <1>2, <1>3

(* The variables keep their types: positions stay within the movie.        *)
THEOREM TypeCorrect == Spec => []TypeOK
BY Invariance, PTL DEF IInv

(* generate_fragments loses, repeats and moves no sample.                  *)
THEOREM LosslessHolds == Spec => []Lossless
BY Invariance, PTL DEF IInv

(* Every fragment after the first starts with a video key frame.           *)
THEOREM StartsWithKeyHolds == Spec => []StartsWithKey
BY Invariance, PTL DEF IInv

(* The durations generate_fragments leaves tile the movie.                 *)
THEOREM DurationsTileHolds == Spec => []DurationsTile
BY Invariance, PTL DEF IInv

(* A fragment ends at the first key frame that allows it.                  *)
THEOREM CutAtFirstChanceHolds == Spec => []CutAtFirstChance
BY Invariance, PTL DEF IInv

(* With a positive duration Fragment::timestamp_ms always has a sample.    *)
THEOREM NoEmptyFragmentHolds == Spec => []NoEmptyFragment
BY Invariance, NoneEmpty, PTL

-----------------------------------------------------------------------------
(* Packager. *)

(* When fragments of the source in hand start: at key frames that reach the *)
(* limit of the one before, and at the first that does.                     *)
CutTimes ==
  /\ timestep \notin late
  /\ \A i \in 1..(Len(fragments) - 1) :
       /\ StartTime(i + 1) \in KeyTimes(movie)
       /\ Reaches(StartTime(i + 1), StartTime(i) + timestep)
  /\ \A i \in 1..Len(fragments) : StartTime(i) <= timebase
  /\ \A k \in (nsample + 1)..Len(Samples) : timebase <= Samples[k].time
  /\ timestep > 0 =>
       \A i \in 1..Len(fragments) : \A k \in 1..nsample :
         IsKey(Samples[k]) /\ Reaches(Samples[k].time, StartTime(i) + timestep) =>
           i < Len(fragments) /\ StartTime(i + 1) <= Samples[k].time

(* Time at which fragment i of a media starts. *)
Start(m, i) == IF i = 1 THEN 0 ELSE m.movie.samples[m.fragments[i].samples[1]].time

FragmentOf(mv) == [duration : Int, totalsize : Nat, samples : Seq(1..Len(mv.samples))]

(* What generate_fragments leaves of a movie. *)
IsCut(m) ==
  /\ m.movie \in Movies
  /\ m.fragments \in Seq(FragmentOf(m.movie)) /\ m.fragments # <<>>
  /\ \A i \in 1..Len(m.fragments) :
       m.fragments[i].samples # <<>> =>
         m.movie.samples[m.fragments[i].samples[1]].time = Start(m, i)
  /\ timestep > 0 /\ m.movie.samples # <<>> =>
       \A i \in 1..Len(m.fragments) : m.fragments[i].samples # <<>>
  /\ \A i \in 1..(Len(m.fragments) - 1) :
       /\ m.fragments[i].duration = Start(m, i + 1) - Start(m, i)
       /\ m.fragments[i].duration >= timestep
       /\ Start(m, i + 1) \in KeyTimes(m.movie)
       /\ Reaches(Start(m, i + 1), Start(m, i) + timestep)
  /\ m.fragments[Len(m.fragments)].duration = m.movie.duration - Start(m, Len(m.fragments))
  /\ timestep > 0 =>
       \A i \in 1..Len(m.fragments) : \A t \in KeyTimes(m.movie) :
         Reaches(t, Start(m, i) + timestep) => i < Len(m.fragments) /\ Start(m, i + 1) <= t

Row == [number : Nat, start : Int, duration : Int, discontinuity : BOOLEAN]

(* Row i of the table is that of fragment i of the first media. *)
RowRight(i) ==
  LET fr == FirstMedia.fragments[i] IN
  /\ fr.samples # <<>>
  /\ afrt[i].number = i
  /\ afrt[i].start = Timestamp_ms(FirstMedia, fr)
  /\ afrt[i].duration \in MsOfDuration(fr.duration)
  /\ afrt[i].discontinuity = (fr.duration = 0)
  /\ fr.duration = 0 => i = Total

RowsRight ==
  /\ afrt \in Seq(Row) /\ Len(afrt) <= Total
  /\ \A i \in 1..Len(afrt) : RowRight(i)

Stages == {"cutting", "table", "written", "failed", "crashed"}

Media == [movie : Movies,
          fragments : Seq([duration : Int, totalsize : Nat, samples : Seq(Nat)])]

PTypeOK ==
  /\ srcfiles \in Sources /\ below \in Truncations
  /\ medialist \in Seq(Media)
  /\ stage \in Stages

(* The sources before the one in hand are cut. *)
SourcesCut ==
  \A j \in 1..Len(medialist) : IsCut(medialist[j]) /\ medialist[j].movie = srcfiles[j]

PIInv ==
  /\ IInv /\ CutTimes
  /\ PTypeOK /\ SourcesCut
  /\ stage = "cutting" =>
       /\ afrt = <<>>
       /\ Len(medialist) < Len(srcfiles) /\ movie = srcfiles[Len(medialist) + 1]
  /\ stage # "cutting" => Len(medialist) = Len(srcfiles) /\ RowsRight
  /\ stage = "written" => Len(afrt) = Total
  /\ ManifestWritten
-----------------------------------------------------------------------------
(* Where fragments start after a cut. *)
LEMMA StartTimesAtCut ==
  ASSUME IInv, StartFragment, NEW n \in Nat, n = Len(fragments)
  PROVE  /\ Len(fragments') = n + 1
         /\ \A i \in 1..n : StartTime(i)' = StartTime(i)
         /\ StartTime(n + 1)' = Samples[Next_k].time
<1>1. TypeOK /\ Samples' = Samples
  BY DEF IInv, StartFragment, inputs, Samples
<1>2. /\ Len(fragments') = n + 1
      /\ \A i \in 1..n : fragments'[i].samples = fragments[i].samples
      /\ fragments'[n + 1].samples = <<Next_k>>
  BY <1>1, StartShape
<1>3. n # 0
  BY <1>1 DEF TypeOK
<1> QED
  BY <1>1, <1>2, <1>3 DEF StartTime

(* Other samples do not move them. *)
LEMMA StartTimesExtended ==
  ASSUME IInv, ExtendFragment, NEW n \in Nat, n = Len(fragments)
  PROVE  Len(fragments') = n /\ \A i \in 1..n : StartTime(i)' = StartTime(i)
<1>1. TypeOK /\ Samples' = Samples
  BY DEF IInv, ExtendFragment, inputs, Samples
<1>2. /\ Len(fragments') = n
      /\ \A i \in 1..(n - 1) : fragments'[i] = fragments[i]
      /\ fragments'[n].samples = Append(fragments[n].samples, Next_k)
      /\ Next_k \in 1..Len(Samples)
  BY <1>1, ExtendShape
<1>3. ASSUME NEW i \in 1..n, i # 1 PROVE StartTime(i)' = StartTime(i)
  <2>1. CASE i = n
    <3>1. fragments[n].samples # <<>> /\ fragments[n].samples \in Seq(1..Len(Samples))
      <4>1. fragments[n] \in Fragment /\ n \in 2..Len(fragments)
        BY <1>1, <1>3, <2>1 DEF TypeOK
      <4> QED BY <4>1 DEF IInv, StartsWithKey, Fragment
    <3>2. Append(fragments[n].samples, Next_k)[1] = fragments[n].samples[1]
      BY <1>2, <3>1, AppendProperties
    <3> QED BY <1>1, <1>2, <1>3, <2>1, <3>2 DEF StartTime
  <2>2. CASE i # n
    BY <1>1, <1>2, <2>2 DEF StartTime
  <2> QED BY <2>1, <2>2
<1> QED
  BY <1>2, <1>3 DEF StartTime

(* The first fragment starts at 0. *)
LEMMA CutTimesFirst == Init => CutTimes
<1> SUFFICES ASSUME Init PROVE CutTimes
  OBVIOUS
<1>1. TypeOK
  BY InitInvariant DEF IInv
<1>2. Len(fragments) = 1 /\ StartTime(1) = 0 /\ timebase = 0 /\ nsample = 0 /\ timestep \notin late
  BY DEF Init, StartTime
<1>3. \A k \in 1..Len(Samples) : 0 <= Samples[k].time
  BY <1>1, MovieFacts DEF Sample
<1> QED
  BY <1>1, <1>2, <1>3, MovieFacts DEF CutTimes

(* A cut is at a key frame, the first one that reaches the limit. *)
LEMMA StartKeepsCutTimes == IInv /\ CutTimes /\ StartFragment => CutTimes'
<1> SUFFICES ASSUME IInv, CutTimes, StartFragment PROVE CutTimes'
  OBVIOUS
<1>a. TypeOK /\ LoopVariables
  BY DEF IInv
<1>n. PICK n \in Nat \ {0} : n = Len(fragments)
  BY <1>a DEF TypeOK
<1>k. PICK k \in 1..Len(Samples) : k = Next_k
  BY <1>a, StartShape
<1>b. /\ Len(fragments) = n /\ Len(fragments') = n + 1
      /\ \A i \in 1..n : StartTime(i)' = StartTime(i)
      /\ StartTime(n + 1)' = Samples[k].time
  BY <1>n, <1>k, StartTimesAtCut
<1>c. /\ Samples' = Samples /\ movie' = movie /\ timestep' = timestep /\ late' = late
      /\ k = nsample + 1 /\ nsample' = k /\ timebase' = Samples[k].time
      /\ CutsAt(Samples[k])
  BY <1>k DEF StartFragment, inputs, Samples, Next_k
<1>d. /\ IsKey(Samples[k]) /\ Reaches(Samples[k].time, StartTime(n) + timestep)
      /\ timebase = StartTime(n)
  BY <1>a, <1>c, <1>b DEF CutsAt, LoopVariables
<1>e. /\ \A j \in 1..Len(Samples) : Samples[j].time \in Nat
      /\ \A i \in 1..Len(Samples) : \A j \in 1..Len(Samples) :
           i <= j => Samples[i].time <= Samples[j].time
      /\ timestep \in Nat /\ Len(Samples) \in Nat /\ timebase \in Nat /\ nsample \in Nat
  BY <1>a, MovieFacts, SMTT(30) DEF Sample, TypeOK
<1>f. timebase <= Samples[k].time
  BY <1>c, <1>e DEF CutTimes
<1>g. \A i \in 1..n : StartTime(i) <= timebase /\ StartTime(i) \in Nat
  <2> SUFFICES ASSUME NEW i \in 1..n, i # 1 PROVE StartTime(i) \in Nat
    BY <1>b DEF CutTimes, StartTime
  <2>1. StartTime(i - 1 + 1) \in KeyTimes(movie) /\ i - 1 + 1 = i
    BY <1>b DEF CutTimes
  <2> QED BY <1>e, <2>1 DEF KeyTimes, Samples
<1>1. timestep' \notin late'
  BY <1>c DEF CutTimes
<1>2. ASSUME NEW i \in 1..n
      PROVE  /\ StartTime(i + 1)' \in KeyTimes(movie)
             /\ Reaches(StartTime(i + 1)', StartTime(i)' + timestep)
  <2>1. CASE i = n
    BY <1>b, <1>d, <2>1 DEF KeyTimes, Samples
  <2>2. CASE i \in 1..(n - 1)
    BY <1>b, <2>2 DEF CutTimes
  <2> QED BY <2>1, <2>2
<1>3. \A i \in 1..(n + 1) : StartTime(i)' <= timebase'
  <2> SUFFICES ASSUME NEW i \in 1..(n + 1) PROVE StartTime(i)' <= timebase'
    OBVIOUS
  <2>1. CASE i = n + 1
    BY <1>b, <1>c, <1>e, <2>1
  <2>2. CASE i \in 1..n
    BY <1>b, <1>c, <1>e, <1>f, <1>g, <2>2
  <2> QED BY <2>1, <2>2
<1>4. \A j \in (nsample' + 1)..Len(Samples) : timebase' <= Samples[j].time
  BY <1>c, <1>e
<1>5. ASSUME timestep > 0, NEW i \in 1..(n + 1), NEW j \in 1..k,
             IsKey(Samples[j]), Reaches(Samples[j].time, StartTime(i)' + timestep)
      PROVE  i < n + 1 /\ StartTime(i + 1)' <= Samples[j].time
  <2>0. j \in 1..Len(Samples) /\ Samples[j].time \in Nat /\ Samples[j].time <= Samples[k].time
    BY <1>e
  <2>1. i \in 1..n
    <3> SUFFICES ASSUME i = n + 1 PROVE FALSE
      OBVIOUS
    <3>1. Samples[j].time >= Samples[k].time + timestep
      BY <1>b, <1>5, <1>e DEF Reaches
    <3> QED BY <2>0, <3>1, <1>5, <1>e
  <2>2. CASE i = n /\ j = k
    BY <1>b, <1>e, <2>2
  <2>3. CASE i < n /\ j = k
    <3>1. i + 1 \in 1..n
      BY <2>1, <2>3
    <3>2. StartTime(i + 1)' = StartTime(i + 1) /\ StartTime(i + 1) <= timebase
      BY <1>b, <1>g, <3>1
    <3> QED BY <1>e, <1>f, <1>g, <2>3, <3>1, <3>2
  <2>4. CASE j # k
    <3>1. j \in 1..nsample
      BY <1>c, <1>e, <2>4
    <3>2. i < n /\ StartTime(i + 1) <= Samples[j].time
      BY <1>b, <1>5, <2>1, <3>1 DEF CutTimes
    <3> QED BY <1>b, <2>1, <3>2
  <2> QED BY <2>1, <2>2, <2>3, <2>4
<1> QED
  BY <1>b, <1>c, <1>1, <1>2, <1>3, <1>4, <1>5 DEF CutTimes, IsKey, Reaches

(* A sample that does not cut reaches no limit but those of closed fragments. *)
LEMMA ExtendKeepsCutTimes == IInv /\ CutTimes /\ ExtendFragment => CutTimes'
<1> SUFFICES ASSUME IInv, CutTimes, ExtendFragment PROVE CutTimes'
  OBVIOUS
<1>a. TypeOK /\ LoopVariables
  BY DEF IInv
<1>n. PICK n \in Nat \ {0} : n = Len(fragments)
  BY <1>a DEF TypeOK
<1>k. PICK k \in 1..Len(Samples) : k = Next_k
  BY <1>a, ExtendShape
<1>b. /\ Len(fragments) = n /\ Len(fragments') = n
      /\ \A i \in 1..n : StartTime(i)' = StartTime(i)
  BY <1>n, StartTimesExtended
<1>c. /\ Samples' = Samples /\ movie' = movie /\ timestep' = timestep /\ late' = late
      /\ k = nsample + 1 /\ nsample' = k /\ timebase' = timebase
      /\ ~CutsAt(Samples[k])
  BY <1>k DEF ExtendFragment, inputs, Samples, Next_k
<1>d. ~(IsKey(Samples[k]) /\ Reaches(Samples[k].time, StartTime(n) + timestep))
  BY <1>a, <1>b, <1>c DEF CutsAt, LoopVariables
<1>e. /\ \A j \in 1..Len(Samples) : Samples[j].time \in Nat
      /\ timestep \in Nat /\ Len(Samples) \in Nat /\ timebase \in Nat /\ nsample \in Nat
  BY <1>a, MovieFacts, SMTT(30) DEF Sample, TypeOK
<1>f. timebase <= Samples[k].time
  BY <1>c, <1>e DEF CutTimes
<1>2. ASSUME NEW i \in 1..(n - 1)
      PROVE  /\ StartTime(i + 1)' \in KeyTimes(movie)
             /\ Reaches(StartTime(i + 1)', StartTime(i)' + timestep)
  BY <1>b DEF CutTimes
<1>3. \A i \in 1..n : StartTime(i)' <= timebase'
  BY <1>b, <1>c DEF CutTimes
<1>4. \A j \in (nsample' + 1)..Len(Samples) : timebase' <= Samples[j].time
  BY <1>c, <1>e DEF CutTimes
<1>5. ASSUME timestep > 0, NEW i \in 1..n, NEW j \in 1..k,
             IsKey(Samples[j]), Reaches(Samples[j].time, StartTime(i)' + timestep)
      PROVE  i < n /\ StartTime(i + 1)' <= Samples[j].time
  <2>1. CASE j = k
    <3>1. i # n
      BY <1>b, <1>d, <1>5, <2>1
    <3>2. i + 1 \in 1..n /\ i \in 1..(n - 1)
      BY <3>1
    <3>3. StartTime(i + 1)' = StartTime(i + 1) /\ StartTime(i + 1) <= timebase
      BY <1>b, <3>2 DEF CutTimes
    <3>4. StartTime(i + 1) \in Nat
      <4>1. StartTime(i + 1) \in KeyTimes(movie)
        BY <1>b, <3>2 DEF CutTimes
      <4> QED BY <1>e, <4>1 DEF KeyTimes, Samples
    <3> QED BY <1>e, <1>f, <2>1, <3>2, <3>3, <3>4
  <2>2. CASE j # k
    <3>1. j \in 1..nsample
      BY <1>c, <1>e, <2>2
    <3>2. i < n /\ StartTime(i + 1) <= Samples[j].time
      BY <1>b, <1>5, <3>1 DEF CutTimes
    <3> QED BY <1>b, <3>2
  <2> QED BY <2>1, <2>2
<1> QED
  BY <1>b, <1>c, <1>2, <1>3, <1>4, <1>5 DEF CutTimes, IsKey, Reaches

(* Setting the last duration moves nothing. *)
LEMMA FinishKeepsCutTimes == IInv /\ CutTimes /\ Finish => CutTimes'
<1> SUFFICES ASSUME IInv, CutTimes, Finish PROVE CutTimes'
  OBVIOUS
<1>n. PICK n \in Nat \ {0} : n = Len(fragments)
  BY DEF IInv, TypeOK
<1>1. /\ Len(fragments') = n
      /\ \A i \in 1..n : fragments'[i].samples = fragments[i].samples
  BY <1>n, FinishShape DEF IInv
<1>2. /\ Samples' = Samples /\ movie' = movie /\ timestep' = timestep /\ late' = late
      /\ nsample' = nsample /\ timebase' = timebase
  BY DEF Finish, inputs, Samples
<1>3. \A i \in 1..n : StartTime(i)' = StartTime(i)
  BY <1>1, <1>2 DEF StartTime
<1>4. \A i \in 1..(n - 1) :
        /\ StartTime(i + 1)' \in KeyTimes(movie)
        /\ Reaches(StartTime(i + 1)', StartTime(i)' + timestep)
  BY <1>n, <1>3 DEF CutTimes
<1>5. timestep > 0 =>
        \A i \in 1..n : \A k \in 1..nsample :
          IsKey(Samples[k]) /\ Reaches(Samples[k].time, StartTime(i)' + timestep) =>
            i < n /\ StartTime(i + 1)' <= Samples[k].time
  BY <1>n, <1>3 DEF CutTimes
<1>6. \A i \in 1..n : StartTime(i)' <= timebase'
  BY <1>n, <1>2, <1>3 DEF CutTimes
<1>7. timestep' \notin late' /\ \A k \in (nsample' + 1)..Len(Samples) : timebase' <= Samples[k].time
  BY <1>2 DEF CutTimes
<1> QED
  BY <1>1, <1>2, <1>4, <1>5, <1>6, <1>7 DEF CutTimes, IsKey, Reaches

(* Nor does a step of the manifest. *)
LEMMA StutterKeepsCutTimes == CutTimes /\ UNCHANGED vars => CutTimes'
<1> SUFFICES ASSUME CutTimes, UNCHANGED vars PROVE CutTimes'
  OBVIOUS
<1>1. /\ movie' = movie /\ timestep' = timestep /\ late' = late /\ fragments' = fragments
      /\ nsample' = nsample /\ timebase' = timebase /\ Samples' = Samples
  BY DEF vars, Samples
<1>2. KeyTimes(movie') = KeyTimes(movie)
  BY <1>1, Zenon
<1>3. \A i : StartTime(i)' = StartTime(i)
  BY <1>1, Zenon DEF StartTime
<1>4. \A now, limit : Reaches(now, limit)' <=> Reaches(now, limit)
  BY <1>1, Zenon DEF Reaches
<1> QED
  BY <1>1, <1>2, <1>3, <1>4, ZenonT(60) DEF CutTimes, Samples, IsKey

(* Cutting leaves what IsCut says. *)
LEMMA DoneIsCut ==
  ASSUME IInv, CutTimes, pc = "done"
  PROVE  IsCut([movie |-> movie, fragments |-> fragments])
<1> DEFINE m == [movie |-> movie, fragments |-> fragments]
<1>n. PICK n \in Nat \ {0} : n = Len(fragments)
  BY DEF IInv, TypeOK
<1>1. m.movie = movie /\ m.fragments = fragments /\ movie.samples = Samples
  BY DEF Samples
<1> HIDE DEF m
<1>2. \A i \in Int : Start(m, i) = StartTime(i)
  BY <1>1 DEF Start, StartTime
<1>3. TypeOK /\ nsample = Len(Samples) /\ Fragment = FragmentOf(movie)
  BY DEF IInv, Fragment, FragmentOf, Samples
<1>4. movie \in Movies /\ fragments \in Seq(FragmentOf(movie)) /\ fragments # <<>>
  BY <1>3 DEF TypeOK
<1>5. ASSUME NEW i \in 1..n, fragments[i].samples # <<>>
      PROVE  Samples[fragments[i].samples[1]].time = StartTime(i)
  <2>1. CASE i = 1
    <3>1. Lossless /\ fragments[1] \in Fragment
      BY <1>n, <1>3 DEF IInv, TypeOK
    <3>2. 1 \in 1..Len(fragments[1].samples)
      BY <3>1, <1>5, <2>1 DEF Fragment
    <3>3. fragments[1].samples[1] = 1 /\ 1 \in 1..Len(Samples)
      BY <1>n, <3>1, <3>2, <2>1 DEF Lossless, EndBefore, Fragment
    <3>4. Samples[1].time = 0
      BY <1>3, <3>3, MovieFacts
    <3> QED BY <2>1, <3>3, <3>4 DEF StartTime
  <2>2. CASE i # 1
    BY <2>2 DEF StartTime
  <2> QED BY <2>1, <2>2
<1>6. timestep > 0 /\ Samples # <<>> => \A i \in 1..n : fragments[i].samples # <<>>
  BY <1>n, NoneEmpty DEF NoEmptyFragment
<1>7. \A i \in 1..(n - 1) :
        /\ fragments[i].duration = StartTime(i + 1) - StartTime(i)
        /\ fragments[i].duration >= timestep
        /\ StartTime(i + 1) \in KeyTimes(movie)
        /\ Reaches(StartTime(i + 1), StartTime(i) + timestep)
  BY <1>n DEF IInv, DurationsTile, CutAtFirstChance, CutTimes
<1>8. fragments[n].duration = movie.duration - StartTime(n)
  BY <1>n DEF IInv, DurationsTile
<1>9. timestep > 0 =>
        \A i \in 1..n : \A t \in KeyTimes(movie) :
          Reaches(t, StartTime(i) + timestep) => i < n /\ StartTime(i + 1) <= t
  BY <1>n, <1>3 DEF CutTimes, KeyTimes, Samples
<1>10. \A i \in 1..n : fragments[i].samples # <<>> =>
          Samples[fragments[i].samples[1]].time = Start(m, i)
  BY <1>2, <1>5
<1>11. \A i \in 1..(n - 1) :
         /\ fragments[i].duration = Start(m, i + 1) - Start(m, i)
         /\ fragments[i].duration >= timestep
         /\ Start(m, i + 1) \in KeyTimes(movie)
         /\ Reaches(Start(m, i + 1), Start(m, i) + timestep)
  BY <1>2, <1>7
<1>12. fragments[n].duration = movie.duration - Start(m, n)
  BY <1>2, <1>8
<1>13. timestep > 0 =>
         \A i \in 1..n : \A t \in KeyTimes(movie) :
           Reaches(t, Start(m, i) + timestep) => i < n /\ Start(m, i + 1) <= t
  BY <1>2, <1>9
<1>14. IsCut(m)
  BY <1>n, <1>1, <1>4, <1>6, <1>10, <1>11, <1>12, <1>13 DEF IsCut
<1> QED
  BY <1>14 DEF m

(* It stays true of a media: the inputs it depends on do not change. *)
LEMMA StaysCut ==
  ASSUME NEW m, IsCut(m), timestep' = timestep, late' = late
  PROVE  IsCut(m)'
<1>1. \A t, l : Reaches(t, l)' <=> Reaches(t, l)
  BY DEF Reaches
<1>2. /\ \A i : Start(m, i)' = Start(m, i)
      /\ KeyTimes(m.movie)' = KeyTimes(m.movie) /\ FragmentOf(m.movie)' = FragmentOf(m.movie)
  BY DEF Start, KeyTimes, IsKey, FragmentOf
<1> QED
  BY <1>1, <1>2 DEF IsCut, Start, KeyTimes, IsKey, FragmentOf, Reaches
-----------------------------------------------------------------------------
(* The lists of sources hold movies, and are not empty. *)
LEMMA SourceFacts ==
  ASSUME PTypeOK
  PROVE  srcfiles \in Seq(Movies) /\ Len(srcfiles) \in Nat \ {0} /\ medialist \in Seq(Media)
<1>1. srcfiles \in Seq(Movies) /\ srcfiles # <<>>
  BY SourcesAssumption DEF PTypeOK
<1> QED
  BY <1>1 DEF PTypeOK

(* The first source is cut when the manifest starts. *)
LEMMA FirstIsCut ==
  ASSUME PIInv, stage # "cutting"
  PROVE  IsCut(FirstMedia) /\ FirstMedia.movie = srcfiles[1] /\ Total \in Nat \ {0}
<1>1. 1 \in 1..Len(medialist)
  BY SourceFacts DEF PIInv
<1>2. IsCut(FirstMedia) /\ FirstMedia.movie = srcfiles[1]
  BY <1>1 DEF PIInv, SourcesCut, FirstMedia
<1> QED
  BY <1>2 DEF IsCut, Total

LEMMA PInitInvariant == PInit => PIInv
<1> SUFFICES ASSUME PInit PROVE PIInv
  OBVIOUS
<1>1. IInv /\ CutTimes
  BY InitInvariant, CutTimesFirst DEF PInit
<1>2. PTypeOK
  BY DEF PInit, PTypeOK, Stages
<1>3. SourcesCut /\ Len(medialist) = 0
  BY DEF PInit, SourcesCut
<1> QED
  BY <1>1, <1>2, <1>3, SourceFacts DEF PIInv, PInit, ManifestWritten

(* The media of the list, and a media that is added to it. *)
LEMMA CollectKeeps ==
  ASSUME PIInv, stage = "cutting", pc = "done", medialist' = Collected,
         timestep' = timestep, late' = late, srcfiles' = srcfiles
  PROVE  medialist' \in Seq(Media) /\ Len(medialist') = Len(medialist) + 1 /\ SourcesCut'
<1> DEFINE m == [movie |-> movie, fragments |-> fragments]
<1>1. IsCut(m)
  BY DoneIsCut DEF PIInv
<1>2. m \in Media /\ m.movie = movie
  <2>1. movie \in Movies /\ fragments \in Seq(Fragment)
    BY DEF PIInv, IInv, TypeOK
  <2>2. \A s \in Seq(1..Len(Samples)) : s \in Seq(Nat)
    OBVIOUS
  <2>4. fragments \in Seq([duration : Int, totalsize : Nat, samples : Seq(Nat)])
    <3> DEFINE S == [duration : Int, totalsize : Nat, samples : Seq(Nat)]
    <3>1. Fragment \subseteq S
      BY <2>2 DEF Fragment
    <3> HIDE DEF S
    <3>2. fragments \in Seq(S)
      BY <2>1, <3>1
    <3> QED BY <3>2 DEF S
  <2> QED BY <2>1, <2>4 DEF Media
<1>3. medialist \in Seq(Media) /\ medialist' = Append(medialist, m)
  BY SourceFacts DEF PIInv, Collected
<1> HIDE DEF m
<1>4. /\ medialist' \in Seq(Media) /\ Len(medialist') = Len(medialist) + 1
      /\ \A j \in 1..Len(medialist) : medialist'[j] = medialist[j]
      /\ medialist'[Len(medialist) + 1] = m
  BY <1>2, <1>3, AppendProperties
<1>5. ASSUME NEW j \in 1..Len(medialist')
      PROVE  IsCut(medialist'[j]) /\ medialist'[j].movie = srcfiles[j]
  <2>1. CASE j \in 1..Len(medialist)
    BY <1>4, <2>1 DEF PIInv, SourcesCut
  <2>2. CASE j = Len(medialist) + 1
    BY <1>1, <1>2, <1>4, <2>2 DEF PIInv
  <2> QED BY <1>3, <1>4, <2>1, <2>2
<1>6. \A m1 : IsCut(m1) => IsCut(m1)'
  BY StaysCut
<1> QED
  BY <1>4, <1>5, <1>6 DEF SourcesCut

LEMMA CutKeepsPInvariant == PIInv /\ Cut => PIInv'
<1> SUFFICES ASSUME PIInv, Cut PROVE PIInv'
  OBVIOUS
<1>1. IInv' /\ CutTimes'
  BY StartKeepsInvariant, ExtendKeepsInvariant, FinishKeepsInvariant,
     StartKeepsCutTimes, ExtendKeepsCutTimes, FinishKeepsCutTimes DEF PIInv, Cut, Next
<1>2. /\ stage = "cutting" /\ movie' = movie /\ timestep' = timestep /\ late' = late
      /\ UNCHANGED <<srcfiles, below, medialist, afrt, stage>>
  BY DEF Cut, Next, StartFragment, ExtendFragment, Finish, inputs
<1>3. SourcesCut'
  <2>1. \A m : IsCut(m) => IsCut(m)'
    BY <1>2, StaysCut
  <2> QED BY <1>2, <2>1 DEF PIInv, SourcesCut
<1>4. PTypeOK'
  BY <1>2 DEF PIInv, PTypeOK, Media
<1> QED
  BY <1>1, <1>2, <1>3, <1>4 DEF PIInv, ManifestWritten

LEMMA NextSourceKeepsPInvariant == PIInv /\ NextSource => PIInv'
<1> SUFFICES ASSUME PIInv, NextSource PROVE PIInv'
  OBVIOUS
<1>1. /\ stage = "cutting" /\ stage' = "cutting" /\ pc = "done" /\ medialist' = Collected
      /\ timestep' = timestep /\ late' = late /\ srcfiles' = srcfiles /\ below' = below
      /\ afrt' = afrt /\ movie' = srcfiles[Len(medialist) + 2]
      /\ Len(medialist) + 1 < Len(srcfiles)
  BY DEF NextSource
<1>2. medialist' \in Seq(Media) /\ Len(medialist') = Len(medialist) + 1 /\ SourcesCut'
  BY <1>1, CollectKeeps
<1>3. srcfiles \in Seq(Movies) /\ medialist \in Seq(Media)
  BY SourceFacts DEF PIInv
<1>4. Len(medialist) + 2 \in 1..Len(srcfiles)
  BY <1>1, <1>3
<1>5. Init'
  <2>1. movie' \in Movies
    BY <1>1, <1>3, <1>4
  <2>2. timestep \in Timesteps /\ late \in Roundings /\ timestep \notin late
    BY DEF PIInv, IInv, TypeOK, CutTimes
  <2> QED BY <2>1, <2>2 DEF Init, NextSource, NewFragment
<1>6. IInv' /\ CutTimes'
  <2>1. (Init => IInv /\ CutTimes)'
    BY InitInvariant, CutTimesFirst, PTL
  <2> QED BY <1>5, <2>1
<1>7. PTypeOK'
  BY <1>1, <1>2 DEF PIInv, PTypeOK, Media
<1>8. Len(medialist') < Len(srcfiles') /\ movie' = srcfiles'[Len(medialist') + 1] /\ afrt' = <<>>
  BY <1>1, <1>2, <1>3 DEF PIInv
<1> QED
  BY <1>1, <1>2, <1>6, <1>7, <1>8 DEF PIInv, ManifestWritten

LEMMA StartManifestKeepsPInvariant == PIInv /\ StartManifest => PIInv'
<1> SUFFICES ASSUME PIInv, StartManifest PROVE PIInv'
  OBVIOUS
<1>1. /\ stage = "cutting" /\ stage' = "table" /\ pc = "done" /\ medialist' = Collected
      /\ UNCHANGED <<vars, srcfiles, below, afrt>> /\ timestep' = timestep /\ late' = late
      /\ Len(medialist) + 1 = Len(srcfiles) /\ afrt = <<>>
  BY DEF StartManifest, vars, PIInv
<1>2. medialist' \in Seq(Media) /\ Len(medialist') = Len(medialist) + 1 /\ SourcesCut'
  BY <1>1, CollectKeeps
<1>3. IInv' /\ CutTimes'
  BY <1>1, StutterKeepsInvariant, StutterKeepsCutTimes DEF PIInv
<1>4. PTypeOK'
  BY <1>1, <1>2 DEF PIInv, PTypeOK, Media, Stages
<1>5. RowsRight'
  <2>1. afrt' = <<>>
    BY <1>1
  <2>2. Total' \in Nat
    <3>1. 1 \in 1..Len(medialist') /\ medialist \in Seq(Media)
      BY <1>1, <1>2, SourceFacts DEF PIInv
    <3>2. medialist'[1] \in Media
      BY <1>2, <3>1
    <3> QED BY <3>2 DEF Total, FirstMedia, Media
  <2> QED BY <2>1, <2>2 DEF RowsRight
<1> QED
  BY <1>1, <1>2, <1>3, <1>4, <1>5 DEF PIInv, ManifestWritten

(* A row is the one of its fragment. *)
LEMMA AddRowKeepsRows ==
  ASSUME PIInv, AddRow
  PROVE  RowsRight'
<1> DEFINE n == Len(afrt)
           fr == ThisFragment
<1>1. /\ stage = "table" /\ n < Total /\ fr.samples # <<>>
      /\ fr.duration = 0 => n + 1 = Total
      /\ UNCHANGED <<vars, srcfiles, below, medialist, stage>>
  BY DEF AddRow
<1>2. PICK row \in Rows(fr) : afrt' = Append(afrt, row)
  BY DEF AddRow
<1>3. RowsRight /\ afrt \in Seq(Row) /\ n \in Nat /\ Total \in Nat /\ IsCut(FirstMedia)
  BY <1>1, FirstIsCut DEF PIInv, RowsRight
<1>4. fr = FirstMedia.fragments[n + 1] /\ FirstMedia' = FirstMedia /\ Total' = Total
  BY <1>1 DEF ThisFragment, FirstMedia, Total
<1>5. /\ row.number = n + 1 /\ row.start = Timestamp_ms(FirstMedia, fr)
      /\ row.duration \in MsOfDuration(fr.duration)
      /\ row.discontinuity = (fr.duration = 0)
  BY <1>2 DEF Rows
<1>6. row \in Row
  <2>1. fr.duration \in Int /\ FirstMedia.movie.samples[fr.samples[1]].time \in Int
    <3>1. n + 1 \in 1..Len(FirstMedia.fragments) /\ FirstMedia.movie \in Movies
      BY <1>1, <1>3 DEF Total, IsCut
    <3>2. fr \in FragmentOf(FirstMedia.movie)
      BY <1>3, <1>4, <3>1 DEF IsCut
    <3>3. fr.samples[1] \in 1..Len(FirstMedia.movie.samples)
      BY <1>1, <3>2 DEF FragmentOf
    <3>4. FirstMedia.movie.samples \in Seq(Sample)
      BY <3>1, MoviesAssumption DEF IsTimeline
    <3>5. FirstMedia.movie.samples[fr.samples[1]] \in Sample
      BY <3>3, <3>4
    <3> QED BY <3>2, <3>5 DEF FragmentOf, Sample
  <2>2. row.start \in Int
    BY <1>5, <2>1, UnitAssumption DEF Timestamp_ms, Ms
  <2>3. row.duration \in Int
    BY <1>5, <2>1, UnitAssumption DEF MsOfDuration
  <2>4. row.number \in Nat
    BY <1>3, <1>5
  <2>5. row.discontinuity \in BOOLEAN
    BY <1>5
  <2>6. row = [number |-> row.number, start |-> row.start, duration |-> row.duration,
               discontinuity |-> row.discontinuity]
    BY <1>2 DEF Rows
  <2> QED BY <2>2, <2>3, <2>4, <2>5, <2>6 DEF Row
<1>7. /\ afrt' \in Seq(Row) /\ Len(afrt') = n + 1
      /\ \A i \in 1..n : afrt'[i] = afrt[i]
      /\ afrt'[n + 1] = row
  BY <1>2, <1>3, <1>6, AppendProperties
<1>8. ASSUME NEW i \in 1..(n + 1) PROVE RowRight(i)'
  <2>1. CASE i \in 1..n
    <3>1. RowRight(i) /\ afrt'[i] = afrt[i]
      BY <1>3, <1>7, <2>1 DEF RowsRight
    <3>2. Timestamp_ms(FirstMedia, FirstMedia.fragments[i])'
            = Timestamp_ms(FirstMedia, FirstMedia.fragments[i])
      BY <1>1, <1>4 DEF Timestamp_ms, Ms
    <3> QED BY <1>4, <3>1, <3>2 DEF RowRight, MsOfDuration
  <2>2. CASE i = n + 1
    <3>1. Timestamp_ms(FirstMedia, FirstMedia.fragments[i])' = Timestamp_ms(FirstMedia, fr)
      BY <1>1, <1>4, <2>2 DEF Timestamp_ms, Ms
    <3> QED BY <1>1, <1>4, <1>5, <1>7, <2>2, <3>1 DEF RowRight, MsOfDuration
  <2> QED BY <1>3, <2>1, <2>2
<1> QED
  BY <1>1, <1>3, <1>4, <1>7, <1>8 DEF RowsRight, Row

(* No row is rejected and no empty fragment read. *)
LEMMA NoFailure ==
  ASSUME PIInv, stage = "table", Len(afrt) < Total, timestep > 0, srcfiles[1].samples # <<>>
  PROVE  ThisFragment.samples # <<>> /\ (ThisFragment.duration = 0 => Len(afrt) + 1 = Total)
<1>1. IsCut(FirstMedia) /\ FirstMedia.movie = srcfiles[1] /\ Total \in Nat
  BY FirstIsCut
<1>2. Len(afrt) \in Nat
  BY DEF PIInv, RowsRight
<1>3. Len(afrt) + 1 \in 1..Total
  BY <1>1, <1>2
<1>4. ThisFragment.samples # <<>>
  BY <1>1, <1>3 DEF IsCut, ThisFragment, Total
<1>5. ASSUME Len(afrt) + 1 # Total PROVE ThisFragment.duration # 0
  <2>1. Len(afrt) + 1 \in 1..(Total - 1)
    BY <1>1, <1>3, <1>5
  <2>2. ThisFragment.duration >= timestep
    BY <1>1, <2>1 DEF IsCut, ThisFragment, Total
  <2>3. timestep \in Nat
    BY MovieFacts DEF PIInv, IInv
  <2> QED BY <2>2, <2>3
<1> QED
  BY <1>4, <1>5

LEMMA ManifestKeepsPInvariant ==
  PIInv /\ (AddRow \/ RejectRow \/ ReadEmpty \/ EndManifest) => PIInv'
<1> SUFFICES ASSUME PIInv, AddRow \/ RejectRow \/ ReadEmpty \/ EndManifest PROVE PIInv'
  OBVIOUS
<1>1. /\ stage = "table" /\ UNCHANGED <<vars, srcfiles, below, medialist>>
      /\ timestep' = timestep /\ late' = late
      /\ stage' \in Stages \ {"cutting"}
  BY DEF AddRow, RejectRow, ReadEmpty, EndManifest, Stages, vars
<1>2. IInv' /\ CutTimes'
  BY <1>1, StutterKeepsInvariant, StutterKeepsCutTimes DEF PIInv
<1>3. PTypeOK'
  BY <1>1 DEF PIInv, PTypeOK, Media
<1>4. SourcesCut'
  <2>1. \A m : IsCut(m) => IsCut(m)'
    BY <1>1, StaysCut
  <2> QED BY <1>1, <2>1 DEF PIInv, SourcesCut
<1>5. RowsRight'
  <2>1. CASE AddRow
    BY <2>1, AddRowKeepsRows
  <2>2. CASE ~AddRow
    <3>1. afrt' = afrt /\ FirstMedia' = FirstMedia /\ Total' = Total /\ RowsRight
      BY <1>1, <2>2 DEF RejectRow, ReadEmpty, EndManifest, FirstMedia, Total, PIInv
    <3>2. \A fr : Timestamp_ms(FirstMedia, fr)' = Timestamp_ms(FirstMedia, fr)
      BY <1>1, <3>1 DEF Timestamp_ms, Ms
    <3>3. \A i : RowRight(i) => RowRight(i)'
      BY <3>1, <3>2 DEF RowRight, MsOfDuration
    <3> QED BY <3>1, <3>3 DEF RowsRight, Row
  <2> QED BY <2>1, <2>2
<1>6. stage' = "written" => Len(afrt') = Total'
  BY <1>1 DEF AddRow, RejectRow, ReadEmpty, EndManifest, Total, FirstMedia
<1>7. ManifestWritten'
  BY <1>1, NoFailure DEF AddRow, RejectRow, ReadEmpty, EndManifest, ManifestWritten
<1> QED
  BY <1>1, <1>2, <1>3, <1>4, <1>5, <1>6, <1>7 DEF PIInv

LEMMA PStutterKeepsPInvariant == PIInv /\ UNCHANGED pvars => PIInv'
<1> SUFFICES ASSUME PIInv, UNCHANGED pvars PROVE PIInv'
  OBVIOUS
<1>1. UNCHANGED <<vars, srcfiles, below, medialist, afrt, stage>> /\ UNCHANGED vars
      /\ movie' = movie /\ timestep' = timestep /\ late' = late
  BY DEF pvars, vars
<1>2. IInv' /\ CutTimes'
  BY <1>1, StutterKeepsInvariant, StutterKeepsCutTimes DEF PIInv
<1>3. PTypeOK'
  BY <1>1 DEF PIInv, PTypeOK, Media
<1>4. SourcesCut'
  <2>1. \A m : IsCut(m) => IsCut(m)'
    BY <1>1, StaysCut
  <2> QED BY <1>1, <2>1 DEF PIInv, SourcesCut
<1>5. RowsRight => RowsRight'
  <2>1. FirstMedia' = FirstMedia /\ Total' = Total
    BY <1>1 DEF FirstMedia, Total
  <2>2. \A fr : Timestamp_ms(FirstMedia, fr)' = Timestamp_ms(FirstMedia, fr)
    BY <1>1, <2>1 DEF Timestamp_ms, Ms
  <2>3. \A i : RowRight(i) => RowRight(i)'
    BY <1>1, <2>1, <2>2 DEF RowRight, MsOfDuration
  <2> QED BY <1>1, <2>1, <2>3 DEF RowsRight, Row
<1>6. Total' = Total
  BY <1>1 DEF FirstMedia, Total
<1> QED
  BY <1>1, <1>2, <1>3, <1>4, <1>5, <1>6 DEF PIInv, ManifestWritten

(* The inductive invariant is one. *)
THEOREM PInvariance == PSpec => []PIInv
<1>1. PIInv /\ [PNext]_pvars => PIInv'
  BY CutKeepsPInvariant, NextSourceKeepsPInvariant, StartManifestKeepsPInvariant,
     ManifestKeepsPInvariant, PStutterKeepsPInvariant DEF PNext
<1> QED
  BY PInitInvariant, <1>1, PTL DEF PSpec
-----------------------------------------------------------------------------
(* What truncation takes from the milliseconds of a sum, in the table's       *)
(* arithmetic: two at most, for an instant or a duration that loses one is a  *)
(* whole number of them.                                                      *)
LEMMA SumOfMs ==
  ASSUME PTypeOK, NEW t \in Nat, NEW d \in Nat, NEW ms \in MsOfDuration(d)
  PROVE  \E shift \in 0..2 : \A c \in Int :
           (((t + d) \div TicksPerMs) + c) % U32 = (Ms(t) + ms + shift + c) % U32
<1> DEFINE n == TicksPerMs
           a == t \div n
           b == IF t \in below THEN 1 ELSE 0
           e == d \div n
<1>1. n \in Nat \ {0} /\ U32 \in Nat \ {0}
  BY UnitAssumption
<1>2. a \in Int /\ e \in Int /\ b \in 0..1
  BY <1>1
<1>3. Ms(t) = (a - b) % U32
  BY DEF Ms
<1>4. PICK f \in 0..1 : ms = (e - f) % U32 /\ (f = 1 => d % n = 0)
  <2>1. \/ ms = (e - 0) % U32
        \/ ms = (e - 1) % U32 /\ d % n = 0
    BY <1>2 DEF MsOfDuration
  <2> QED BY <2>1
<1>5. b = 1 => t % n = 0
  BY TruncationsAssumption DEF PTypeOK
<1>6. PICK g \in 0..1 : (t + d) \div n = a + e + g /\ (g = 1 => t % n # 0 /\ d % n # 0)
  <2>1. CASE (t + d) \div n = a + e
    <3>1. (t + d) \div n = a + e + 0
      BY <1>2, <2>1
    <3> QED BY <3>1
  <2>2. CASE (t + d) \div n = a + e + 1 /\ t % n # 0 /\ d % n # 0
    BY <2>2
  <2> QED BY <1>1, <2>1, <2>2, QuotientOfSum
<1>7. g + b + f \in 0..2
  BY <1>2, <1>4, <1>5, <1>6
<1> HIDE DEF n, a, b, e
<1>8. ASSUME NEW c \in Int
      PROVE  (((t + d) \div n) + c) % U32 = (Ms(t) + ms + (g + b + f) + c) % U32
  <2> DEFINE x == a - b
             y == e - f
             z == g + b + f + c
  <2>1. x \in Int /\ y \in Int /\ z \in Int
    BY <1>2
  <2>2. ((t + d) \div n) + c = x + y + z
    BY <1>2, <1>6
  <2>3. Ms(t) = x % U32 /\ ms = y % U32
    BY <1>3, <1>4
  <2>4. Ms(t) \in Int /\ ms \in Int
    BY <1>1, <2>1, <2>3
  <2>5. Ms(t) + ms + (g + b + f) + c = (x % U32) + (y % U32) + z
    BY <1>2, <2>3, <2>4
  <2> HIDE DEF x, y, z
  <2>6. ((x % U32) + (y % U32) + z) % U32 = (x + y + z) % U32
    BY <1>1, <2>1, RemainderOfSum, ZenonT(60)
  <2> QED BY <2>2, <2>5, <2>6
<1> QED
  BY <1>7, <1>8 DEF n

(* A duration that fits and gives no millisecond is not longer than one. *)
LEMMA NoMillisecond ==
  ASSUME NEW d \in Int, Fits(d), 0 \in MsOfDuration(d)
  PROVE  -TicksPerMs <= d /\ d <= TicksPerMs
<1> DEFINE n == TicksPerMs
           size == IF d >= 0 THEN d ELSE -d
           q == size \div n
           r == size % n
<1>1. n \in Nat \ {0} /\ U32 \in Nat \ {0} /\ size \in Nat
  BY UnitAssumption
<1>2. q \in Int /\ r \in 0..(n - 1) /\ size = n * q + r
  BY <1>1, Division
<1>3. size < U32 * n
  BY DEF Fits
<1>4. PICK w \in Int : /\ 0 = (IF d >= 0 THEN w ELSE -w) % U32
                       /\ w = q \/ (w = q - 1 /\ size > 0 /\ r = 0)
  BY <1>2 DEF MsOfDuration
<1> HIDE DEF n, q, r
<1>5. 0 <= q /\ q < U32
  <2>1. CASE q <= -1
    <3>1. n * q <= -n
      BY <1>1, <1>2, <2>1
    <3> QED BY <1>1, <1>2, <2>1, <3>1
  <2>2. CASE q >= U32
    <3>1. n * q >= n * U32
      BY <1>1, <1>2, <2>2
    <3>2. n * U32 = U32 * n /\ n * U32 \in Nat /\ n * q \in Int
      BY <1>1, <1>2
    <3> QED BY <1>1, <1>2, <1>3, <3>1, <3>2
  <2> QED BY <1>1, <1>2, <2>1, <2>2
<1>6. w \in 0..(U32 - 1)
  <2>1. CASE w = q
    BY <1>1, <1>2, <1>5, <2>1
  <2>2. CASE w = q - 1 /\ size > 0 /\ r = 0
    <3>1. q # 0
      BY <1>1, <1>2, <2>2
    <3> QED BY <1>1, <1>2, <1>5, <2>2, <3>1
  <2> QED BY <1>4, <2>1, <2>2
<1>7. w = 0
  <2>1. w % U32 = w
    BY <1>1, <1>6
  <2>2. w # 0 => (-w) % U32 = U32 - w
    <3> DEFINE x == -w
               y == U32 - w
    <3> SUFFICES ASSUME w # 0 PROVE x % U32 = y
      OBVIOUS
    <3>1. x \in Int /\ x = U32 * (-1) + y /\ y \in 0..(U32 - 1) /\ -1 \in Int
      BY <1>1, <1>6
    <3> HIDE DEF x, y
    <3> QED BY <1>1, <3>1, DivisionIs
  <2> QED BY <1>1, <1>4, <1>6, <2>1, <2>2
<1>8. size <= n
  <2>1. CASE q = 0
    BY <1>1, <1>2, <2>1
  <2>2. CASE q = 1 /\ r = 0
    BY <1>1, <1>2, <2>2
  <2> QED BY <1>2, <1>4, <1>7, <2>1, <2>2
<1> QED
  BY <1>1, <1>8 DEF n

(* When the fragments of a media start, one after the other. *)
LEMMA StartsInOrder ==
  ASSUME NEW m, IsCut(m), TypeOK
  PROVE  /\ \A i \in 1..Len(m.fragments) :
              /\ Start(m, i) \in Nat /\ Start(m, i) <= LastSampleTime(m.movie)
              /\ m.fragments[i].duration \in Int
         /\ \A i \in 1..(Len(m.fragments) - 1) :
              /\ m.fragments[i].duration \in Nat
              /\ m.fragments[i].duration >= timestep
              /\ Start(m, i + 1) = Start(m, i) + m.fragments[i].duration
         /\ Start(m, Len(m.fragments)) + m.fragments[Len(m.fragments)].duration
              = m.movie.duration
         /\ Len(m.fragments) \in Nat \ {0} /\ m.movie.duration \in Nat
<1> DEFINE L == m.movie.samples
           n == Len(m.fragments)
<1>1. /\ L \in Seq(Sample) /\ m.movie.duration \in Nat /\ timestep \in Nat
      /\ \A j \in 1..Len(L) : \A k \in 1..Len(L) : j <= k => L[j].time <= L[k].time
  BY MoviesAssumption, MovieFacts DEF IsCut, IsTimeline
<1>2. n \in Nat \ {0} /\ m.fragments \in Seq(FragmentOf(m.movie))
  BY DEF IsCut
<1>3. \A k \in 1..Len(L) : L[k].time \in Nat /\ L[k].time <= LastSampleTime(m.movie)
  <2> SUFFICES ASSUME NEW k \in 1..Len(L)
               PROVE  L[k].time \in Nat /\ L[k].time <= LastSampleTime(m.movie)
    OBVIOUS
  <2>1. Len(L) \in 1..Len(L) /\ L # <<>>
    BY <1>1
  <2>2. L[k] \in Sample /\ L[k].time <= L[Len(L)].time
    BY <1>1, <2>1
  <2> QED BY <2>1, <2>2 DEF LastSampleTime, Sample
<1>4. LastSampleTime(m.movie) \in Nat
  <2>1. CASE L = <<>>
    BY <2>1 DEF LastSampleTime
  <2>2. CASE L # <<>>
    <3>1. Len(L) \in 1..Len(L)
      BY <1>1, <2>2
    <3> QED BY <1>3, <2>2, <3>1 DEF LastSampleTime
  <2> QED BY <2>1, <2>2
<1>5. ASSUME NEW i \in 1..n
      PROVE  /\ Start(m, i) \in Nat /\ Start(m, i) <= LastSampleTime(m.movie)
             /\ m.fragments[i].duration \in Int
  <2>1. m.fragments[i].duration \in Int
    <3>1. m.fragments[i] \in FragmentOf(m.movie)
      BY <1>2
    <3> QED BY <3>1 DEF FragmentOf
  <2>2. CASE i = 1
    BY <1>4, <2>1, <2>2 DEF Start
  <2>3. CASE i # 1
    <3>1. i - 1 \in 1..(n - 1) /\ i - 1 + 1 = i
      BY <1>2, <2>3
    <3>2. Start(m, i) \in KeyTimes(m.movie)
      BY <3>1 DEF IsCut
    <3>3. PICK k \in 1..Len(L) : Start(m, i) = L[k].time
      BY <3>2 DEF KeyTimes
    <3> QED BY <1>3, <2>1, <3>3
  <2> QED BY <2>2, <2>3
<1>6. ASSUME NEW i \in 1..(n - 1)
      PROVE  /\ m.fragments[i].duration \in Nat
             /\ m.fragments[i].duration >= timestep
             /\ Start(m, i + 1) = Start(m, i) + m.fragments[i].duration
  <2>1. i \in 1..n /\ i + 1 \in 1..n
    BY <1>2
  <2>2. Start(m, i) \in Nat /\ Start(m, i + 1) \in Nat
    BY <1>5, <2>1
  <2>3. m.fragments[i].duration = Start(m, i + 1) - Start(m, i)
        /\ m.fragments[i].duration >= timestep
    BY DEF IsCut
  <2> QED BY <1>1, <2>2, <2>3
<1>7. Start(m, n) + m.fragments[n].duration = m.movie.duration
  <2>1. m.fragments[n].duration = m.movie.duration - Start(m, n) /\ n \in 1..n
    BY <1>2 DEF IsCut
  <2> QED BY <1>1, <1>5, <2>1
<1> QED
  BY <1>1, <1>2, <1>5, <1>6, <1>7

(* A row starts when its fragment does. *)
LEMMA RowStart ==
  ASSUME PIInv, stage # "cutting", NEW i \in 1..Len(afrt)
  PROVE  /\ i \in 1..Total /\ RowRight(i)
         /\ afrt[i].start = Ms(Start(FirstMedia, i))
<1>1. RowsRight /\ IsCut(FirstMedia) /\ Total \in Nat
  BY FirstIsCut DEF PIInv
<1>2. i \in 1..Total /\ RowRight(i)
  BY <1>1 DEF RowsRight
<1> QED
  BY <1>1, <1>2 DEF RowRight, IsCut, Timestamp_ms, Total

(* Cutting is settled by the key frame times: each fragment starts at the   *)
(* first of them that reaches the limit set by the one before.              *)
LEMMA CutFollows ==
  ASSUME NEW a, NEW b, IsCut(a), IsCut(b), TypeOK, timestep > 0,
         KeyTimes(a.movie) = KeyTimes(b.movie)
  PROVE  \A i \in 1..Len(a.fragments) :
           i <= Len(b.fragments) /\ Start(a, i) = Start(b, i)
<1> DEFINE Same(i) == i + 1 <= Len(a.fragments) =>
                        i + 1 <= Len(b.fragments) /\ Start(a, i + 1) = Start(b, i + 1)
           P == {i \in Nat : Same(i)}
<1>1. Len(a.fragments) \in Nat \ {0} /\ Len(b.fragments) \in Nat \ {0}
  BY DEF IsCut
<1>2. 0 \in P
  BY <1>1 DEF Start
<1>3. ASSUME NEW i \in Nat, i \in P PROVE i + 1 \in P
  <2> SUFFICES ASSUME i + 2 <= Len(a.fragments)
               PROVE  i + 2 <= Len(b.fragments) /\ Start(a, i + 2) = Start(b, i + 2)
    OBVIOUS
  <2>1. i + 1 <= Len(b.fragments) /\ Start(a, i + 1) = Start(b, i + 1)
    BY <1>3
  <2>2. /\ Start(a, i + 2) \in KeyTimes(b.movie)
        /\ Reaches(Start(a, i + 2), Start(b, i + 1) + timestep)
    <3>1. i + 1 \in 1..(Len(a.fragments) - 1) /\ i + 1 + 1 = i + 2
      BY <1>1
    <3> QED BY <2>1, <3>1 DEF IsCut
  <2>3. i + 1 < Len(b.fragments) /\ Start(b, i + 2) <= Start(a, i + 2)
    <3>1. i + 1 \in 1..Len(b.fragments) /\ i + 1 + 1 = i + 2
      BY <1>1, <2>1
    <3> QED BY <2>2, <3>1 DEF IsCut
  <2>4. /\ Start(b, i + 2) \in KeyTimes(a.movie)
        /\ Reaches(Start(b, i + 2), Start(a, i + 1) + timestep)
    <3>1. i + 1 \in 1..(Len(b.fragments) - 1) /\ i + 1 + 1 = i + 2
      BY <1>1, <2>3
    <3> QED BY <2>1, <3>1 DEF IsCut
  <2>5. Start(a, i + 2) <= Start(b, i + 2)
    <3>1. i + 1 \in 1..Len(a.fragments) /\ i + 1 + 1 = i + 2
      BY <1>1
    <3> QED BY <2>4, <3>1 DEF IsCut
  <2>6. Start(a, i + 2) \in Nat /\ Start(b, i + 2) \in Nat
    <3>1. i + 2 \in 1..Len(a.fragments) /\ i + 2 \in 1..Len(b.fragments)
      BY <1>1, <2>3
    <3> QED BY <3>1, StartsInOrder
  <2> QED BY <1>1, <2>3, <2>5, <2>6
<1>4. \A i \in Nat : i \in P
  <2> HIDE DEF P
  <2> QED BY <1>2, <1>3, Induction
<1>5. ASSUME NEW i \in 1..Len(a.fragments)
      PROVE  i <= Len(b.fragments) /\ Start(a, i) = Start(b, i)
  <2>1. i - 1 \in Nat /\ i - 1 + 1 = i
    BY <1>1
  <2>2. Same(i - 1)
    BY <1>4, <2>1
  <2> QED BY <2>1, <2>2
<1> QED
  BY <1>5
-----------------------------------------------------------------------------
(* Rows are numbered as fragments are and tile the first movie, but for two *)
(* milliseconds that truncation can take anywhere.                          *)
LEMMA RowsTile == PIInv => TableTiles
<1> SUFFICES ASSUME PIInv PROVE TableTiles
  OBVIOUS
<1>0. CASE stage = "cutting"
  <2>1. afrt = <<>> /\ Len(afrt) = 0
    BY <1>0 DEF PIInv
  <2> QED BY <1>0, <2>1 DEF TableTiles
<1>1. CASE stage # "cutting"
  <2>1. /\ RowsRight /\ IsCut(FirstMedia) /\ TypeOK /\ PTypeOK /\ Total \in Nat \ {0}
        /\ Len(afrt) \in Nat /\ Len(afrt) <= Total
    BY <1>1, FirstIsCut DEF PIInv, IInv, RowsRight
  <2>2. \A i \in 1..Len(afrt) : afrt[i].number = i
    BY <2>1 DEF RowsRight, RowRight
  <2>3. ASSUME NEW i \in 1..(Len(afrt) - 1)
        PROVE  \E shift \in -1..2 :
                 afrt[i + 1].start = (afrt[i].start + afrt[i].duration + shift) % U32
    <3> DEFINE t == Start(FirstMedia, i)
               d == FirstMedia.fragments[i].duration
               ms == afrt[i].duration
    <3>1. i \in 1..Len(afrt) /\ i + 1 \in 1..Len(afrt) /\ i \in 1..(Total - 1) /\ i \in 1..Total
      BY <2>1
    <3>2. t \in Nat /\ d \in Nat /\ Start(FirstMedia, i + 1) = t + d
      BY <2>1, <3>1, StartsInOrder DEF Total
    <3>3. /\ afrt[i].start = Ms(t) /\ ms \in MsOfDuration(d)
          /\ afrt[i + 1].start = Ms(t + d)
      BY <1>1, <3>1, <3>2, RowStart DEF RowRight
    <3> HIDE DEF t, d, ms
    <3>4. PICK s \in 0..2 : \A c \in Int :
            (((t + d) \div TicksPerMs) + c) % U32 = (Ms(t) + ms + s + c) % U32
      BY <2>1, <3>2, <3>3, SumOfMs
    <3>5. PICK c \in -1..0 : Ms(t + d) = (((t + d) \div TicksPerMs) + c) % U32
      <4>1. (t + d) \div TicksPerMs \in Int
        BY <3>2, UnitAssumption
      <4> HIDE DEF t, d
      <4> DEFINE q == (t + d) \div TicksPerMs
      <4>2. Ms(t + d) = (q - (IF t + d \in below THEN 1 ELSE 0)) % U32
        BY DEF Ms
      <4> HIDE DEF q
      <4>3. q \in Int
        BY <4>1 DEF q
      <4>4. CASE t + d \in below
        <5>1. Ms(t + d) = (q + (-1)) % U32
          BY <4>2, <4>3, <4>4
        <5> QED BY <5>1 DEF q
      <4>5. CASE t + d \notin below
        <5>1. Ms(t + d) = (q + 0) % U32
          BY <4>2, <4>3, <4>5
        <5> QED BY <5>1 DEF q
      <4> QED BY <4>4, <4>5
    <3>6. afrt[i + 1].start = (Ms(t) + ms + s + c) % U32
      BY <3>3, <3>4, <3>5
    <3>7. Ms(t) \in Int /\ ms \in Int
      <4>1. afrt[i] \in Row
        BY <2>1, <3>1 DEF RowsRight
      <4> QED BY <3>3, <4>1 DEF Row, ms
    <3>8. Ms(t) + ms + s + c = Ms(t) + ms + (s + c) /\ s + c \in -1..2
      BY <3>7
    <3> QED BY <3>3, <3>6, <3>8 DEF ms
  <2>4. ASSUME stage = "written",
               FirstMedia.movie.duration >= LastSampleTime(FirstMedia.movie)
        PROVE  \E shift \in 0..2 :
                 (FirstMedia.movie.duration \div TicksPerMs) % U32
                   = (afrt[Total].start + afrt[Total].duration + shift) % U32
    <3> DEFINE t == Start(FirstMedia, Total)
               d == FirstMedia.fragments[Total].duration
               ms == afrt[Total].duration
               q == FirstMedia.movie.duration \div TicksPerMs
    <3>1. Total \in 1..Len(afrt) /\ Total \in 1..Total
      BY <2>1, <2>4 DEF PIInv
    <3>2. t \in Nat /\ d \in Int /\ FirstMedia.movie.duration = t + d
      BY <2>1, <3>1, StartsInOrder DEF Total
    <3>3. t <= LastSampleTime(FirstMedia.movie) /\ FirstMedia.movie.duration \in Nat
      BY <2>1, <3>1, StartsInOrder DEF Total
    <3>4. LastSampleTime(FirstMedia.movie) \in Int
      <4>1. CASE FirstMedia.movie.samples = <<>>
        BY <4>1 DEF LastSampleTime
      <4>2. CASE FirstMedia.movie.samples # <<>>
        <5>1. FirstMedia.movie.samples \in Seq(Sample)
          BY <2>1, MoviesAssumption DEF IsCut, IsTimeline
        <5>2. Len(FirstMedia.movie.samples) \in 1..Len(FirstMedia.movie.samples)
          BY <4>2, <5>1
        <5>3. FirstMedia.movie.samples[Len(FirstMedia.movie.samples)] \in Sample
          BY <5>1, <5>2
        <5> QED BY <4>2, <5>3 DEF LastSampleTime, Sample
      <4> QED BY <4>1, <4>2
    <3>5. d \in Nat
      BY <2>4, <3>2, <3>3, <3>4
    <3>6. afrt[Total].start = Ms(t) /\ ms \in MsOfDuration(d)
      BY <1>1, <3>1, RowStart DEF RowRight
    <3>7. q \in Int /\ q = (t + d) \div TicksPerMs
      BY <3>2, <3>3, UnitAssumption
    <3> HIDE DEF t, d, ms, q
    <3>8. PICK s \in 0..2 : \A c \in Int :
            (((t + d) \div TicksPerMs) + c) % U32 = (Ms(t) + ms + s + c) % U32
      BY <2>1, <3>2, <3>5, <3>6, SumOfMs
    <3>9. (q + 0) % U32 = (Ms(t) + ms + s + 0) % U32
      BY <3>7, <3>8
    <3>10. Ms(t) \in Int /\ ms \in Int
      <4>1. afrt[Total] \in Row
        BY <2>1, <3>1 DEF RowsRight
      <4> QED BY <3>6, <4>1 DEF Row, ms
    <3>11. q % U32 = (Ms(t) + ms + s) % U32
      BY <3>7, <3>9, <3>10
    <3> QED BY <3>6, <3>11 DEF ms, q
  <2> QED BY <2>2, <2>3, <2>4 DEF TableTiles
<1> QED
  BY <1>0, <1>1

LEMMA RowsMarked == PIInv => MarksEmptyRows
<1> SUFFICES ASSUME PIInv, NEW i \in 1..Len(afrt)
             PROVE  LET d == FirstMedia.fragments[i].duration IN
                    /\ afrt[i].discontinuity => afrt[i].duration = 0 /\ i = Total
                    /\ afrt[i].duration = 0 /\ ~afrt[i].discontinuity /\ timestep > TicksPerMs
                         /\ Fits(d) =>
                         i = Total /\ d # 0 /\ -TicksPerMs <= d /\ d <= TicksPerMs
  BY DEF MarksEmptyRows
<1> DEFINE d == FirstMedia.fragments[i].duration
<1>1. stage # "cutting"
  BY DEF PIInv
<1>2. /\ i \in 1..Total /\ RowRight(i) /\ IsCut(FirstMedia) /\ TypeOK
      /\ Total \in Nat \ {0}
  BY <1>1, FirstIsCut, RowStart DEF PIInv, IInv
<1>3. afrt[i].duration \in MsOfDuration(d) /\ (afrt[i].discontinuity <=> d = 0)
      /\ (d = 0 => i = Total)
  BY <1>2 DEF RowRight
<1>4. d \in Int /\ (i # Total => d >= timestep)
  <2>1. i # Total => i \in 1..(Total - 1)
    BY <1>2
  <2> QED BY <1>2, <2>1, StartsInOrder DEF Total
<1> HIDE DEF d
<1>5. d = 0 => afrt[i].duration = 0
  <2> SUFFICES ASSUME d = 0 PROVE afrt[i].duration = 0
    OBVIOUS
  <2>1. MsOfDuration(0) = {0 % U32}
    BY UnitAssumption DEF MsOfDuration
  <2>2. 0 % U32 = 0
    BY UnitAssumption
  <2> QED BY <1>3, <2>1, <2>2
<1>6. ASSUME afrt[i].duration = 0, d # 0, timestep > TicksPerMs, Fits(d)
      PROVE  i = Total /\ -TicksPerMs <= d /\ d <= TicksPerMs
  <2>1. -TicksPerMs <= d /\ d <= TicksPerMs
    BY <1>3, <1>4, <1>6, NoMillisecond
  <2>2. timestep \in Nat /\ TicksPerMs \in Nat
    BY <1>2, MovieFacts, UnitAssumption
  <2> QED BY <1>4, <1>6, <2>1, <2>2
<1> QED
  BY <1>3, <1>5, <1>6 DEF d

LEMMA TableFits == PIInv => TableFitsAll
<1> SUFFICES ASSUME PIInv, stage = "written", timestep > 0, NEW j \in 1..Len(medialist),
                    medialist[j].movie.samples # <<>>,
                    KeyTimes(medialist[j].movie) = KeyTimes(FirstMedia.movie)
             PROVE  /\ Len(medialist[j].fragments) = Len(afrt)
                    /\ \A i \in 1..Len(afrt) :
                         afrt[i].start = Timestamp_ms(medialist[j], medialist[j].fragments[i])
  BY DEF TableFitsAll
<1> DEFINE m == medialist[j]
<1>1. /\ IsCut(m) /\ IsCut(FirstMedia) /\ TypeOK /\ Len(afrt) = Total /\ Total \in Nat \ {0}
  BY FirstIsCut DEF PIInv, IInv, SourcesCut
<1>2. m.movie.samples # <<>> /\ KeyTimes(m.movie) = KeyTimes(FirstMedia.movie)
  OBVIOUS
<1> HIDE DEF m
<1>3. /\ \A i \in 1..Len(m.fragments) :
           i <= Len(FirstMedia.fragments) /\ Start(m, i) = Start(FirstMedia, i)
      /\ \A i \in 1..Len(FirstMedia.fragments) : i <= Len(m.fragments)
  BY <1>1, <1>2, CutFollows
<1>4. Len(m.fragments) \in Nat \ {0} /\ Len(FirstMedia.fragments) = Total
  BY <1>1 DEF IsCut, Total
<1>5. Len(m.fragments) = Len(afrt)
  <2>1. Len(m.fragments) \in 1..Len(m.fragments) /\ Total \in 1..Total
    BY <1>1, <1>4
  <2> QED BY <1>1, <1>3, <1>4, <2>1
<1>6. ASSUME NEW i \in 1..Len(afrt)
      PROVE  afrt[i].start = Timestamp_ms(m, m.fragments[i])
  <2>1. afrt[i].start = Ms(Start(FirstMedia, i))
    BY RowStart
  <2>2. Start(m, i) = Start(FirstMedia, i) /\ i \in 1..Len(m.fragments)
    BY <1>3, <1>5
  <2>3. m.movie.samples[m.fragments[i].samples[1]].time = Start(m, i)
    BY <1>1, <1>2, <2>2 DEF IsCut
  <2> QED BY <2>1, <2>2, <2>3 DEF Timestamp_ms
<1> QED
  BY <1>5, <1>6 DEF m
-----------------------------------------------------------------------------
(* A player that seeks with the rows written by get_manifest finds its      *)
(* fragment: they tile the first movie, whatever its length and cuts.       *)
THEOREM TableTilesHolds == PSpec => []TableTiles
BY PInvariance, RowsTile, PTL

(* A row without duration is the last one, marked as the format asks or not *)
(* longer than a millisecond.                                               *)
THEOREM MarksEmptyRowsHolds == PSpec => []MarksEmptyRows
BY PInvariance, RowsMarked, PTL

(* get_manifest neither throws nor reads an empty fragment once the movie   *)
(* has samples and a duration was asked for.                                *)
THEOREM ManifestWrittenHolds == PSpec => []ManifestWritten
BY PInvariance, PTL DEF PIInv

(* The table made from the first source is right for every other that has   *)
(* its key frame times.                                                     *)
THEOREM TableFitsAllHolds == PSpec => []TableFitsAll
BY PInvariance, TableFits, PTL
-----------------------------------------------------------------------------
(* Bytes of the first samples of the movie, as packets. *)
Upto == Sizes([k \in 1..Len(Samples) |-> SamplePacket(k)])

(* The sum kept by generate_fragments is the bytes of the samples of the    *)
(* fragment.                                                                *)
Sized ==
  \A i \in 1..Len(fragments) : fragments[i].totalsize = Upto[End(i)] - Upto[EndBefore(i)]

(* The file e holds the header, the codec data and w samples of fragment i. *)
Holds(e, i, w) ==
  LET c == Len(CodecPackets) IN
  /\ e.declared = Declared(fragments[i])
  /\ e.length = 8 + Sizes(CodecPackets)[c] + (Upto[EndBefore(i) + w] - Upto[EndBefore(i)])
  /\ Len(e.packets) = c + w
  /\ \A j \in 1..c : e.packets[j] = CodecPackets[j]
  /\ \A j \in 1..w : e.packets[c + j] = SamplePacket(EndBefore(i) + j)

Packet == [video : BOOLEAN, sample : Nat, size : Nat]
OutputFile == [declared : Nat, length : Nat, packets : Seq(Packet)]

STypeOK ==
  /\ extra \in [BOOLEAN -> CodecSizes \cup {0}]
  /\ files \in Seq(OutputFile) /\ Len(files) <= Len(fragments)
  /\ state \in {"cutting", "next", "prefix", "samples", "failed", "done"}

CompleteHold ==
  \A i \in Complete :
    fragments[i].samples # <<>> /\ Holds(files[i], i, Len(fragments[i].samples))

OpenHolds ==
  /\ state = "prefix" =>
       /\ files # <<>> /\ File.declared = Declared(Current)
       /\ File.length = 8 /\ File.packets = <<>>
  /\ state = "samples" =>
       /\ files # <<>> /\ Current.samples # <<>>
       /\ \E w \in 0..Len(Current.samples) : Holds(File, Len(files), w)

SIInv ==
  /\ IInv /\ Sized /\ STypeOK
  /\ \A video \in BOOLEAN : extra[video] > 0 <=> HasTrack(video)
  /\ state = "cutting" => files = <<>>
  /\ state # "cutting" => pc = "done"
  /\ state = "done" => Len(files) = Len(fragments)
  /\ CompleteHold
  /\ OpenHolds
-----------------------------------------------------------------------------
(* The sum of sizes that Sizes counts exists. *)
LEMMA SizesExist ==
  ASSUME NEW packets, Len(packets) \in Nat, \A j \in 1..Len(packets) : packets[j].size \in Nat
  PROVE  \E g : g = [j \in 0..Len(packets) |->
                       IF j = 0 THEN 0 ELSE g[j - 1] + packets[j].size]
<1> DEFINE Right(n, g) ==
             /\ g \in [0..n -> Nat]
             /\ \A j \in 0..n : g[j] = IF j = 0 THEN 0 ELSE g[j - 1] + packets[j].size
           P == {n \in Nat : n <= Len(packets) => \E g : Right(n, g)}
<1>1. 0 \in P
  <2>1. Right(0, [j \in 0..0 |-> 0])
    OBVIOUS
  <2> QED BY <2>1
<1>2. ASSUME NEW n \in Nat, n \in P PROVE n + 1 \in P
  <2> SUFFICES ASSUME n + 1 <= Len(packets) PROVE \E g : Right(n + 1, g)
    <3> HIDE DEF Right
    <3>1. n + 1 \in Nat
      OBVIOUS
    <3> QED BY <3>1
  <2>2. PICK g : Right(n, g)
    BY <1>2
  <2> DEFINE x == g[n] + packets[n + 1].size
             h == [j \in 0..(n + 1) |-> IF j = n + 1 THEN x ELSE g[j]]
  <2>1. x \in Nat
    <3>1. n + 1 \in 1..Len(packets) /\ n \in 0..n
      OBVIOUS
    <3>2. g[n] \in Nat /\ packets[n + 1].size \in Nat
      BY <2>2, <3>1
    <3> QED BY <3>2
  <2>6. x = g[n] + packets[n + 1].size
    OBVIOUS
  <2> HIDE DEF x
  <2>3. ASSUME NEW j \in 0..n PROVE h[j] = g[j] /\ j \in 0..(n + 1)
    OBVIOUS
  <2>4. h[n + 1] = x
    <3>1. n + 1 \in 0..(n + 1)
      OBVIOUS
    <3> QED BY <3>1
  <2>5. h \in [0..(n + 1) -> Nat]
    BY <2>1, <2>2
  <2> HIDE DEF h
  <2>7. ASSUME NEW j \in 0..(n + 1)
        PROVE  h[j] = IF j = 0 THEN 0 ELSE h[j - 1] + packets[j].size
    <3>1. CASE j = n + 1
      <4>1. j - 1 = n /\ n \in 0..n
        BY <3>1
      <4>2. h[j - 1] = g[n]
        BY <2>3, <4>1
      <4> QED BY <2>4, <2>6, <3>1, <4>2
    <3>2. CASE j \in 1..n
      <4>1. j - 1 \in 0..n /\ j \in 0..n
        BY <3>2
      <4>2. h[j] = g[j] /\ h[j - 1] = g[j - 1]
        BY <2>3, <4>1
      <4>3. g[j] = g[j - 1] + packets[j].size
        BY <2>2, <3>2, <4>1
      <4> QED BY <3>2, <4>2, <4>3
    <3>3. CASE j = 0
      BY <2>2, <2>3, <3>3
    <3> QED BY <3>1, <3>2, <3>3
  <2> QED BY <2>5, <2>7
<1>3. \A n \in Nat : n \in P
  <2> HIDE DEF P
  <2> QED BY <1>1, <1>2, Induction
<1>4. PICK g : Right(Len(packets), g)
  <2>1. \A n \in Nat : n <= Len(packets) => \E g : Right(n, g)
    <3> HIDE DEF Right
    <3> QED BY <1>3
  <2> HIDE DEF Right
  <2> QED BY <2>1
<1>5. g = [j \in 0..Len(packets) |-> IF j = 0 THEN 0 ELSE g[j - 1] + packets[j].size]
  BY <1>4
<1> QED
  BY <1>5

(* Each packet adds its size. *)
LEMMA SizesOf ==
  ASSUME NEW packets, Len(packets) \in Nat, \A j \in 1..Len(packets) : packets[j].size \in Nat
  PROVE  /\ Sizes(packets)[0] = 0
         /\ \A j \in 1..Len(packets) : Sizes(packets)[j] = Sizes(packets)[j - 1] + packets[j].size
         /\ \A j \in 0..Len(packets) : Sizes(packets)[j] \in Nat
<1> DEFINE l == Len(packets)
           g == Sizes(packets)
<1>1. g = [j \in 0..l |-> IF j = 0 THEN 0 ELSE g[j - 1] + packets[j].size]
  <2> DEFINE size == CHOOSE h : h = [j \in 0..l |->
                                      IF j = 0 THEN 0 ELSE h[j - 1] + packets[j].size]
  <2>1. \E h : h = [j \in 0..l |-> IF j = 0 THEN 0 ELSE h[j - 1] + packets[j].size]
    BY SizesExist
  <2>2. size = [j \in 0..l |-> IF j = 0 THEN 0 ELSE size[j - 1] + packets[j].size]
    BY <2>1, Zenon
  <2>3. g = size
    BY Zenon DEF Sizes
  <2> QED BY <2>2, <2>3, Zenon
<1>2. l \in Nat
  OBVIOUS
<1> HIDE DEF g, l
<1>3. g[0] = 0 /\ \A j \in 1..l : g[j] = g[j - 1] + packets[j].size
  BY <1>1, <1>2
<1>4. \A j \in 1..l : packets[j].size \in Nat
  BY DEF l
<1> DEFINE P == {n \in Nat : n <= l => g[n] \in Nat}
<1>5. 0 \in P
  BY <1>3
<1>6. ASSUME NEW n \in Nat, n \in P PROVE n + 1 \in P
  <2> SUFFICES ASSUME n + 1 <= l PROVE g[n + 1] \in Nat
    OBVIOUS
  <2>1. n + 1 \in 1..l /\ n + 1 - 1 = n /\ n <= l
    BY <1>2
  <2>2. g[n + 1] = g[n] + packets[n + 1].size /\ packets[n + 1].size \in Nat
    BY <1>3, <1>4, <2>1
  <2> QED BY <1>6, <2>1, <2>2
<1>7. \A n \in Nat : n \in P
  <2> HIDE DEF P
  <2> QED BY <1>5, <1>6, Induction
<1>8. \A j \in 0..l : g[j] \in Nat
  BY <1>2, <1>7
<1> QED
  BY <1>3, <1>8 DEF g, l

(* Short sequences of packets. *)
LEMMA NoPacket == Sizes(<<>>)[0] = 0
<1> DEFINE P == <<>>
<1>1. Len(P) = 0
  OBVIOUS
<1> HIDE DEF P
<1>2. Sizes(P)[0] = 0
  BY <1>1, SizesOf
<1> QED
  BY <1>2 DEF P

LEMMA OnePacket ==
  ASSUME NEW p, p.size \in Nat
  PROVE  Sizes(<<p>>)[1] = p.size
<1>1. PICK P : P = <<p>>
  OBVIOUS
<1>2. Len(P) = 1 /\ P[1] = p
  BY <1>1
<1>3. Len(P) \in Nat /\ \A j \in 1..Len(P) : P[j].size \in Nat
  BY <1>2
<1>4. Sizes(P)[0] = 0 /\ \A j \in 1..Len(P) : Sizes(P)[j] = Sizes(P)[j - 1] + P[j].size
  BY <1>3, SizesOf
<1>5. Sizes(P)[1] = Sizes(P)[0] + P[1].size
  BY <1>2, <1>4
<1>6. Sizes(P)[1] = p.size
  BY <1>2, <1>4, <1>5
<1> QED
  BY <1>1, <1>6

LEMMA PacketPair ==
  ASSUME NEW p, NEW q, p.size \in Nat, q.size \in Nat
  PROVE  Sizes(<<p, q>>)[2] = p.size + q.size
<1>1. PICK P : P = <<p, q>>
  OBVIOUS
<1>2. Len(P) = 2 /\ P[1] = p /\ P[2] = q
  BY <1>1
<1>3. Len(P) \in Nat /\ \A j \in 1..Len(P) : P[j].size \in Nat
  BY <1>2
<1>4. Sizes(P)[0] = 0 /\ \A j \in 1..Len(P) : Sizes(P)[j] = Sizes(P)[j - 1] + P[j].size
  BY <1>3, SizesOf
<1>5. Sizes(P)[1] = Sizes(P)[0] + P[1].size /\ Sizes(P)[2] = Sizes(P)[1] + P[2].size
  BY <1>2, <1>4
<1>6. Sizes(P)[2] = p.size + q.size
  BY <1>2, <1>4, <1>5
<1> QED
  BY <1>1, <1>6

(* A packet for each of two sizes that is not 0. *)
LEMMA TwoPackets ==
  ASSUME NEW x \in Nat, NEW y \in Nat, NEW p \in Packet, NEW q \in Packet
  PROVE  \E P :
         /\ P = (IF x > 0 THEN <<p>> ELSE <<>>) \o (IF y > 0 THEN <<q>> ELSE <<>>)
         /\ P \in Seq(Packet)
         /\ Len(P) = (IF x > 0 THEN 1 ELSE 0) + (IF y > 0 THEN 1 ELSE 0)
         /\ Sizes(P)[Len(P)] = (IF x > 0 THEN p.size ELSE 0) + (IF y > 0 THEN q.size ELSE 0)
         /\ x > 0 => P[1] = p
         /\ y > 0 => P[Len(P)] = q
         /\ \A j \in 1..Len(P) : P[j] \in {p, q}
<1>1. p.size \in Nat /\ q.size \in Nat
  BY DEF Packet
<1>2. PICK P : P = (IF x > 0 THEN <<p>> ELSE <<>>) \o (IF y > 0 THEN <<q>> ELSE <<>>)
  OBVIOUS
<1>a. <<p>> \o <<q>> = <<p, q>> /\ <<p>> \o <<>> = <<p>> /\ <<>> \o <<q>> = <<q>>
      /\ <<>> \o <<>> = <<>>
  <2>1. <<p>> \in Seq(Packet) /\ <<q>> \in Seq(Packet) /\ <<>> \in Seq(Packet)
    OBVIOUS
  <2>2. <<p>> \o <<q>> = <<p, q>>
    <3>1. PICK s \in Seq(Packet) : s = <<p>>
      BY <2>1
    <3>2. PICK t \in Seq(Packet) : t = <<q>>
      BY <2>1
    <3>3. Len(s) = 1 /\ s[1] = p /\ Len(t) = 1 /\ t[1] = q
      BY <3>1, <3>2
    <3>4. /\ s \o t \in Seq(Packet) /\ Len(s \o t) = Len(s) + Len(t)
          /\ \A i \in 1..(Len(s) + Len(t)) :
               (s \o t)[i] = IF i <= Len(s) THEN s[i] ELSE t[i - Len(s)]
      BY ConcatProperties
    <3>5. PICK u : u = s \o t
      OBVIOUS
    <3>6. u \in Seq(Packet) /\ Len(u) = 2 /\ u[1] = p /\ u[2] = q
      BY <3>3, <3>4, <3>5
    <3>7. u = <<p, q>>
      BY <3>6
    <3> QED BY <3>1, <3>2, <3>5, <3>7
  <2> QED BY <2>1, <2>2, ConcatEmptySeq
<1>b. /\ x > 0 /\ y > 0 => P = <<p, q>>
      /\ x > 0 /\ ~(y > 0) => P = <<p>>
      /\ ~(x > 0) /\ y > 0 => P = <<q>>
      /\ ~(x > 0) /\ ~(y > 0) => P = <<>>
  BY <1>2, <1>a, Zenon
<1>c. /\ Sizes(<<p, q>>)[2] = p.size + q.size /\ Sizes(<<p>>)[1] = p.size
      /\ Sizes(<<q>>)[1] = q.size /\ Sizes(<<>>)[0] = 0
  BY <1>1, NoPacket, OnePacket, PacketPair, Zenon
<1> DEFINE Right(Q) ==
             /\ Q \in Seq(Packet)
             /\ Len(Q) = (IF x > 0 THEN 1 ELSE 0) + (IF y > 0 THEN 1 ELSE 0)
             /\ Sizes(Q)[Len(Q)] = (IF x > 0 THEN p.size ELSE 0) + (IF y > 0 THEN q.size ELSE 0)
             /\ x > 0 => Q[1] = p
             /\ y > 0 => Q[Len(Q)] = q
             /\ \A j \in 1..Len(Q) : Q[j] \in {p, q}
<1>3. CASE x > 0 /\ y > 0
  <2>2. Len(<<p, q>>) = 2 /\ <<p, q>>[1] = p /\ <<p, q>>[2] = q /\ <<p, q>> \in Seq(Packet)
    OBVIOUS
  <2>3. P = <<p, q>>
    BY <1>b, <1>3
  <2>4. Len(P) = 2 /\ P[1] = p /\ P[2] = q /\ P \in Seq(Packet)
        /\ Sizes(P)[2] = p.size + q.size
    BY <1>c, <2>2, <2>3, Zenon
  <2>5. Right(P)
    BY <1>3, <2>4
  <2> QED BY <1>2, <2>5, Zenon
<1>4. CASE x > 0 /\ ~(y > 0)
  <2>2. Len(<<p>>) = 1 /\ <<p>>[1] = p /\ <<p>> \in Seq(Packet)
    OBVIOUS
  <2>3. P = <<p>>
    BY <1>b, <1>4
  <2>4. Len(P) = 1 /\ P[1] = p /\ P \in Seq(Packet) /\ Sizes(P)[1] = p.size
    BY <1>c, <2>2, <2>3, Zenon
  <2>5. Right(P)
    BY <1>1, <1>4, <2>4
  <2> QED BY <1>2, <2>5, Zenon
<1>5. CASE ~(x > 0) /\ y > 0
  <2>2. Len(<<q>>) = 1 /\ <<q>>[1] = q /\ <<q>> \in Seq(Packet)
    OBVIOUS
  <2>3. P = <<q>>
    BY <1>b, <1>5
  <2>4. Len(P) = 1 /\ P[1] = q /\ P \in Seq(Packet) /\ Sizes(P)[1] = q.size
    BY <1>c, <2>2, <2>3, Zenon
  <2>5. Right(P)
    BY <1>1, <1>5, <2>4
  <2> QED BY <1>2, <2>5, Zenon
<1>6. CASE ~(x > 0) /\ ~(y > 0)
  <2>2. Len(<<>>) = 0 /\ <<>> \in Seq(Packet)
    OBVIOUS
  <2>3. P = <<>>
    BY <1>b, <1>6
  <2>4. Len(P) = 0 /\ P \in Seq(Packet) /\ Sizes(P)[0] = 0
    BY <1>c, <2>2, <2>3, Zenon
  <2>5. Right(P)
    BY <1>6, <2>4
  <2> QED BY <1>2, <2>5, Zenon
<1> QED
  BY <1>3, <1>4, <1>5, <1>6

(* What there is of codec data is sent once, that of the video first. *)
LEMMA CodecFacts ==
  ASSUME STypeOK
  PROVE  \E v \in Nat, a \in Nat :
           /\ v = extra[TRUE] /\ a = extra[FALSE]
           /\ CodecPackets \in Seq(Packet)
           /\ Len(CodecPackets) = (IF v > 0 THEN 1 ELSE 0) + (IF a > 0 THEN 1 ELSE 0)
           /\ Sizes(CodecPackets)[Len(CodecPackets)] =
                (IF v > 0 THEN 20 + v ELSE 0) + (IF a > 0 THEN 17 + a ELSE 0)
           /\ v > 0 => CodecPackets[1].video = TRUE
           /\ a > 0 => CodecPackets[Len(CodecPackets)].video = FALSE
           /\ \A j \in 1..Len(CodecPackets) : CodecPackets[j].sample = 0
           /\ \A fr : Declared(fr) = (fr.totalsize + 8 + 20 + v + 17 + a) % SizeWidth
<1>1. \A b \in BOOLEAN : extra[b] \in Nat
  <2>1. CodecSizes \cup {0} \subseteq Nat
    BY CodecSizesAssumption
  <2>2. \A b \in BOOLEAN : extra[b] \in CodecSizes \cup {0}
    BY Zenon DEF STypeOK
  <2> QED BY <2>1, <2>2, Zenon
<1>2. PICK v \in Nat : v = extra[TRUE]
  BY <1>1, Zenon
<1>3. PICK a \in Nat : a = extra[FALSE]
  BY <1>1, Zenon
<1>4. PICK p : p = CodecPacket(TRUE)
  OBVIOUS
<1>5. PICK q : q = CodecPacket(FALSE)
  OBVIOUS
<1>6. Framing(TRUE) = 20 /\ Framing(FALSE) = 17
  BY DEF Framing
<1>7. p = [video |-> TRUE, sample |-> 0, size |-> 20 + v]
  BY <1>2, <1>4, <1>6, Zenon DEF CodecPacket
<1>8. q = [video |-> FALSE, sample |-> 0, size |-> 17 + a]
  BY <1>3, <1>5, <1>6, Zenon DEF CodecPacket
<1>9. p \in Packet /\ q \in Packet
  BY <1>7, <1>8 DEF Packet
<1>10. PICK P :
       /\ P = (IF v > 0 THEN <<p>> ELSE <<>>) \o (IF a > 0 THEN <<q>> ELSE <<>>)
       /\ P \in Seq(Packet)
       /\ Len(P) = (IF v > 0 THEN 1 ELSE 0) + (IF a > 0 THEN 1 ELSE 0)
       /\ Sizes(P)[Len(P)] = (IF v > 0 THEN p.size ELSE 0) + (IF a > 0 THEN q.size ELSE 0)
       /\ v > 0 => P[1] = p
       /\ a > 0 => P[Len(P)] = q
       /\ \A j \in 1..Len(P) : P[j] \in {p, q}
  BY <1>9, TwoPackets, Zenon
<1>11. P = CodecPackets
  BY <1>2, <1>3, <1>4, <1>5, <1>10, Zenon DEF CodecPackets
<1>13. p.size = 20 + v /\ q.size = 17 + a /\ p.video = TRUE /\ q.video = FALSE
       /\ p.sample = 0 /\ q.sample = 0
  BY <1>7, <1>8
<1>14. /\ P \in Seq(Packet)
       /\ Len(P) = (IF v > 0 THEN 1 ELSE 0) + (IF a > 0 THEN 1 ELSE 0)
       /\ Sizes(P)[Len(P)] = (IF v > 0 THEN 20 + v ELSE 0) + (IF a > 0 THEN 17 + a ELSE 0)
       /\ v > 0 => P[1].video = TRUE
       /\ a > 0 => P[Len(P)].video = FALSE
       /\ \A j \in 1..Len(P) : P[j].sample = 0
  <2>1. /\ Len(P) = (IF v > 0 THEN 1 ELSE 0) + (IF a > 0 THEN 1 ELSE 0)
        /\ Sizes(P)[Len(P)] = (IF v > 0 THEN p.size ELSE 0) + (IF a > 0 THEN q.size ELSE 0)
        /\ v > 0 => P[1] = p
        /\ a > 0 => P[Len(P)] = q
        /\ \A j \in 1..Len(P) : P[j] \in {p, q}
    BY <1>10
  <2>2. P \in Seq(Packet)
    BY <1>10
  <2> QED BY <1>13, <2>1, <2>2
<1>15. \A fr : Declared(fr) = (fr.totalsize + 8 + 20 + v + 17 + a) % SizeWidth
  BY <1>2, <1>3, <1>6, Zenon DEF Declared
<1> QED
  BY <1>2, <1>3, <1>11, <1>14, <1>15, Zenon

(* A sample counts the same in a file as in the sum of generate_fragments. *)
LEMMA SampleCounts ==
  ASSUME TypeOK, NEW k \in 1..Len(Samples)
  PROVE  /\ SamplePacket(k) \in Packet /\ SamplePacket(k).size = PacketSize(Samples[k])
         /\ SamplePacket(k).sample = k
<1>1. k \in Nat /\ Samples[k].size \in Nat /\ Samples[k].video \in BOOLEAN
  BY MovieFacts DEF Sample
<1> QED
  BY <1>1 DEF SamplePacket, Packet, PacketSize, Framing

(* The samples before a position count one after the other. *)
LEMMA UptoOf ==
  ASSUME TypeOK
  PROVE  /\ Upto[0] = 0
         /\ \A k \in 1..Len(Samples) : Upto[k] = Upto[k - 1] + PacketSize(Samples[k])
         /\ \A k \in 0..Len(Samples) : Upto[k] \in Nat
<1> DEFINE P == [k \in 1..Len(Samples) |-> SamplePacket(k)]
<1>1. Len(Samples) \in Nat
  BY MovieFacts
<1>2. Len(P) = Len(Samples) /\ \A k \in 1..Len(Samples) : P[k] = SamplePacket(k)
  BY <1>1
<1>3. Upto = Sizes(P)
  BY DEF Upto
<1> HIDE DEF P
<1>4. \A k \in 1..Len(Samples) : P[k].size = PacketSize(Samples[k]) /\ P[k].size \in Nat
  <2> SUFFICES ASSUME NEW k \in 1..Len(Samples)
               PROVE  P[k].size = PacketSize(Samples[k]) /\ P[k].size \in Nat
    OBVIOUS
  <2>1. SamplePacket(k) \in Packet /\ SamplePacket(k).size = PacketSize(Samples[k])
    BY SampleCounts
  <2> QED BY <1>2, <2>1 DEF Packet
<1>5. /\ Sizes(P)[0] = 0
      /\ \A j \in 1..Len(P) : Sizes(P)[j] = Sizes(P)[j - 1] + P[j].size
      /\ \A j \in 0..Len(P) : Sizes(P)[j] \in Nat
  BY <1>1, <1>2, <1>4, SizesOf
<1> QED
  BY <1>2, <1>3, <1>4, <1>5
-----------------------------------------------------------------------------
(* Where a fragment begins and ends in the movie. *)
LEMMA EndsOf ==
  ASSUME IInv
  PROVE  /\ Len(Samples) \in Nat /\ Len(fragments) \in Nat \ {0}
         /\ \A i \in 1..Len(fragments) :
              /\ End(i) \in 0..Len(Samples) /\ EndBefore(i) \in 0..Len(Samples)
              /\ fragments[i].samples # <<>> =>
                   /\ Len(fragments[i].samples) \in Nat \ {0}
                   /\ End(i) = EndBefore(i) + Len(fragments[i].samples)
              /\ \A j \in 1..Len(fragments[i].samples) :
                   fragments[i].samples[j] = EndBefore(i) + j
<1>1. TypeOK /\ Lossless
  BY DEF IInv
<1>2. PICK l \in Nat : l = Len(Samples)
  BY <1>1, MovieFacts
<1>3. PICK n \in Nat \ {0} : n = Len(fragments)
  BY <1>1 DEF TypeOK
<1>4. ASSUME NEW i \in 1..n
      PROVE  /\ End(i) \in 0..l
             /\ fragments[i].samples # <<>> =>
                  /\ Len(fragments[i].samples) \in Nat \ {0}
                  /\ End(i) = fragments[i].samples[Len(fragments[i].samples)]
  <2>1. fragments[i] \in Fragment
    BY <1>1, <1>3 DEF TypeOK
  <2>2. PICK s \in Seq(1..l) : s = fragments[i].samples
    BY <1>2, <2>1 DEF Fragment
  <2>3. s # <<>> => Len(s) \in Nat \ {0} /\ s[Len(s)] \in 1..l
    OBVIOUS
  <2>4. End(i) = IF s = <<>> THEN 0 ELSE s[Len(s)]
    BY <2>2 DEF End
  <2> QED BY <2>2, <2>3, <2>4
<1>5. ASSUME NEW i \in 1..n PROVE EndBefore(i) \in 0..l
  BY <1>4 DEF EndBefore
<1>6. ASSUME NEW i \in 1..n, NEW j \in 1..Len(fragments[i].samples)
      PROVE  fragments[i].samples[j] = EndBefore(i) + j
  BY <1>1, <1>3 DEF Lossless
<1>7. ASSUME NEW i \in 1..n, fragments[i].samples # <<>>
      PROVE  End(i) = EndBefore(i) + Len(fragments[i].samples)
  <2>1. Len(fragments[i].samples) \in 1..Len(fragments[i].samples)
    BY <1>4, <1>7
  <2>2. fragments[i].samples[Len(fragments[i].samples)] = EndBefore(i) + Len(fragments[i].samples)
    BY <1>6, <2>1
  <2> QED BY <1>4, <1>7, <2>2
<1> QED
  BY <1>2, <1>3, <1>4, <1>5, <1>6, <1>7

(* The movie is an input. *)
LEMMA SameMovie ==
  ASSUME Samples' = Samples
  PROVE  /\ Upto' = Upto
         /\ \A k : SamplePacket(k)' = SamplePacket(k)
         /\ \A k : PacketSize(Samples[k])' = PacketSize(Samples[k])
<1>1. \A k : SamplePacket(k)' = SamplePacket(k)
  BY Zenon DEF SamplePacket
<1>2. [k \in 1..Len(Samples) |-> SamplePacket(k)]' = [k \in 1..Len(Samples) |-> SamplePacket(k)]
  BY <1>1
<1>3. Upto' = Upto
  BY <1>2, Zenon DEF Upto
<1>4. \A k : PacketSize(Samples[k])' = PacketSize(Samples[k])
  BY Zenon DEF PacketSize
<1> QED
  BY <1>1, <1>3, <1>4

(* No sample is counted at first. *)
LEMMA InitSized == Init => Sized
<1> SUFFICES ASSUME Init PROVE Sized
  OBVIOUS
<1>1. TypeOK
  BY InitInvariant DEF IInv
<1>2. /\ Len(fragments) = 1 /\ fragments[1].samples = <<>> /\ fragments[1].totalsize = 0
  BY DEF Init, NewFragment
<1>3. Upto[0] = 0 /\ End(1) = 0 /\ EndBefore(1) = 0
  BY <1>1, <1>2, UptoOf DEF End, EndBefore
<1> QED
  BY <1>2, <1>3 DEF Sized

(* The sample that opens a fragment is all it counts. *)
LEMMA StartKeepsSized == IInv /\ Sized /\ StartFragment => Sized'
<1> SUFFICES ASSUME IInv, Sized, StartFragment PROVE Sized'
  OBVIOUS
<1>a. TypeOK
  BY DEF IInv
<1>n. PICK n \in Nat \ {0} : n = Len(fragments)
  BY <1>a DEF TypeOK
<1>k. PICK k \in 1..Len(Samples) : k = Next_k
  BY <1>a, StartShape
<1>b. Samples' = Samples
  BY DEF StartFragment, inputs, Samples
<1>f. /\ Len(fragments') = n + 1
      /\ \A i \in 1..n : fragments'[i].samples = fragments[i].samples
      /\ \A i \in 1..n : fragments'[i].totalsize = fragments[i].totalsize
      /\ fragments'[n + 1].samples = <<k>>
      /\ fragments'[n + 1].totalsize = PacketSize(Samples[k])
  BY <1>a, <1>n, <1>k, StartShape
<1>g. (\A i \in 1..n : End(i)' = End(i)) /\ End(n + 1)' = k
  BY <1>k, <1>f DEF End
<1>h. (\A i \in 1..n : EndBefore(i)' = EndBefore(i)) /\ EndBefore(n + 1)' = k - 1
  <2>1. EndBefore(n + 1)' = End(n)'
    BY <1>n DEF EndBefore
  <2>2. End(n) = nsample /\ nsample = k - 1
    BY <1>a, <1>n, <1>k DEF IInv, Lossless, Next_k, TypeOK
  <2> QED BY <1>n, <1>g, <2>1, <2>2 DEF EndBefore
<1>1. Upto' = Upto
  BY <1>b, SameMovie
<1>2. Upto[k] = Upto[k - 1] + PacketSize(Samples[k]) /\ Upto[k] \in Nat /\ Upto[k - 1] \in Nat
  <2>1. k \in 0..Len(Samples) /\ k - 1 \in 0..Len(Samples)
    OBVIOUS
  <2> QED BY <1>a, <2>1, UptoOf
<1>3. ASSUME NEW i \in 1..(n + 1)
      PROVE  fragments'[i].totalsize = Upto[End(i)'] - Upto[EndBefore(i)']
  <2>1. CASE i \in 1..n
    BY <1>n, <1>f, <1>g, <1>h, <2>1 DEF Sized
  <2>2. CASE i = n + 1
    <3>1. PacketSize(Samples[k]) \in Nat
      BY <1>a, SampleCounts DEF Packet
    <3> QED BY <1>f, <1>g, <1>h, <1>2, <2>2, <3>1
  <2> QED BY <2>1, <2>2
<1> QED
  BY <1>f, <1>1, <1>3 DEF Sized

(* A sample that is added counts. *)
LEMMA ExtendKeepsSized == IInv /\ Sized /\ ExtendFragment => Sized'
<1> SUFFICES ASSUME IInv, Sized, ExtendFragment PROVE Sized'
  OBVIOUS
<1>a. TypeOK
  BY DEF IInv
<1>n. PICK n \in Nat \ {0} : n = Len(fragments)
  BY <1>a DEF TypeOK
<1>k. PICK k \in 1..Len(Samples) : k = Next_k
  BY <1>a, ExtendShape
<1>b. Samples' = Samples
  BY DEF ExtendFragment, inputs, Samples
<1>f. /\ Len(fragments') = n
      /\ \A i \in 1..(n - 1) : fragments'[i] = fragments[i]
      /\ fragments'[n].samples = Append(fragments[n].samples, k)
      /\ fragments'[n].totalsize = fragments[n].totalsize + PacketSize(Samples[k])
  BY <1>a, <1>n, <1>k, ExtendShape
<1>g. (\A i \in 1..(n - 1) : End(i)' = End(i)) /\ End(n)' = k
  <2>1. fragments[n].samples \in Seq(1..Len(Samples))
    <3>1. fragments[n] \in Fragment
      BY <1>a, <1>n DEF TypeOK
    <3> QED BY <3>1 DEF Fragment
  <2>2. PICK s : s = Append(fragments[n].samples, k)
    OBVIOUS
  <2>3. s # <<>> /\ s[Len(s)] = k
    BY <2>1, <2>2, AppendProperties
  <2> QED BY <1>f, <2>2, <2>3 DEF End
<1>h. \A i \in 1..n : EndBefore(i)' = EndBefore(i)
  BY <1>g, <1>n DEF EndBefore
<1>1. Upto' = Upto
  BY <1>b, SameMovie
<1>2. Upto[k] = Upto[k - 1] + PacketSize(Samples[k]) /\ Upto[k] \in Nat /\ Upto[k - 1] \in Nat
  <2>1. k \in 0..Len(Samples) /\ k - 1 \in 0..Len(Samples)
    OBVIOUS
  <2> QED BY <1>a, <2>1, UptoOf
<1>3. ASSUME NEW i \in 1..n
      PROVE  fragments'[i].totalsize = Upto[End(i)'] - Upto[EndBefore(i)']
  <2>1. CASE i \in 1..(n - 1)
    BY <1>n, <1>f, <1>g, <1>h, <2>1 DEF Sized
  <2>2. CASE i = n
    <3>1. PacketSize(Samples[k]) \in Nat
      BY <1>a, SampleCounts DEF Packet
    <3>2. End(n) = k - 1
      BY <1>a, <1>n, <1>k DEF IInv, Lossless, Next_k, TypeOK
    <3>3. fragments[n].totalsize = Upto[k - 1] - Upto[EndBefore(n)]
      BY <1>n, <3>2 DEF Sized
    <3>4. Upto[EndBefore(n)] \in Nat
      BY <1>a, <1>n, EndsOf, UptoOf, SMTT(60)
    <3> QED BY <1>f, <1>g, <1>h, <1>2, <2>2, <3>1, <3>3, <3>4
  <2> QED BY <2>1, <2>2
<1> QED
  BY <1>f, <1>1, <1>3 DEF Sized

(* The duration of the last fragment counts nothing. *)
LEMMA FinishKeepsSized == IInv /\ Sized /\ Finish => Sized'
<1> SUFFICES ASSUME IInv, Sized, Finish PROVE Sized'
  OBVIOUS
<1>n. PICK n \in Nat \ {0} : n = Len(fragments)
  BY DEF IInv, TypeOK
<1>f. /\ Len(fragments') = n
      /\ \A i \in 1..n : fragments'[i].samples = fragments[i].samples
      /\ \A i \in 1..n : fragments'[i].totalsize = fragments[i].totalsize
  BY <1>n, FinishShape DEF IInv
<1>g. \A i \in 1..n : End(i)' = End(i)
  BY <1>f DEF End
<1>h. \A i \in 1..n : EndBefore(i)' = EndBefore(i)
  BY <1>g, <1>n DEF EndBefore
<1>1. Upto' = Upto
  <2>1. Samples' = Samples
    BY DEF Finish, inputs, Samples
  <2> QED BY <2>1, SameMovie
<1> QED
  BY <1>n, <1>f, <1>g, <1>h, <1>1 DEF Sized

(* Writing changes nothing that was cut. *)
LEMMA StutterKeepsSized == Sized /\ UNCHANGED vars => Sized'
<1> SUFFICES ASSUME Sized, UNCHANGED vars PROVE Sized'
  OBVIOUS
<1>1. fragments' = fragments /\ Samples' = Samples
  BY DEF vars, Samples
<1>2. (\A i : End(i)' = End(i)) /\ (\A i : EndBefore(i)' = EndBefore(i)) /\ Upto' = Upto
  BY <1>1, SameMovie DEF End, EndBefore
<1> QED
  BY <1>1, <1>2 DEF Sized
-----------------------------------------------------------------------------
(* sputn of the packets q, of b bytes, to the last of the files F. *)
PutIn(F, b, q) == [F EXCEPT ![Len(F)].length = @ + b, ![Len(F)].packets = @ \o q]

(* What that makes of them: only the last one changes. *)
AddsToLast(G, F, b, q) ==
  /\ G \in Seq(OutputFile) /\ Len(G) = Len(F)
  /\ \A i \in 1..Len(F) : i # Len(F) => G[i] = F[i]
  /\ G[Len(F)].declared = F[Len(F)].declared
  /\ G[Len(F)].length = F[Len(F)].length + b
  /\ G[Len(F)].packets = F[Len(F)].packets \o q

(* It is what Put does. *)
LEMMA PutOf ==
  ASSUME NEW F \in Seq(OutputFile), F # <<>>, NEW q \in Seq(Packet), NEW b \in Nat,
         NEW G, G = PutIn(F, b, q)
  PROVE  AddsToLast(G, F, b, q)
<1>1. PICK l \in 1..Len(F) : l = Len(F)
  OBVIOUS
<1>2. PICK f \in OutputFile : f = F[l]
  BY <1>1, ElementOf, Zenon
<1>3. PICK r \in Seq(Packet) : r = f.packets \o q
  <2>1. f.packets \in Seq(Packet)
    BY DEF OutputFile
  <2> QED BY <2>1, ConcatProperties
<1>4. PICK t \in Nat : t = f.length + b
  BY DEF OutputFile
<1>a. PICK e : e = [f EXCEPT !.length = t, !.packets = r]
  OBVIOUS
<1>5. e \in OutputFile /\ e.declared = f.declared /\ e.length = t /\ e.packets = r
  BY <1>a DEF OutputFile
<1>6. G = [F EXCEPT ![l] = e]
  <2>1. G = [F EXCEPT ![l] = [f EXCEPT !.length = f.length + b, !.packets = f.packets \o q]]
    BY <1>1, <1>2 DEF PutIn, OutputFile
  <2> QED BY <1>3, <1>4, <1>a, <2>1, Zenon
<1>7. [F EXCEPT ![l] = e] \in Seq(OutputFile) /\ Len([F EXCEPT ![l] = e]) = Len(F)
      /\ \A i \in 1..Len(F) : [F EXCEPT ![l] = e][i] = IF i = l THEN e ELSE F[i]
  BY <1>1, <1>5, ExceptSeq, SMTT(30)
<1>8. /\ G \in Seq(OutputFile) /\ Len(G) = Len(F)
      /\ \A i \in 1..Len(F) : G[i] = IF i = l THEN e ELSE F[i]
  BY <1>6, <1>7, Zenon
<1>9. G[l] = e /\ \A i \in 1..Len(F) : i # l => G[i] = F[i]
  BY <1>8, Zenon
<1>10. G[l].declared = f.declared /\ G[l].length = f.length + b /\ G[l].packets = f.packets \o q
  BY <1>3, <1>4, <1>5, <1>9, Zenon
<1> QED
  BY <1>1, <1>2, <1>8, <1>9, <1>10, Zenon DEF AddsToLast

(* What a file should hold does not change while files are written. *)
LEMMA SameFragments ==
  ASSUME SIInv, UNCHANGED <<vars, extra>>
  PROVE  /\ IInv' /\ Sized'
         /\ \A e, i, w : Holds(e, i, w)' <=> Holds(e, i, w)
         /\ \A fr : Declared(fr)' = Declared(fr)
         /\ \A video \in BOOLEAN : (extra[video] > 0 <=> HasTrack(video))'
         /\ CodecPackets' = CodecPackets
         /\ fragments' = fragments /\ pc' = pc
<1>1. IInv' /\ Sized'
  BY StutterKeepsInvariant, StutterKeepsSized DEF SIInv
<1>2. fragments' = fragments /\ Samples' = Samples /\ extra' = extra /\ pc' = pc
  BY DEF vars, Samples
<1>3. \A fr : Declared(fr)' = Declared(fr)
  BY <1>2, Zenon DEF Declared, Framing
<1>4. CodecPackets' = CodecPackets
  BY <1>2, Zenon DEF CodecPackets, CodecPacket
<1>5. (\A i : EndBefore(i)' = EndBefore(i)) /\ Upto' = Upto
      /\ \A k : SamplePacket(k)' = SamplePacket(k)
  BY <1>2, SameMovie DEF EndBefore, End
<1>6. \A e, i, w : Holds(e, i, w)' <=> Holds(e, i, w)
  BY <1>2, <1>3, <1>4, <1>5, Zenon DEF Holds
<1>7. \A video \in BOOLEAN : (extra[video] > 0 <=> HasTrack(video))'
  <2>1. \A video \in BOOLEAN : extra[video] > 0 <=> HasTrack(video)
    BY DEF SIInv
  <2>2. \A video \in BOOLEAN : HasTrack(video)' <=> HasTrack(video)
    BY <1>2, Zenon DEF HasTrack
  <2> QED BY <1>2, <2>1, <2>2, Zenon
<1> QED
  BY <1>1, <1>2, <1>3, <1>4, <1>6, <1>7

(* The files written keep the invariant when what is new in them is right. *)
LEMMA WritingKeeps ==
  ASSUME SIInv, UNCHANGED <<vars, extra>>,
         files' \in Seq(OutputFile), Len(files') <= Len(fragments),
         pc = "done", state' \in {"next", "prefix", "samples", "failed", "done"},
         state' = "done" => Len(files') = Len(fragments),
         CompleteHold', OpenHolds'
  PROVE  SIInv'
<1>1. /\ IInv' /\ Sized' /\ fragments' = fragments /\ pc' = pc
      /\ \A video \in BOOLEAN : (extra[video] > 0 <=> HasTrack(video))'
  BY SameFragments
<1>2. STypeOK'
  <2>1. extra' = extra /\ Packet' = Packet /\ OutputFile' = OutputFile
    BY DEF Packet, OutputFile
  <2> QED BY <1>1, <2>1 DEF SIInv, STypeOK
<1>3. state' # "cutting"
  OBVIOUS
<1> QED
  BY <1>1, <1>2, <1>3 DEF SIInv

(* The invariant holds before the first fragment is cut. *)
LEMMA SInitInvariant == SInit => SIInv
<1> SUFFICES ASSUME SInit PROVE SIInv
  OBVIOUS
<1>1. IInv /\ Sized
  BY InitInvariant, InitSized DEF SInit
<1>2. files = <<>> /\ state = "cutting" /\ Len(files) = 0 /\ Len(fragments) \in Nat
  BY <1>1 DEF SInit, IInv, TypeOK
<1>3. STypeOK
  BY <1>2 DEF SInit, STypeOK
<1>4. CompleteHold /\ OpenHolds
  BY <1>2 DEF CompleteHold, OpenHolds, Complete
<1>5. \A video \in BOOLEAN : extra[video] > 0 <=> HasTrack(video)
  BY DEF SInit
<1> QED
  BY <1>1, <1>2, <1>3, <1>4, <1>5 DEF SIInv

(* Cutting comes before the first file. *)
LEMMA CutMovieKeeps == SIInv /\ CutMovie => SIInv'
<1> SUFFICES ASSUME SIInv, CutMovie PROVE SIInv'
  OBVIOUS
<1>1. IInv' /\ Sized'
  BY StartKeepsInvariant, ExtendKeepsInvariant, FinishKeepsInvariant,
     StartKeepsSized, ExtendKeepsSized, FinishKeepsSized DEF SIInv, CutMovie, Next
<1>2. /\ state = "cutting" /\ state' = "cutting" /\ files' = files /\ extra' = extra
      /\ Samples' = Samples
  BY DEF CutMovie, Next, StartFragment, ExtendFragment, Finish, inputs, Samples
<1>3. files = <<>> /\ files' = <<>> /\ Len(files') = 0 /\ Len(fragments') \in Nat
  BY <1>1, <1>2 DEF SIInv, IInv, TypeOK
<1>4. STypeOK'
  BY <1>2, <1>3 DEF SIInv, STypeOK, OutputFile, Packet
<1>5. CompleteHold' /\ OpenHolds'
  BY <1>2, <1>3 DEF CompleteHold, OpenHolds, Complete
<1>6. \A video \in BOOLEAN : (extra[video] > 0 <=> HasTrack(video))'
  <2>1. \A video \in BOOLEAN : extra[video] > 0 <=> HasTrack(video)
    BY DEF SIInv
  <2>2. \A video \in BOOLEAN : HasTrack(video)' <=> HasTrack(video)
    BY <1>2, Zenon DEF HasTrack
  <2> QED BY <1>2, <2>1, <2>2, Zenon
<1> QED
  BY <1>1, <1>2, <1>3, <1>4, <1>5, <1>6 DEF SIInv

(* Opening a file completes none; nor does failing to, or to close it. *)
LEMMA OpenKeeps ==
  SIInv /\ (StartWriting \/ OpenFile \/ FailToOpen \/ CrashOnEmpty \/ EndFiles) => SIInv'
<1> SUFFICES ASSUME SIInv, StartWriting \/ OpenFile \/ FailToOpen \/ CrashOnEmpty \/ EndFiles
             PROVE  SIInv'
  OBVIOUS
<1>1. /\ STypeOK /\ UNCHANGED <<vars, extra>> /\ pc = "done"
      /\ state' \in {"next", "prefix", "failed", "done"}
  BY DEF SIInv, StartWriting, OpenFile, FailToOpen, CrashOnEmpty, EndFiles
<1>2. PICK n \in Nat : n = Len(files)
  BY <1>1 DEF STypeOK
<1>3. files \in Seq(OutputFile) /\ n <= Len(fragments) /\ Len(fragments) \in Nat
  BY <1>1, <1>2 DEF STypeOK, SIInv, IInv, TypeOK
<1>4. PICK d : d = Declared(fragments[n + 1])
  OBVIOUS
<1>5. \A e, i, w : Holds(e, i, w)' <=> Holds(e, i, w)
  BY <1>1, SameFragments
<1>6. fragments' = fragments /\ \A fr : Declared(fr)' = Declared(fr)
  BY <1>1, SameFragments
<1>7. CASE OpenFile
  <2>1. d \in Nat
    <3>1. PICK v \in Nat, a \in Nat : \A fr : Declared(fr) = (fr.totalsize + 8 + 20 + v + 17 + a) % SizeWidth
      BY <1>1, CodecFacts
    <3>2. n + 1 \in 1..Len(fragments)
      BY <1>2, <1>3, <1>7 DEF OpenFile
    <3>3. fragments[n + 1] \in Fragment
      BY <3>2 DEF SIInv, IInv, TypeOK
    <3>4. PICK t \in Nat : t = fragments[n + 1].totalsize
      BY <3>3 DEF Fragment
    <3>5. d = (t + 8 + 20 + v + 17 + a) % SizeWidth
      BY <1>4, <3>1, <3>4
    <3> QED BY <3>5, SizeWidthAssumption
  <2> DEFINE e == [declared |-> d, length |-> 8, packets |-> <<>>]
  <2>2. e \in OutputFile
    BY <2>1 DEF OutputFile
  <2>3. e.declared = d /\ e.length = 8 /\ e.packets = <<>>
    OBVIOUS
  <2>4. files' = Append(files, e) /\ state = "next" /\ state' = "prefix" /\ n < Len(fragments)
    BY <1>2, <1>4, <1>7 DEF OpenFile
  <2> HIDE DEF e
  <2>5. /\ files' \in Seq(OutputFile) /\ Len(files') = n + 1
        /\ \A i \in 1..n : files'[i] = files[i]
        /\ files'[n + 1] = e
    BY <1>2, <1>3, <2>2, <2>4, AppendProperties
  <2>6. CompleteHold'
    <3>1. Complete = 1..n /\ Complete' = 1..n
      BY <1>2, <2>4, <2>5 DEF Complete
    <3> QED BY <1>5, <1>6, <2>5, <3>1 DEF SIInv, CompleteHold
  <2>7. OpenHolds'
    <3>1. File' = e /\ Current' = fragments[n + 1] /\ files' # <<>>
      BY <1>6, <2>5 DEF File, Current
    <3> QED BY <1>4, <1>6, <2>3, <2>4, <3>1 DEF OpenHolds
  <2> QED BY <1>1, <1>3, <2>4, <2>5, <2>6, <2>7, WritingKeeps
<1>8. CASE ~OpenFile
  <2>1. files' = files /\ state' # "prefix" /\ (state' = "done" => Len(files) = Len(fragments))
    BY <1>8 DEF StartWriting, FailToOpen, CrashOnEmpty, EndFiles
  <2>2. Complete' \subseteq Complete
    BY <1>2, <1>8, <2>1 DEF Complete, StartWriting, FailToOpen, CrashOnEmpty, EndFiles
  <2>3. CompleteHold'
    BY <1>5, <1>6, <2>1, <2>2 DEF SIInv, CompleteHold
  <2>4. OpenHolds'
    BY <1>1, <2>1 DEF OpenHolds
  <2> QED BY <1>1, <1>2, <1>3, <2>1, <2>3, <2>4, WritingKeeps
<1> QED
  BY <1>7, <1>8

(* The file that is open is that of a fragment that was cut. *)
LEMMA OpenFileOf ==
  ASSUME SIInv, files # <<>>
  PROVE  \E n \in Nat \ {0} :
           /\ n = Len(files) /\ n \in 1..Len(fragments) /\ files \in Seq(OutputFile)
           /\ Current = fragments[n] /\ File = files[n]
           /\ Complete \subseteq 1..n
<1>1. files \in Seq(OutputFile) /\ Len(files) <= Len(fragments) /\ Len(fragments) \in Nat
  BY DEF SIInv, STypeOK, IInv, TypeOK
<1>2. PICK n \in Nat \ {0} : n = Len(files)
  BY <1>1
<1>3. Complete \subseteq 1..n
  BY <1>2 DEF Complete
<1> QED
  BY <1>1, <1>2, <1>3 DEF Current, File

(* The codec data follows the header. *)
LEMMA WritePrefixKeeps == SIInv /\ WritePrefix => SIInv'
<1> SUFFICES ASSUME SIInv, WritePrefix PROVE SIInv'
  OBVIOUS
<1>1. /\ state = "prefix" /\ state' = "samples" /\ UNCHANGED <<vars, extra>>
      /\ Current.samples # <<>> /\ pc = "done"
      /\ files # <<>> /\ File.declared = Declared(Current)
      /\ File.length = 8 /\ File.packets = <<>>
  BY DEF WritePrefix, SIInv, OpenHolds
<1>2. PICK n \in Nat \ {0} :
        /\ n = Len(files) /\ n \in 1..Len(fragments) /\ files \in Seq(OutputFile)
        /\ Current = fragments[n] /\ File = files[n]
        /\ Complete \subseteq 1..n
  BY <1>1, OpenFileOf
<1>3. PICK q \in Seq(Packet) : q = CodecPackets
  BY CodecFacts DEF SIInv
<1>4. PICK b \in Nat : b = Sizes(CodecPackets)[Len(CodecPackets)]
  <2>1. \A j \in 1..Len(q) : q[j].size \in Nat
    <3>1. \A j \in 1..Len(q) : q[j] \in Packet
      BY ElementOf
    <3> QED BY <3>1 DEF Packet
  <2>2. Len(q) \in Nat
    OBVIOUS
  <2>3. \A j \in 0..Len(q) : Sizes(q)[j] \in Nat
    BY <2>1, <2>2, SizesOf
  <2>4. Sizes(q)[Len(q)] \in Nat
    BY <2>2, <2>3
  <2> QED BY <1>3, <2>4
<1>5. files' = PutIn(files, b, q)
  BY <1>3, <1>4, Zenon DEF WritePrefix, Put, PutIn
<1>6. PICK G : G = files'
  OBVIOUS
<1>7. /\ G \in Seq(OutputFile) /\ Len(G) = n
      /\ \A i \in 1..n : i # n => G[i] = files[i]
      /\ G[n].declared = File.declared /\ G[n].length = 8 + b
      /\ G[n].packets = File.packets \o q
  <2>1. PICK F \in Seq(OutputFile) : F = files
    BY <1>2
  <2>2. F # <<>> /\ Len(F) = n /\ F[n] = File
        /\ G = PutIn(F, b, q)
    BY <1>1, <1>2, <1>5, <1>6, <2>1
  <2>3. AddsToLast(G, F, b, q)
    BY <2>2, PutOf
  <2> QED BY <1>1, <2>1, <2>2, <2>3, Zenon DEF AddsToLast
<1>8. G[n].packets = q
  BY <1>1, <1>7, ConcatEmptySeq
<1>9. Holds(G[n], n, 0)
  <2>1. EndBefore(n) + 0 = EndBefore(n) /\ Upto[EndBefore(n)] \in Nat
    BY <1>2, EndsOf, UptoOf DEF SIInv, IInv
  <2>2. Len(q) \in Nat /\ Len(q) + 0 = Len(q)
    OBVIOUS
  <2>3. G[n].declared = Declared(fragments[n]) /\ Len(G[n].packets) = Len(q) + 0
    BY <1>1, <1>2, <1>7, <1>8, <2>2
  <2>4. G[n].length = 8 + b + (Upto[EndBefore(n) + 0] - Upto[EndBefore(n)])
    BY <1>7, <2>1
  <2> QED BY <1>3, <1>4, <1>8, <2>3, <2>4 DEF Holds
<1>10. \A e, i, w : Holds(e, i, w)' <=> Holds(e, i, w)
  BY <1>1, SameFragments
<1>11. fragments' = fragments
  BY <1>1, SameFragments
<1>12. CompleteHold'
  <2>1. Complete = 1..(n - 1) /\ Complete' = 1..(n - 1)
    BY <1>1, <1>2, <1>6, <1>7 DEF Complete
  <2>2. \A i \in Complete : files'[i] = files[i]
    BY <1>6, <1>7, <2>1
  <2> QED BY <1>10, <1>11, <2>1, <2>2 DEF SIInv, CompleteHold
<1>13. OpenHolds'
  <2>1. File' = G[n] /\ Current' = fragments[n] /\ files' # <<>> /\ Len(files') = n
    BY <1>6, <1>7, <1>11 DEF File, Current
  <2>2. 0 \in 0..Len(fragments[n].samples)
    BY <1>1, <1>2, EndsOf DEF SIInv
  <2>3. Holds(G[n], n, 0)'
    BY <1>6, <1>9, <1>10
  <2> QED BY <1>1, <1>2, <2>1, <2>2, <2>3 DEF OpenHolds
<1> QED
  BY <1>1, <1>2, <1>6, <1>7, <1>12, <1>13, WritingKeeps

(* How many samples the open file holds. *)
LEMMA WrittenIs ==
  ASSUME SIInv, state = "samples"
  PROVE  \E w \in 0..Len(Current.samples) :
           Holds(File, Len(files), w) /\ Written = w /\ Len(Current.samples) \in Nat
<1>1. /\ files # <<>> /\ Current.samples # <<>>
      /\ \E w \in 0..Len(Current.samples) : Holds(File, Len(files), w)
  BY DEF SIInv, OpenHolds
<1>2. PICK w \in 0..Len(Current.samples) : Holds(File, Len(files), w)
  BY <1>1
<1>3. CodecPackets \in Seq(Packet)
  BY CodecFacts DEF SIInv
<1>4. Len(CodecPackets) \in Nat /\ Len(File.packets) = Len(CodecPackets) + w
  BY <1>2, <1>3 DEF Holds
<1>5. Len(Current.samples) \in Nat
  <2>1. PICK n \in 1..Len(fragments) : Current = fragments[n]
    BY <1>1, OpenFileOf
  <2> QED BY <1>1, <2>1, EndsOf DEF SIInv
<1> QED
  BY <1>2, <1>4, <1>5 DEF Written

(* The next sample of the fragment follows those that were written. *)
LEMMA WriteSampleKeeps == SIInv /\ WriteSample => SIInv'
<1> SUFFICES ASSUME SIInv, WriteSample PROVE SIInv'
  OBVIOUS
<1>1. /\ state = "samples" /\ state' = "samples" /\ UNCHANGED <<vars, extra>>
      /\ Current.samples # <<>> /\ pc = "done" /\ files # <<>>
  BY DEF WriteSample, SIInv, OpenHolds
<1>2. PICK n \in Nat \ {0} :
        /\ n = Len(files) /\ n \in 1..Len(fragments) /\ files \in Seq(OutputFile)
        /\ Current = fragments[n] /\ File = files[n]
        /\ Complete \subseteq 1..n
  BY <1>1, OpenFileOf
<1>3. PICK w \in Nat : /\ Holds(files[n], n, w) /\ Written = w
                       /\ w < Len(fragments[n].samples) /\ Len(fragments[n].samples) \in Nat
  <2>1. PICK w \in 0..Len(Current.samples) :
          Holds(File, Len(files), w) /\ Written = w /\ Len(Current.samples) \in Nat
    BY <1>1, WrittenIs
  <2>2. Written < Len(Current.samples)
    BY DEF WriteSample
  <2> QED BY <1>2, <2>1, <2>2
<1>4. PICK k \in 1..Len(Samples) : k = EndBefore(n) + w + 1 /\ k = fragments[n].samples[w + 1]
  <2>1. fragments[n].samples # <<>> /\ w + 1 \in 1..Len(fragments[n].samples)
    BY <1>1, <1>2, <1>3
  <2>2. /\ EndBefore(n) \in Nat /\ End(n) \in 0..Len(Samples) /\ Len(Samples) \in Nat
        /\ End(n) = EndBefore(n) + Len(fragments[n].samples)
        /\ fragments[n].samples[w + 1] = EndBefore(n) + (w + 1)
    BY <1>2, <2>1, EndsOf DEF SIInv
  <2> QED BY <1>3, <2>1, <2>2
<1>5. PICK p \in Packet : p = SamplePacket(k)
  BY SampleCounts DEF SIInv, IInv
<1>6. p.size = PacketSize(Samples[k]) /\ p.size \in Nat
  <2>1. p.size = PacketSize(Samples[k])
    BY <1>5, SampleCounts DEF SIInv, IInv
  <2> QED BY <2>1 DEF Packet
<1>7. PICK q \in Seq(Packet) : q = <<p>>
  <2>1. <<p>> \in Seq(Packet)
    OBVIOUS
  <2> QED BY <2>1
<1>8. Len(q) = 1 /\ q[1] = p /\ Sizes(q)[Len(q)] = p.size
  <2>1. Len(q) = 1 /\ q[1] = p
    BY <1>7
  <2>2. Sizes(<<p>>)[1] = p.size
    BY <1>6, OnePacket
  <2> QED BY <1>7, <2>1, <2>2
<1>9. PICK b \in Nat : b = p.size
  BY <1>6
<1>10. files' = PutIn(files, b, q)
  <2>1. q = <<SamplePacket(Current.samples[Written + 1])>>
    BY <1>2, <1>3, <1>4, <1>5, <1>7, Zenon
  <2> QED BY <1>8, <1>9, <2>1, Zenon DEF WriteSample, Put, PutIn
<1>11. PICK G : G = files'
  OBVIOUS
<1>12. /\ G \in Seq(OutputFile) /\ Len(G) = n
       /\ \A i \in 1..n : i # n => G[i] = files[i]
       /\ G[n].declared = files[n].declared /\ G[n].length = files[n].length + b
       /\ G[n].packets = files[n].packets \o q
  <2>1. PICK F \in Seq(OutputFile) : F = files
    BY <1>2
  <2>2. F # <<>> /\ Len(F) = n
        /\ G = PutIn(F, b, q)
    BY <1>1, <1>2, <1>10, <1>11, <2>1
  <2>3. AddsToLast(G, F, b, q)
    BY <2>2, PutOf
  <2> QED BY <2>1, <2>2, <2>3, Zenon DEF AddsToLast
<1>13. PICK c \in Nat : c = Len(CodecPackets)
  <2>1. CodecPackets \in Seq(Packet)
    BY CodecFacts DEF SIInv
  <2> QED BY <2>1
<1>14. PICK r \in Seq(Packet) : r = files[n].packets
  <2>1. files[n] \in OutputFile
    BY <1>2, ElementOf
  <2> QED BY <2>1 DEF OutputFile
<1>15. /\ Len(r) = c + w
       /\ \A j \in 1..c : r[j] = CodecPackets[j]
       /\ \A j \in 1..w : r[c + j] = SamplePacket(EndBefore(n) + j)
       /\ files[n].declared = Declared(fragments[n])
       /\ files[n].length = 8 + Sizes(CodecPackets)[c]
                              + (Upto[EndBefore(n) + w] - Upto[EndBefore(n)])
  BY <1>3, <1>13, <1>14 DEF Holds
<1>16. PICK u : u = r \o q
  OBVIOUS
<1>17. /\ Len(u) = c + w + 1 /\ u[c + w + 1] = p
       /\ \A j \in 1..(c + w) : u[j] = r[j]
  <2>1. /\ Len(u) = Len(r) + Len(q)
        /\ \A j \in 1..(Len(r) + Len(q)) : u[j] = IF j <= Len(r) THEN r[j] ELSE q[j - Len(r)]
    BY <1>16, ConcatProperties
  <2>2. PICK l \in Nat : l = c + w
    OBVIOUS
  <2>3. Len(r) = l /\ Len(q) = 1
    BY <1>8, <1>15, <2>2
  <2>4. Len(u) = l + 1 /\ \A j \in 1..(l + 1) : u[j] = IF j <= l THEN r[j] ELSE q[j - l]
    BY <2>1, <2>3
  <2>5. u[l + 1] = q[1]
    <3>1. l + 1 \in 1..(l + 1) /\ ~(l + 1 <= l) /\ l + 1 - l = 1
      BY <2>2
    <3> QED BY <2>4, <3>1
  <2>6. \A j \in 1..l : u[j] = r[j]
    BY <2>4
  <2> QED BY <1>8, <2>2, <2>4, <2>5, <2>6
<1>18. Holds(G[n], n, w + 1)
  <2>1. /\ \A j \in 1..c : u[j] = CodecPackets[j]
        /\ \A j \in 1..(w + 1) : u[c + j] = SamplePacket(EndBefore(n) + j)
    <3>1. ASSUME NEW j \in 1..c PROVE u[j] = CodecPackets[j]
      BY <1>15, <1>17
    <3>2. ASSUME NEW j \in 1..(w + 1) PROVE u[c + j] = SamplePacket(EndBefore(n) + j)
      <4>1. CASE j = w + 1
        <5>1. EndBefore(n) \in Nat
          BY <1>2, EndsOf DEF SIInv
        <5>2. c + j = c + w + 1 /\ EndBefore(n) + j = k
          BY <1>4, <4>1, <5>1
        <5> QED BY <1>5, <1>17, <5>2
      <4>2. CASE j \in 1..w
        <5>1. u[c + j] = r[c + j]
          BY <1>17, <4>2
        <5> QED BY <1>15, <4>2, <5>1
      <4> QED BY <4>1, <4>2
    <3> QED BY <3>1, <3>2
  <2>2. G[n].packets = u /\ Len(u) = c + (w + 1)
    BY <1>12, <1>14, <1>16, <1>17
  <2>3. G[n].length = 8 + Sizes(CodecPackets)[c]
                        + (Upto[EndBefore(n) + (w + 1)] - Upto[EndBefore(n)])
    <3>1. PICK x \in Nat : x = EndBefore(n)
      BY <1>2, EndsOf DEF SIInv
    <3>2. k = x + w + 1 /\ k - 1 = x + w /\ x + (w + 1) = k
      BY <1>4, <3>1
    <3>3. Upto[k] = Upto[k - 1] + b
      <4>1. Upto[k] = Upto[k - 1] + PacketSize(Samples[k])
        BY UptoOf DEF SIInv, IInv
      <4> QED BY <1>6, <1>9, <4>1
    <3>4. Upto[k] \in Nat /\ Upto[k - 1] \in Nat /\ Upto[x] \in Nat
      <4>1. k \in 0..Len(Samples) /\ k - 1 \in 0..Len(Samples) /\ x \in 0..Len(Samples)
        BY <1>2, <3>1, EndsOf DEF SIInv
      <4> QED BY <4>1, UptoOf DEF SIInv, IInv
    <3>5. PICK z \in Nat : z = Sizes(CodecPackets)[c]
      <4>1. PICK v \in Nat, a \in Nat :
              Sizes(CodecPackets)[Len(CodecPackets)] =
                (IF v > 0 THEN 20 + v ELSE 0) + (IF a > 0 THEN 17 + a ELSE 0)
        BY CodecFacts DEF SIInv
      <4> QED BY <1>13, <4>1
    <3>6. G[n].length = 8 + z + (Upto[k - 1] - Upto[x]) + b
      BY <1>12, <1>15, <3>1, <3>2, <3>5
    <3>7. G[n].length = 8 + z + (Upto[k] - Upto[x])
      BY <3>3, <3>4, <3>6, SMTT(60)
    <3> QED BY <3>1, <3>2, <3>5, <3>7
  <2> QED BY <1>12, <1>13, <1>15, <2>1, <2>2, <2>3 DEF Holds
<1>19. \A e, i, x : Holds(e, i, x)' <=> Holds(e, i, x)
  BY <1>1, SameFragments
<1>20. fragments' = fragments
  BY <1>1, SameFragments
<1>21. CompleteHold'
  <2>1. Complete = 1..(n - 1) /\ Complete' = 1..(n - 1)
    BY <1>1, <1>2, <1>11, <1>12 DEF Complete
  <2>2. \A i \in Complete : files'[i] = files[i]
    BY <1>11, <1>12, <2>1
  <2> QED BY <1>19, <1>20, <2>1, <2>2 DEF SIInv, CompleteHold
<1>22. OpenHolds'
  <2>1. File' = G[n] /\ Current' = fragments[n] /\ files' # <<>> /\ Len(files') = n
    BY <1>11, <1>12, <1>20 DEF File, Current
  <2>2. w + 1 \in 0..Len(fragments[n].samples)
    BY <1>3
  <2>3. Holds(G[n], n, w + 1)'
    BY <1>11, <1>18, <1>19
  <2> QED BY <1>1, <1>2, <2>1, <2>2, <2>3 DEF OpenHolds
<1> QED
  BY <1>1, <1>2, <1>11, <1>12, <1>21, <1>22, WritingKeeps

(* A file is closed when it holds its fragment. *)
LEMMA CloseFileKeeps == SIInv /\ CloseFile => SIInv'
<1> SUFFICES ASSUME SIInv, CloseFile PROVE SIInv'
  OBVIOUS
<1>1. /\ state = "samples" /\ state' \in {"next", "failed"} /\ UNCHANGED <<vars, extra, files>>
      /\ Current.samples # <<>> /\ pc = "done" /\ files # <<>> /\ files' = files
      /\ Written = Len(Current.samples)
  BY DEF CloseFile, SIInv, OpenHolds
<1>2. PICK n \in Nat \ {0} :
        /\ n = Len(files) /\ n \in 1..Len(fragments) /\ files \in Seq(OutputFile)
        /\ Current = fragments[n] /\ File = files[n]
        /\ Complete \subseteq 1..n
  BY <1>1, OpenFileOf
<1>3. Holds(files[n], n, Len(fragments[n].samples)) /\ fragments[n].samples # <<>>
  <2>1. PICK w \in 0..Len(Current.samples) : Holds(File, Len(files), w) /\ Written = w
    BY <1>1, WrittenIs
  <2> QED BY <1>1, <1>2, <2>1
<1>4. \A e, i, w : Holds(e, i, w)' <=> Holds(e, i, w)
  BY <1>1, SameFragments
<1>5. fragments' = fragments
  BY <1>1, SameFragments
<1>6. CompleteHold'
  <2>1. Complete = 1..(n - 1) /\ Complete' \subseteq 1..n
    BY <1>1, <1>2 DEF Complete
  <2>2. ASSUME NEW i \in 1..n
        PROVE  fragments[i].samples # <<>> /\ Holds(files[i], i, Len(fragments[i].samples))
    BY <1>3, <2>1 DEF SIInv, CompleteHold
  <2> QED BY <1>1, <1>4, <1>5, <2>1, <2>2 DEF CompleteHold
<1>7. OpenHolds'
  BY <1>1 DEF OpenHolds
<1> QED
  BY <1>1, <1>2, <1>6, <1>7, WritingKeeps

(* A stuttering step changes nothing. *)
LEMMA IdleKeeps == SIInv /\ UNCHANGED svars => SIInv'
<1> SUFFICES ASSUME SIInv, UNCHANGED svars PROVE SIInv'
  OBVIOUS
<1>1. UNCHANGED <<vars, extra>> /\ files' = files /\ state' = state /\ vars' = vars
  BY DEF svars
<1>2. /\ IInv' /\ Sized' /\ fragments' = fragments /\ pc' = pc
      /\ \A e, i, w : Holds(e, i, w)' <=> Holds(e, i, w)
      /\ \A fr : Declared(fr)' = Declared(fr)
      /\ \A video \in BOOLEAN : (extra[video] > 0 <=> HasTrack(video))'
  BY <1>1, SameFragments
<1>3. STypeOK'
  BY <1>1, <1>2 DEF SIInv, STypeOK, OutputFile, Packet
<1>4. CompleteHold'
  <2>1. Complete' = Complete
    BY <1>1 DEF Complete
  <2> QED BY <1>1, <1>2, <2>1 DEF SIInv, CompleteHold
<1>5. OpenHolds'
  <2>1. File' = File /\ Current' = Current
    BY <1>1, <1>2 DEF File, Current
  <2> QED BY <1>1, <1>2, <2>1 DEF SIInv, OpenHolds
<1> QED
  BY <1>1, <1>2, <1>3, <1>4, <1>5 DEF SIInv

(* Whatever movie is written, each file is the beginning of what it should  *)
(* be.                                                                      *)
THEOREM SInvariance == SSpec => []SIInv
<1>1. SIInv /\ [SNext]_svars => SIInv'
  BY CutMovieKeeps, OpenKeeps, WritePrefixKeeps, WriteSampleKeeps, CloseFileKeeps,
     IdleKeeps DEF SNext
<1> QED
  BY SInitInvariant, <1>1, PTL DEF SSpec
-----------------------------------------------------------------------------
(* A complete file is that of a fragment with samples. *)
LEMMA CompleteFile ==
  ASSUME SIInv, NEW i \in Complete
  PROVE  \E w \in Nat \ {0} :
           /\ w = Len(fragments[i].samples) /\ i \in 1..Len(fragments) /\ i \in 1..Len(files)
           /\ Holds(files[i], i, w)
           /\ End(i) = EndBefore(i) + w /\ EndBefore(i) \in Nat
<1>1. Len(files) \in Nat /\ Len(files) <= Len(fragments) /\ Len(fragments) \in Nat
  BY DEF SIInv, STypeOK, IInv, TypeOK
<1>2. i \in 1..Len(files) /\ i \in 1..Len(fragments)
  BY <1>1 DEF Complete
<1>3. fragments[i].samples # <<>> /\ Holds(files[i], i, Len(fragments[i].samples))
  BY DEF SIInv, CompleteHold
<1>4. /\ Len(fragments[i].samples) \in Nat \ {0} /\ EndBefore(i) \in Nat
      /\ End(i) = EndBefore(i) + Len(fragments[i].samples)
  BY <1>2, <1>3, EndsOf DEF SIInv
<1> QED
  BY <1>2, <1>3, <1>4

(* The two numbers differ by what the codec data that is missing would take. *)
LEMMA SizesDeclared == SIInv => SizeDeclared
<1> SUFFICES ASSUME SIInv, NEW i \in Complete
             PROVE  files[i].declared =
                      (files[i].length + Lacking(TRUE) + Lacking(FALSE)) % SizeWidth
  BY DEF SizeDeclared
<1>1. PICK w \in Nat \ {0} :
        /\ w = Len(fragments[i].samples) /\ i \in 1..Len(fragments) /\ i \in 1..Len(files)
        /\ Holds(files[i], i, w)
        /\ End(i) = EndBefore(i) + w /\ EndBefore(i) \in Nat
  BY CompleteFile
<1>2. PICK v \in Nat, a \in Nat :
        /\ v = extra[TRUE] /\ a = extra[FALSE]
        /\ Sizes(CodecPackets)[Len(CodecPackets)] =
             (IF v > 0 THEN 20 + v ELSE 0) + (IF a > 0 THEN 17 + a ELSE 0)
        /\ \A fr : Declared(fr) = (fr.totalsize + 8 + 20 + v + 17 + a) % SizeWidth
  BY CodecFacts DEF SIInv
<1>3. (v > 0 <=> HasTrack(TRUE)) /\ (a > 0 <=> HasTrack(FALSE))
  <2>1. (extra[TRUE] > 0 <=> HasTrack(TRUE)) /\ (extra[FALSE] > 0 <=> HasTrack(FALSE))
    BY Zenon DEF SIInv
  <2> QED BY <1>2, <2>1, Zenon
<1>4. PICK t \in Nat : t = fragments[i].totalsize
  <2>1. fragments[i] \in Fragment
    BY <1>1 DEF SIInv, IInv, TypeOK
  <2> QED BY <2>1 DEF Fragment
<1>5. t = Upto[EndBefore(i) + w] - Upto[EndBefore(i)]
  BY <1>1, <1>4 DEF SIInv, Sized
<1>6. PICK z : z = Sizes(CodecPackets)[Len(CodecPackets)]
  OBVIOUS
<1>7. files[i].declared = (t + 8 + 20 + v + 17 + a) % SizeWidth
  BY <1>1, <1>2, <1>4 DEF Holds
<1>8. files[i].length = 8 + z + t
  BY <1>1, <1>5, <1>6 DEF Holds
<1>9. z = (IF v > 0 THEN 20 + v ELSE 0) + (IF a > 0 THEN 17 + a ELSE 0)
  BY <1>2, <1>6
<1>10. Lacking(TRUE) = (IF v > 0 THEN 0 ELSE 20) /\ Lacking(FALSE) = (IF a > 0 THEN 0 ELSE 17)
  <2>1. Framing(TRUE) = 20 /\ Framing(FALSE) = 17
    BY DEF Framing
  <2>2. /\ Lacking(TRUE) = (IF HasTrack(TRUE) THEN 0 ELSE 20)
        /\ Lacking(FALSE) = (IF HasTrack(FALSE) THEN 0 ELSE 17)
    BY <2>1, Zenon DEF Lacking
  <2> QED BY <1>3, <2>2
<1>11. 8 + z + t + Lacking(TRUE) + Lacking(FALSE) = t + 8 + 20 + v + 17 + a
  <2>1. PICK p, q : p = Lacking(TRUE) /\ q = Lacking(FALSE)
    OBVIOUS
  <2>2. p = (IF v > 0 THEN 0 ELSE 20) /\ q = (IF a > 0 THEN 0 ELSE 17)
    BY <1>10, <2>1, Zenon
  <2>3. 8 + z + t + p + q = t + 8 + 20 + v + 17 + a
    BY <1>9, <2>2
  <2> QED BY <2>1, <2>3, Zenon
<1> QED
  BY <1>7, <1>8, <1>11

(* The last packet of a complete file is the last sample of its fragment. *)
LEMMA LastSampleIs ==
  ASSUME SIInv, NEW i \in Complete
  PROVE  LastSample(i) = End(i)
<1>1. PICK w \in Nat \ {0} : Holds(files[i], i, w) /\ End(i) = EndBefore(i) + w
                             /\ i \in 1..Len(fragments)
  BY CompleteFile
<1>2. PICK c \in Nat : c = Len(CodecPackets)
  <2>1. CodecPackets \in Seq(Packet)
    BY CodecFacts DEF SIInv
  <2> QED BY <2>1
<1>3. PICK p : p = files[i].packets
  OBVIOUS
<1>4. Len(p) = c + w /\ p[c + w] = SamplePacket(EndBefore(i) + w)
  <2>1. Len(p) = c + w /\ \A j \in 1..w : p[c + j] = SamplePacket(EndBefore(i) + j)
    BY <1>1, <1>2, <1>3, Zenon DEF Holds
  <2>2. w \in 1..w
    OBVIOUS
  <2> QED BY <2>1, <2>2, Zenon
<1>5. p # <<>>
  BY <1>4
<1>6. SamplePacket(EndBefore(i) + w).sample = EndBefore(i) + w
  BY DEF SamplePacket
<1> QED
  BY <1>1, <1>3, <1>4, <1>5, <1>6 DEF LastSample

(* Packets tell the codec data and the positions of the samples apart. *)
LEMMA FilesHold == SIInv => FilesHoldMovie
<1> SUFFICES ASSUME SIInv PROVE FilesHoldMovie
  OBVIOUS
<1>1. PICK v \in Nat, a \in Nat :
        /\ v = extra[TRUE] /\ a = extra[FALSE]
        /\ CodecPackets \in Seq(Packet)
        /\ Len(CodecPackets) = (IF v > 0 THEN 1 ELSE 0) + (IF a > 0 THEN 1 ELSE 0)
        /\ v > 0 => CodecPackets[1].video = TRUE
        /\ a > 0 => CodecPackets[Len(CodecPackets)].video = FALSE
        /\ \A j \in 1..Len(CodecPackets) : CodecPackets[j].sample = 0
  BY CodecFacts DEF SIInv
<1>2. (v > 0 <=> HasTrack(TRUE)) /\ (a > 0 <=> HasTrack(FALSE))
  <2>1. (extra[TRUE] > 0 <=> HasTrack(TRUE)) /\ (extra[FALSE] > 0 <=> HasTrack(FALSE))
    BY Zenon DEF SIInv
  <2> QED BY <1>1, <2>1, Zenon
<1>3. PICK c \in Nat : c = Len(CodecPackets)
  <2>1. CodecPackets \in Seq(Packet)
    BY <1>1
  <2> QED BY <2>1
<1>4. c = Headers /\ (HasTrack(TRUE) => 1 \in 1..c) /\ (HasTrack(FALSE) => c \in 1..c)
  <2>1. c = (IF v > 0 THEN 1 ELSE 0) + (IF a > 0 THEN 1 ELSE 0)
    BY <1>1, <1>3, Zenon
  <2>2. c = Headers
    BY <1>2, <2>1, Zenon DEF Headers
  <2>3. (v > 0 => 1 \in 1..c) /\ (a > 0 => c \in 1..c)
    BY <2>1
  <2> QED BY <1>2, <2>2, <2>3, Zenon
<1>5. ASSUME NEW i \in Complete, NEW video \in BOOLEAN, HasTrack(video)
      PROVE  \E j \in 1..Headers :
               files[i].packets[j].sample = 0 /\ files[i].packets[j].video = video
  <2>1. PICK w : Holds(files[i], i, w)
    BY CompleteFile
  <2>2. \A j \in 1..c : files[i].packets[j] = CodecPackets[j]
    BY <1>3, <2>1 DEF Holds
  <2>3. CASE video = TRUE
    <3>1. HasTrack(TRUE)
      BY <1>5, <2>3, Zenon
    <3>2. 1 \in 1..c /\ CodecPackets[1].video = TRUE /\ CodecPackets[1].sample = 0
      BY <1>1, <1>2, <1>3, <1>4, <3>1
    <3> QED BY <1>4, <2>2, <2>3, <3>2, Zenon
  <2>4. CASE video = FALSE
    <3>1. HasTrack(FALSE)
      BY <1>5, <2>4, Zenon
    <3>2. c \in 1..c /\ CodecPackets[c].video = FALSE /\ CodecPackets[c].sample = 0
      BY <1>1, <1>2, <1>3, <1>4, <3>1
    <3> QED BY <1>4, <2>2, <2>4, <3>2, Zenon
  <2> QED BY <2>3, <2>4
<1>6. ASSUME NEW i \in Complete, NEW j \in (Headers + 1)..Len(files[i].packets)
      PROVE  files[i].packets[j].sample = (IF i = 1 THEN 0 ELSE LastSample(i - 1)) + (j - Headers)
  <2>1. PICK w \in Nat \ {0} :
          /\ i \in 1..Len(fragments) /\ i \in 1..Len(files)
          /\ Holds(files[i], i, w) /\ EndBefore(i) \in Nat
    BY CompleteFile
  <2>2. PICK x \in Nat : x = EndBefore(i)
    BY <2>1
  <2>3. Len(files[i].packets) = c + w
        /\ \A k \in 1..w : files[i].packets[c + k] = SamplePacket(x + k)
    BY <1>3, <2>1, <2>2 DEF Holds
  <2>4. PICK k \in 1..w : j = c + k
    <3>1. j - c \in 1..w /\ j = c + (j - c)
      BY <1>4, <1>6, <2>3
    <3> QED BY <3>1
  <2>5. files[i].packets[j].sample = x + k
    <3>1. files[i].packets[j] = SamplePacket(x + k)
      BY <2>3, <2>4, Zenon
    <3>2. SamplePacket(x + k).sample = x + k
      BY DEF SamplePacket
    <3> QED BY <3>1, <3>2
  <2>6. x = IF i = 1 THEN 0 ELSE LastSample(i - 1)
    <3>1. CASE i = 1
      BY <2>2, <3>1 DEF EndBefore
    <3>2. CASE i # 1
      <4>1. i - 1 \in Complete
        BY <2>1, <3>2 DEF Complete
      <4>2. LastSample(i - 1) = End(i - 1)
        BY <4>1, LastSampleIs
      <4> QED BY <2>2, <3>2, <4>2 DEF EndBefore
    <3> QED BY <3>1, <3>2
  <2>7. j - Headers = k
    BY <1>4, <2>4
  <2> QED BY <2>5, <2>6, <2>7
<1>7. ASSUME state = "done", Samples # <<>> PROVE LastSample(Len(files)) = Len(Samples)
  <2>1. PICK n \in Nat \ {0} : n = Len(fragments) /\ n = Len(files)
    BY <1>7 DEF SIInv, IInv, TypeOK
  <2>2. n \in Complete
    BY <1>7, <2>1 DEF Complete
  <2>3. LastSample(n) = End(n)
    BY <2>2, LastSampleIs
  <2>4. End(n) = Len(Samples)
    BY <1>7, <2>1 DEF SIInv, IInv, Lossless
  <2> QED BY <2>1, <2>3, <2>4
<1> QED
  BY <1>5, <1>6, <1>7 DEF FilesHoldMovie

(* The size written before a fragment is the length of the file that         *)
(* serialize_fragment makes of it, in 32 bits, but for the framing of the    *)
(* codec data that a movie with one track does not have.                     *)
THEOREM SizeDeclaredHolds == SSpec => []SizeDeclared
BY SInvariance, SizesDeclared, PTL

(* The files hold what is needed to play each alone, and all of the movie.  *)
THEOREM FilesHoldMovieHolds == SSpec => []FilesHoldMovie
BY SInvariance, FilesHold, PTL
=============================================================================
