----------------------------- MODULE MCPackager -----------------------------
(* One source with every arrangement of up to MaxSamples samples, and two   *)
(* sources with fewer samples: bitrates of one video, that share their key  *)
(* frame times, and a pair that do not.                                     *)
EXTENDS Packager

CONSTANTS MaxSamples, SampleTimes, PairTimes

Kinds == {<<TRUE, TRUE>>, <<TRUE, FALSE>>, <<FALSE, FALSE>>}

TimeLines(n, times) ==
  {t \in [1..n -> times] : (n > 0 => t[1] = 0) /\ \A j \in 2..n : t[j - 1] <= t[j]}

MoviesOf(n, times, durations) ==
  {[samples  |-> [j \in 1..n |-> [time |-> t[j], size |-> j,
                                  video |-> k[j][1], keyframe |-> k[j][2]]],
    duration |-> d] :
     t \in TimeLines(n, times), k \in [1..n -> Kinds], d \in durations}

LastTime == CHOOSE t \in SampleTimes : \A u \in SampleTimes : u <= t

SingleMovies ==
  UNION {MoviesOf(n, SampleTimes, {0, LastTime + 1, LastTime + 5}) : n \in 0..MaxSamples}
PairMovies == UNION {MoviesOf(n, PairTimes, {LastTime}) : n \in 0..MaxSamples}

MCMovies == SingleMovies \cup PairMovies

Pairs ==
  UNION {{<<a, b>> : b \in {b \in PairMovies : KeyTimes(b) = KeyTimes(a)}} : a \in PairMovies}

Unlike ==
  {<<a, b>> : a \in MoviesOf(2, PairTimes, {LastTime}), b \in MoviesOf(1, PairTimes, {LastTime})}

MCSources == {<<m>> : m \in SingleMovies} \cup Pairs \cup Unlike
=============================================================================
