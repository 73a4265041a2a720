------------------------- MODULE MCStaticFragments -------------------------
(* The movies of MCFragmenter, smaller, with and without codec data. *)
EXTENDS StaticFragments

CONSTANTS MaxSamples, MaxTime

Kinds == {<<TRUE, TRUE>>, <<TRUE, FALSE>>, <<FALSE, FALSE>>}

Times(n) ==
  {t \in [1..n -> 0..MaxTime] : (n > 0 => t[1] = 0) /\ \A j \in 2..n : t[j - 1] <= t[j]}

MCMovies ==
  UNION {{[samples  |-> [j \in 1..n |-> [time |-> t[j], size |-> 2^j,
                                         video |-> k[j][1], keyframe |-> k[j][2]]],
           duration |-> MaxTime] :
            t \in Times(n), k \in [1..n -> Kinds]} : n \in 0..MaxSamples}
=============================================================================
