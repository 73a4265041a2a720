---------------------------- MODULE MCFragmenter ----------------------------
(* Small movies for Fragmenter: up to MaxSamples samples at times up to    *)
(* MaxTime, of the three kinds _unfold produces.                           *)
EXTENDS Fragmenter

CONSTANTS MaxSamples, MaxTime

Kinds == {<<TRUE, TRUE>>, <<TRUE, FALSE>>, <<FALSE, FALSE>>}

Times(n) ==
  {t \in [1..n -> 0..MaxTime] :
     /\ n > 0 => t[1] = 0
     /\ \A j \in 2..n : t[j - 1] <= t[j]}

MCSampleLists ==
  UNION {{[j \in 1..n |-> [time |-> t[j], size |-> j,
                           video |-> k[j][1], keyframe |-> k[j][2]]] :
            t \in Times(n), k \in [1..n -> Kinds]} : n \in 0..MaxSamples}

MCMovies == [samples : MCSampleLists, duration : {0, MaxTime, MaxTime + 1}]
=============================================================================
