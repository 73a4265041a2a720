--------------------------- MODULE MCIndexWriter ---------------------------
(* Small media lists for IndexWriter: up to two sources, with and without  *)
(* codec data, with up to five fragments or samples (U16 is 4, so that     *)
(* the counts wrap, and U32 is 1024, so that the place of every third       *)
(* sample and the size of a fragment of four do).                           *)
EXTENDS IndexWriter

Sample(j) == [offset |-> 500 * j, size |-> 200 * j, timestamp |-> j,
              video |-> j % 2 = 1, keyframe |-> j % 4 = 1]

FragmentOf(k) == [j \in 1..k |-> Sample(j)]

(* Numbers of samples of the fragments of one source. *)
Shapes == {<<0>>, <<1>>, <<2, 1>>, <<5>>, <<1, 1, 1>>, <<0, 4, 2>>, <<1, 1, 1, 1, 1>>}

MediaOf(id, v, a, shape) ==
  [name |-> [id |-> id, size |-> 2],
   video |-> [id |-> "avcC", size |-> v], audio |-> [id |-> "esds", size |-> a],
   fragments |-> [i \in 1..Len(shape) |-> FragmentOf(shape[i])]]

FirstMedia == {MediaOf("a", v, a, s) : v \in {0, 3}, a \in {0, 3}, s \in Shapes}
SecondMedia == {MediaOf("b", 3, a, s) : a \in {0, 3}, s \in Shapes}

MCMediaLists ==
  {<<x>> : x \in FirstMedia} \cup {<<x, y>> : x \in FirstMedia, y \in SecondMedia}
=============================================================================
