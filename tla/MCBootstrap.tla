---------------------------- MODULE MCBootstrap ----------------------------
(* Run tables of up to three rows; a marked row makes the boxes one byte    *)
(* longer, so that one, two or no bytes are left after the triples.         *)
EXTENDS Bootstrap

Row(start, duration, discontinuity) ==
  [start |-> start, duration |-> duration, discontinuity |-> discontinuity]

Inner == {Row(s, d, FALSE) : s \in {0, 15, 60000}, d \in {1, 16, 4097}}
Final == Inner \cup {Row(s, 0, m) : s \in {0, 60000}, m \in BOOLEAN}

MCTables ==
  [duration : {0, 70001},
   rows : {<<c>> : c \in Final} \cup {<<a, c>> : a \in Inner, c \in Final}
            \cup {<<a, a, c>> : a \in Inner, c \in Final}]
=============================================================================
