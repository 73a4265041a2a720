-------------------------- MODULE FragmentService --------------------------
(***************************************************************************)
(* What the streaming service promises for one request, in one step.  With *)
(* a whole index of a known version the answer is determined: the fragment *)
(* if its samples are all in the source file, a refusal otherwise.  With a *)
(* part of an index, or numbers that its fields do not hold, a refusal may *)
(* take the place of the fragment.  A sample is promised at its place       *)
(* modulo 4 GiB.                                                            *)
(*                                                                          *)
(* Two things are not promised.  A sample that the source file does not     *)
(* hold and that reaches 4 GiB from its beginning may be read from outside  *)
(* the file: the answer then has other bytes, or the process dies.  And a   *)
(* fragment of 4 GiB or more may kill it too, or, with 2^16 samples and     *)
(* more, be answered by its first ones.                                     *)
(***************************************************************************)
EXTENDS IndexFormat

CONSTANTS Worlds, Requests

VARIABLES
  world, request,
  answer      (* <<>> until answered, then <<status, body>>. *)

vars == <<world, request, answer>>

(* Statuses that are not of HTTP: nginx could not send, the process died. *)
Unsent == -1
Killed == -2

Refusal(status) == <<status, <<>>>>

(* A fragment that is served: without the body for a HEAD, if it can be sent. *)
Served(packets) ==
  {<<200, IF request.method = "HEAD" THEN <<>> ELSE packets>>, Refusal(Unsent)}

whole == world.whole
Wanted == whole.medialist[request.medianum + 1]
WantedFragment == Wanted.fragments[request.fragnum]

Packet(video, header, key, timestamp, payload) ==
  [video |-> video, header |-> header, key |-> key, timestamp |-> timestamp,
   payload |-> payload]

HeaderPacket(video, blob) ==
  Packet(video, TRUE, video, WantedFragment[1].timestamp,
         [id |-> IF blob.size = 0 THEN "none" ELSE blob.id, offset |-> 0, size |-> blob.size])

(* The source file holds the sample; or its end is 4 GiB from the beginning. *)
Holds(se) == Place(se.offset) + se.size <= world.files[Wanted.name.id].length
Wraps(se) == Place(se.offset) + se.size >= U32

SamplePacket(se) ==
  Packet(se.video, FALSE, se.video /\ se.keyframe, se.timestamp,
         [id |-> IF Holds(se) THEN Wanted.name.id ELSE "outside",
          offset |-> Place(se.offset), size |-> se.size])

(* The codec data of both tracks, then the first n samples of the fragment. *)
FragmentBody(n) ==
  <<HeaderPacket(TRUE, Wanted.video), HeaderPacket(FALSE, Wanted.audio)>>
    \o [j \in 1..n |-> SamplePacket(WantedFragment[j])]

Unmappable(f) == f.state = "denied" \/ (f.state = "present" /\ f.length = 0)

Known == whole.cells[0].value = "mp4frag" /\ whole.cells[7].value \in 1..3
Whole == world.length = whole.full

(* The counts that the request depends on fit their 16-bit fields, and the *)
(* size of the fragment its 32-bit one.                                    *)
CountsFit ==
  /\ Len(whole.medialist) < U16
  /\ request.medianum < Len(whole.medialist) =>
       /\ Len(Wanted.fragments) < U16
       /\ request.fragnum \in 1..Len(Wanted.fragments) => Len(WantedFragment) < U16

SizeFits ==
  request.medianum < Len(whole.medialist) /\ request.fragnum \in 1..Len(Wanted.fragments) =>
    TotalBytes(Wanted, WantedFragment) < U32

Fits == CountsFit /\ SizeFits

Available ==
  LET f == world.files[Wanted.name.id] IN f.state = "present" /\ f.length > 0

Samples == 1..Len(WantedFragment)
Missing == {j \in Samples : ~Holds(WantedFragment[j])}
Astray == {j \in Missing : Wraps(WantedFragment[j])}

(* The answers when the index is whole and its numbers fit. *)
TheAnswers ==
  IF request.medianum >= Len(whole.medialist) THEN {Refusal(500)}
  ELSE IF request.fragnum \notin 1..Len(Wanted.fragments) THEN {Refusal(404)}
  ELSE IF WantedFragment = <<>> \/ ~Available THEN {Refusal(500)}
  ELSE (IF Missing = Astray THEN Served(FragmentBody(Len(WantedFragment))) ELSE {})
         \cup (IF Missing # {} THEN {Refusal(500)} ELSE {})
         \cup (IF Astray # {} THEN {Refusal(Killed)} ELSE {})

(* What else may come when they do not. *)
Otherwise ==
  (IF Whole /\ Fits THEN {} ELSE {Refusal(500)})
    \cup (IF CountsFit THEN {} ELSE {Refusal(404)})
    \cup (IF SizeFits THEN {} ELSE {Refusal(Killed)})
    \cup (IF CountsFit \/ SizeFits THEN {}
          ELSE UNION {Served(FragmentBody(n)) : n \in Samples})

Answers ==
  CASE request.method = "POST" -> {Refusal(405)}
    [] request.method # "POST" /\ (~request.path \/ world.state = "missing") -> {Refusal(404)}
    [] request.method # "POST" /\ request.path /\ (Unmappable(world)
         \/ (world.state = "present" /\ ~Known)) -> {Refusal(500)}
    [] OTHER -> TheAnswers \cup Otherwise

Init == world \in Worlds /\ request \in Requests /\ answer = <<>>

Answer == answer = <<>> /\ answer' \in Answers /\ UNCHANGED <<world, request>>

(* What no answer contradicts, and that an answer comes. *)
Safe == Init /\ [][Answer]_vars

Spec == Safe /\ WF_vars(Answer)
=============================================================================
