------------------------ MODULE FragmentServerProofs ------------------------
(***************************************************************************)
(* Proofs about FragmentServer, for any index, of any length, that serialize *)
(* can have written, any sources and any request.  The inductive invariant  *)
(* says, for each part of the handler, at which field of the index it is    *)
(* and what its locals hold (At...), and for its end that the response is   *)
(* one the service allows: with it each step implements FragmentService.    *)
(***************************************************************************)
EXTENDS FragmentServer, NumberFacts, SequenceTheorems

Medias == world.whole.medialist
full == world.whole.full

(* The source and the fragment that are asked for. *)
Asked == Medias[request.medianum + 1]
AskedFragment == Asked.fragments[request.fragnum]

(* Bytes of a response before its samples. *)
HeadersSize(media) == 8 + PacketSize(TRUE, media.video.size) + PacketSize(FALSE, media.audio.size)

(* The bytes of a response after each of the first k samples. *)
IsSizes(s, media, fragment, k) ==
  s = [j \in 0..k |-> IF j = 0 THEN HeadersSize(media)
                      ELSE s[j - 1] + PacketSize(fragment[j].video, fragment[j].size)]

Sizes == CHOOSE s : IsSizes(s, Asked, AskedFragment, Len(AskedFragment))
-----------------------------------------------------------------------------
(* The recursive function that TotalBytes is made of exists. *)
LEMMA SizesExist ==
  ASSUME NEW media, NEW fragment
  PROVE  \A k \in Nat : \E s : IsSizes(s, media, fragment, k)
<1> DEFINE P == {k \in Nat : \E s : IsSizes(s, media, fragment, k)}
<1>1. 0 \in P
  <2> DEFINE g == [j \in 0..0 |-> HeadersSize(media)]
  <2>1. IsSizes(g, media, fragment, 0)
    BY DEF IsSizes
  <2> QED BY <2>1
<1>2. ASSUME NEW k \in Nat, k \in P PROVE k + 1 \in P
  <2>1. PICK f : IsSizes(f, media, fragment, k)
    BY <1>2
  <2> DEFINE last == f[k] + PacketSize(fragment[k + 1].video, fragment[k + 1].size)
             g == [j \in 0..(k + 1) |-> IF j <= k THEN f[j] ELSE last]
             h == [j \in 0..(k + 1) |->
                     IF j = 0 THEN HeadersSize(media)
                     ELSE g[j - 1] + PacketSize(fragment[j].video, fragment[j].size)]
  <2>2. ASSUME NEW j \in 0..(k + 1) PROVE g[j] = h[j]
    <3>1. CASE j = 0
      BY <2>1, <3>1 DEF IsSizes
    <3>2. CASE j \in 1..k
      <4>1. j - 1 \in 0..k /\ j \in 0..k
        BY <3>2
      <4>2. f[j] = f[j - 1] + PacketSize(fragment[j].video, fragment[j].size)
        BY <2>1, <3>2, <4>1 DEF IsSizes
      <4> QED BY <3>2, <4>1, <4>2
    <3>3. CASE j = k + 1
      BY <3>3
    <3> QED BY <3>1, <3>2, <3>3
  <2>3. g = h
    BY <2>2
  <2>4. IsSizes(g, media, fragment, k + 1)
    BY <2>3 DEF IsSizes
  <2> QED BY <2>4
<1> HIDE DEF P
<1>3. \A k \in Nat : k \in P
  BY <1>1, <1>2, Induction
<1> QED
  BY <1>3 DEF P

(* What is on disk. *)
LEMMA WorldFacts ==
  ASSUME world \in Worlds
  PROVE  /\ Medias \in Seq(Media) /\ Len(Medias) \in Nat
         /\ \A i \in 1..Len(Medias) : Medias[i] \in Media /\ Writable(Medias[i])
         /\ full \in Nat /\ world.length \in 0..full /\ world.length \in Nat
         /\ DOMAIN cells \subseteq Nat
         /\ HasCell(cells, full, 0, Cell(7, Get(0)))
         /\ HasCell(cells, full, 7, Cell(1, Get(7))) /\ Get(7) \in Nat
         /\ DescribesSources(cells, full, Medias)
         /\ world.state \in FileStates
         /\ \A i \in 1..Len(Medias) :
              LET f == world.files[Medias[i].name.id] IN
              f.state \in FileStates /\ f.length \in Nat
<1>1. IsWorld(world)
  BY InputsAssumption
<1>2. IsIndex(world.whole)
  BY <1>1 DEF IsWorld
<1>3. Get(0) = cells[0].value /\ Get(7) = cells[7].value
  BY <1>2 DEF IsIndex, HasCell, Get, cells
<1>4. Medias \in Seq(Media) /\ Len(Medias) \in Nat /\ full \in Nat
  BY <1>2 DEF IsIndex, Medias, full
<1>5. /\ \A i \in 1..Len(Medias) : Medias[i] \in Media
      /\ \A i \in 1..Len(Medias) : Writable(Medias[i])
  BY <1>2, <1>4 DEF IsIndex, Medias
<1>6. world.length \in 0..full /\ world.length \in Nat
  BY <1>1, <1>4 DEF IsWorld, full
<1>7. /\ DOMAIN cells \subseteq Nat
      /\ HasCell(cells, full, 0, Cell(7, Get(0)))
      /\ HasCell(cells, full, 7, Cell(1, Get(7))) /\ Get(7) \in Nat
      /\ DescribesSources(cells, full, Medias)
  BY <1>2, <1>3 DEF IsIndex, cells, full, Medias
<1> QED
  BY <1>1, <1>4, <1>5, <1>6, <1>7 DEF IsWorld, Medias

(* The types of what is asked for. *)
LEMMA AskedFacts ==
  ASSUME world \in Worlds, request \in Requests, request.medianum + 1 \in 1..Len(Medias)
  PROVE  /\ request.medianum \in Nat /\ request.fragnum \in Nat
         /\ Asked.name.size \in Nat /\ Asked.video.size \in Nat /\ Asked.audio.size \in Nat
         /\ Asked.fragments \in Seq(Seq(SampleEntry)) /\ Len(Asked.fragments) \in Nat
         /\ Asked.fragments # <<>>
         /\ NameWidth(Asked) \in Nat /\ NameWidth(Asked) % U16 = NameWidth(Asked)
         /\ Asked.video.size % U16 = Asked.video.size
         /\ Asked.audio.size % U16 = Asked.audio.size
         /\ world.files[Asked.name.id].state \in FileStates
         /\ world.files[Asked.name.id].length \in Nat
<1>1. Asked \in Media /\ Writable(Asked)
  BY WorldFacts DEF Asked
<1>2. IsRequest(request)
  BY InputsAssumption
<1>3. /\ Asked.name.size \in Nat /\ Asked.video.size \in Nat /\ Asked.audio.size \in Nat
      /\ Asked.fragments \in Seq(Seq(SampleEntry))
  BY <1>1 DEF Media, Blob
<1>4. Len(Asked.fragments) \in Nat
  BY <1>3
<1>5. NameWidth(Asked) \in Nat
  BY <1>3 DEF NameWidth
<1>6. \A k \in Nat : k < U16 => k % U16 = k
  BY U16Assumption
<1>7. world.files[Asked.name.id].state \in FileStates /\ world.files[Asked.name.id].length \in Nat
  BY WorldFacts DEF Asked
<1> QED
  BY <1>1, <1>2, <1>3, <1>4, <1>5, <1>6, <1>7 DEF Writable, IsRequest

(* A packet has a size. *)
LEMMA PacketSizes ==
  ASSUME NEW v, NEW size \in Nat
  PROVE  PacketSize(v, size) \in Nat /\ PacketSize(v, size) > size
<1> DEFINE c == IF v THEN 5 ELSE 2
<1>1. c \in Nat
  OBVIOUS
<1>2. PacketSize(v, size) = 11 + c + size + 4
  BY DEF PacketSize
<1> HIDE DEF c
<1> QED
  BY <1>1, <1>2

(* The sizes of a response grow with its samples, up to that of the fragment, *)
(* which is the size that the index gives when 32 bits hold it.                *)
LEMMA SizesFacts ==
  ASSUME world \in Worlds, request \in Requests, request.medianum + 1 \in 1..Len(Medias),
         request.fragnum \in 1..Len(Asked.fragments)
  PROVE  LET n == Len(AskedFragment) IN
         /\ AskedFragment \in Seq(SampleEntry) /\ n \in Nat
         /\ \A j \in 1..n : /\ AskedFragment[j] \in SampleEntry
                            /\ AskedFragment[j].size \in Nat
                            /\ AskedFragment[j].offset \in Nat
                            /\ AskedFragment[j].video \in BOOLEAN
                            /\ AskedFragment[j].keyframe \in BOOLEAN
         /\ Sizes[0] = HeadersSize(Asked)
         /\ \A j \in 1..n :
              Sizes[j] = Sizes[j - 1] + PacketSize(AskedFragment[j].video, AskedFragment[j].size)
         /\ \A j \in 0..n : Sizes[j] \in Nat
         /\ \A j \in 0..n : \A k \in 0..n : j < k => Sizes[j] < Sizes[k]
         /\ AskedBytes = Sizes[n] /\ TotalSize(Asked, AskedFragment) = Sizes[n] % U32
         /\ Sizes[n] % U32 \in Nat
         /\ AskedBytes < U32 => Sizes[n] % U32 = Sizes[n]
         /\ ~(AskedBytes < U32) => Sizes[n] % U32 < Sizes[n]
<1> DEFINE n == Len(AskedFragment)
<1>1. AskedFragment \in Seq(SampleEntry) /\ n \in Nat
  BY AskedFacts DEF AskedFragment
<1>2. \A j \in 1..n : AskedFragment[j] \in SampleEntry
  BY <1>1
<1>3. \A j \in 1..n : /\ AskedFragment[j].size \in Nat
                      /\ AskedFragment[j].offset \in Nat
                      /\ AskedFragment[j].video \in BOOLEAN
                      /\ AskedFragment[j].keyframe \in BOOLEAN
  BY <1>2 DEF SampleEntry
<1>4. IsSizes(Sizes, Asked, AskedFragment, n)
  BY <1>1, SizesExist DEF Sizes
<1>5. /\ Sizes[0] = HeadersSize(Asked)
      /\ \A j \in 1..n :
           Sizes[j] = Sizes[j - 1] + PacketSize(AskedFragment[j].video, AskedFragment[j].size)
  BY <1>1, <1>4 DEF IsSizes
<1>6. HeadersSize(Asked) \in Nat
  <2>1. Asked.video.size \in Nat /\ Asked.audio.size \in Nat
    BY AskedFacts
  <2> DEFINE v == PacketSize(TRUE, Asked.video.size)
             a == PacketSize(FALSE, Asked.audio.size)
  <2>2. v \in Nat /\ a \in Nat
    BY <2>1, PacketSizes
  <2>3. HeadersSize(Asked) = 8 + v + a
    BY Zenon DEF HeadersSize
  <2> HIDE DEF v, a
  <2> QED BY <2>2, <2>3
<1>7. \A j \in 1..n : /\ PacketSize(AskedFragment[j].video, AskedFragment[j].size) \in Nat
                      /\ PacketSize(AskedFragment[j].video, AskedFragment[j].size) > 0
  BY <1>3 DEF PacketSize
<1> HIDE DEF n
<1>8. \A k \in Nat : k <= n => Sizes[k] \in Nat /\ \A j \in 0..k : j < k => Sizes[j] < Sizes[k]
  <2> DEFINE P == {k \in Nat : k <= n =>
                     Sizes[k] \in Nat
                     /\ \A j \in 0..k : Sizes[j] \in Nat /\ (j < k => Sizes[j] < Sizes[k])}
  <2>1. 0 \in P
    BY <1>5, <1>6
  <2>2. ASSUME NEW k \in Nat, k \in P PROVE k + 1 \in P
    <3> SUFFICES ASSUME k + 1 <= n
                 PROVE  /\ Sizes[k + 1] \in Nat
                        /\ \A j \in 0..(k + 1) :
                             Sizes[j] \in Nat /\ (j < k + 1 => Sizes[j] < Sizes[k + 1])
      OBVIOUS
    <3>1. k + 1 \in 1..n /\ k <= n /\ k + 1 - 1 = k
      BY <1>1 DEF n
    <3> DEFINE d == PacketSize(AskedFragment[k + 1].video, AskedFragment[k + 1].size)
    <3>2. Sizes[k + 1] = Sizes[k] + d /\ d \in Nat /\ d > 0
      BY <1>5, <1>7, <3>1
    <3> HIDE DEF d
    <3>3. Sizes[k] \in Nat /\ \A j \in 0..k : Sizes[j] \in Nat /\ (j < k => Sizes[j] < Sizes[k])
      BY <2>2, <3>1
    <3> QED BY <3>2, <3>3
  <2> HIDE DEF P
  <2>3. \A k \in Nat : k \in P
    BY <2>1, <2>2, Induction
  <2> QED BY <2>3 DEF P
<1>9. AskedBytes = Sizes[n] /\ TotalSize(Asked, AskedFragment) = Sizes[n] % U32
  <2>1. TotalBytes(Asked, AskedFragment) = Sizes[n]
    BY DEF TotalBytes, Sizes, IsSizes, HeadersSize, n
  <2>2. AskedBytes = TotalBytes(Asked, AskedFragment)
    BY DEF AskedBytes, Asked, AskedFragment, Medias
  <2> QED BY <2>1, <2>2 DEF TotalSize
<1>10. Sizes[n] \in Nat
  BY <1>1, <1>8 DEF n
<1>11. /\ Sizes[n] % U32 \in Nat
       /\ Sizes[n] < U32 => Sizes[n] % U32 = Sizes[n]
       /\ ~(Sizes[n] < U32) => Sizes[n] % U32 < Sizes[n]
  <2>1. \A k \in Nat : /\ k % U32 \in Nat
                       /\ k < U32 => k % U32 = k
                       /\ ~(k < U32) => k % U32 < k
    BY U32Assumption
  <2> QED BY <1>10, <2>1
<1> QED
  BY <1>1, <1>2, <1>3, <1>5, <1>8, <1>9, <1>11 DEF n
-----------------------------------------------------------------------------
(* p is the position of the block of the source asked for. *)
AtMedia(p) ==
  /\ request.medianum + 1 \in 1..Len(Medias)
  /\ p \in DOMAIN cells /\ DirectoryCell(Len(Medias) + 1) <= p
  /\ DescribesMedia(cells, full, p, Asked)

(* q is that of the fragment asked for. *)
AtFragment(q) ==
  /\ request.fragnum \in 1..Len(Asked.fragments)
  /\ q \in DOMAIN cells
  /\ DescribesFragment(cells, full, q, Asked, AskedFragment)

(* What the handler keeps of a blob: nothing of an empty one. *)
Kept(blob) == [size |-> blob.size, id |-> IF blob.size = 0 THEN "none" ELSE blob.id]

(* Packet k of the response: two headers, then the samples. *)
Expected(k) ==
  CASE k = 1 -> Service!HeaderPacket(TRUE, Asked.video)
    [] k = 2 -> Service!HeaderPacket(FALSE, Asked.audio)
    [] OTHER -> Service!SamplePacket(AskedFragment[k - 2])

Packets == {Expected(k) : k \in Nat}

(* Sample j passes for one that is in the source file. *)
Passes(j) ==
  (Place(AskedFragment[j].offset) + AskedFragment[j].size) % U32
    <= world.files[Asked.name.id].length

(* The types of what the handler keeps. *)
Names == STRING \cup {"none"}
KeptBlob == [size : Nat, id : Names]
Locals ==
  [version : Nat, nmedia : Nat, name : Names, video : KeptBlob \cup {<<>>},
   audio : KeptBlob \cup {<<>>}, nfragments : Nat, nsamples : Nat, totalsize : Nat]

(* The request can be served: an index is mapped. *)
Mapped == request.method # "POST" /\ request.path /\ MakeMapping(world) = OK

(* The parts of the handler that follow each read of the index. *)
WithSamples == {"prefix", "samples"}
WithFragment == {"media"} \cup WithSamples
WithTable == {"fragment"} \cup WithFragment
WithAudio == {"table"} \cup WithTable
WithVideo == {"audio"} \cup WithAudio
WithName == {"video"} \cup WithVideo
WithHeader == {"directory", "name"} \cup WithName

(* What has been read is what the index describes. *)
GotRight ==
  /\ got \in Locals
  /\ pc \in {"request", "header"} => got = NoLocals
  /\ pc \in WithHeader => KnownFormat /\ got.version = Get(7) /\ got.nmedia = Len(Medias) % U16
  /\ pc \in WithName => /\ request.medianum + 1 \in 1..Len(Medias)
                        /\ got.version \in 1..3 /\ got.name = Asked.name.id
  /\ pc \in WithVideo => got.video = Kept(Asked.video)
  /\ pc \in WithAudio => got.audio = Kept(Asked.audio)
  /\ pc \in WithTable => request.fragnum \in 1..Len(Asked.fragments)
  /\ pc \in WithFragment => /\ got.nsamples = Len(AskedFragment) % U16 /\ got.nsamples >= 1
                            /\ got.totalsize = Sizes[Len(AskedFragment)] % U32
  /\ pc \in WithSamples => MakeMapping(source) = OK

(* The handler is at the field it is about to read. *)
WellPlaced ==
  /\ pc \in {"request", "header"} => indexptr = 0
  /\ pc = "directory" => indexptr = 10 /\ indexptr < world.length
  /\ pc = "name" => AtMedia(indexptr) /\ indexptr < world.length
  /\ pc = "video" => \E p : AtMedia(p) /\ indexptr = VideoCell(p, Asked)
  /\ pc = "audio" => \E p : AtMedia(p) /\ indexptr = AudioCell(p, Asked)
  /\ pc = "table" => \E p : AtMedia(p) /\ indexptr = TableCell(p, Asked)
  /\ pc = "fragment" => AtFragment(indexptr) /\ indexptr < world.length
  /\ pc \in {"media", "prefix"} => \E q : AtFragment(q) /\ indexptr = RecordCell(q, 1)
  /\ pc = "samples" =>
       \E q : /\ AtFragment(q)
              /\ indexptr = RecordCell(q, Len(body) - 1)
              /\ RecordCell(q, got.nsamples + 1) <= world.length

(* What has been written is the beginning of the fragment asked for. *)
Written ==
  /\ pc \notin {"samples", "done"} => resp_body = 0 /\ body = <<>>
  /\ pc = "samples" =>
       /\ Len(body) - 2 \in 0..got.nsamples
       /\ resp_body = Sizes[Len(body) - 2]
       /\ body \in Seq(Packets) /\ \A k \in 1..Len(body) : body[k] = Expected(k)
       /\ \A j \in 1..(Len(body) - 2) : Passes(j)

(* The mappings are those the handler has made and not yet released. *)
Accounted ==
  /\ mapped = IF pc \in {"request", "done"} THEN {}
              ELSE IF pc \in WithSamples THEN {"index", "media"} ELSE {"index"}
  /\ pc # "done" => \A f \in {"index", "media"} : unmapped[f] = 0
  /\ pc = "done" =>
       /\ unmapped["media"] <= 1
       /\ \/ unmapped["index"] <= 1
          \/ ~KnownFormat /\ unmapped["index"] = 2 /\ unmapped["media"] = 0

(* The response is one that the service allows. *)
Answered ==
  /\ pc # "done" => response = NoResponse /\ sent = <<>>
  /\ pc = "done" => <<response, sent>> \in Service!Answers

IInv ==
  /\ world \in Worlds /\ request \in Requests
  /\ pc \notin {"request", "done"} => Mapped
  /\ TypeOK /\ AlignedReads
  /\ GotRight /\ WellPlaced /\ Written /\ Accounted /\ Answered
  /\ NeverOverrun
-----------------------------------------------------------------------------
(* What the service allows to answer once the index can be mapped. *)
LEMMA AllowedAnswers ==
  ASSUME world \in Worlds, request \in Requests, Mapped
  PROVE  /\ Service!Known => Service!TheAnswers \subseteq Service!Answers
         /\ ~(Service!Known /\ Service!Fits /\ Service!Whole) => <<500, <<>>>> \in Service!Answers
         /\ Service!Known /\ ~Service!CountsFit => <<404, <<>>>> \in Service!Answers
         /\ Service!Known /\ ~Service!SizeFits => <<-2, <<>>>> \in Service!Answers
         /\ Service!Known /\ ~Service!CountsFit /\ ~Service!SizeFits =>
              \A n \in Service!Samples : Service!Served(Service!FragmentBody(n)) \subseteq Service!Answers
<1>1. /\ world.state = "present" /\ world.length # 0 /\ request.method # "POST" /\ request.path
  <2>1. world.state \in FileStates
    BY WorldFacts
  <2>2. CASE world.state = "missing"
    BY <2>2 DEF Mapped, MakeMapping, OK, NotFound
  <2>3. CASE world.state = "denied" \/ (world.state = "present" /\ world.length = 0)
    BY <2>3 DEF Mapped, MakeMapping, OK, InternalError
  <2>4. CASE world.state = "present" /\ world.length # 0
    BY <2>4 DEF Mapped
  <2> QED BY <2>1, <2>2, <2>3, <2>4 DEF FileStates
<1>2. ~Service!Unmappable(world)
  BY <1>1 DEF Service!Unmappable
<1>3. CASE ~Service!Known
  <2>1. Service!Answers = {Service!Refusal(500)}
    BY <1>1, <1>3 DEF Service!Answers
  <2> QED BY <1>3, <2>1 DEF Service!Refusal
<1>4. CASE Service!Known
  <2>1. Service!Answers = Service!TheAnswers \cup Service!Otherwise
    BY <1>1, <1>2, <1>4 DEF Service!Answers
  <2>2. /\ ~(Service!Whole /\ Service!Fits) => Service!Refusal(500) \in Service!Otherwise
        /\ ~Service!CountsFit => Service!Refusal(404) \in Service!Otherwise
        /\ ~Service!SizeFits => Service!Refusal(Service!Killed) \in Service!Otherwise
    BY DEF Service!Otherwise
  <2>3. ASSUME ~Service!CountsFit, ~Service!SizeFits, NEW n \in Service!Samples
        PROVE  Service!Served(Service!FragmentBody(n)) \subseteq Service!Otherwise
    BY <2>3 DEF Service!Otherwise
  <2> QED BY <1>4, <2>1, <2>2, <2>3 DEF Service!Refusal, Service!Killed
<1> QED
  BY <1>3, <1>4

(* The service speaks of the same source and fragment. *)
LEMMA SameWords ==
  /\ Service!Samples = 1..Len(AskedFragment)
  /\ Service!Wanted = Asked /\ Service!WantedFragment = AskedFragment
  /\ Service!whole.medialist = Medias
  /\ Service!Whole <=> world.length = full
  /\ \A o : Service!Place(o) = Place(o)
BY DEF Service!Wanted, Service!WantedFragment, Service!whole, Service!Whole, Asked, AskedFragment,
       Medias, full, Service!Place, Place, Service!Samples

(* The numbers fit when the counts and the size do. *)
LEMMA WhatFits ==
  ASSUME world \in Worlds, request \in Requests
  PROVE  /\ Service!Fits <=> Service!CountsFit /\ Service!SizeFits
         /\ request.medianum + 1 \in 1..Len(Medias) /\ request.fragnum \in 1..Len(Asked.fragments) =>
              (Service!SizeFits <=> AskedBytes < U32)
<1>1. request.medianum \in Nat /\ Len(Medias) \in Nat
  BY InputsAssumption, WorldFacts DEF IsRequest
<1>2. request.medianum + 1 \in 1..Len(Medias) => request.medianum < Len(Medias)
  BY <1>1
<1>3. AskedBytes = Service!TotalBytes(Asked, AskedFragment)
  BY DEF AskedBytes, Asked, AskedFragment, Medias, Service!TotalBytes, TotalBytes,
     Service!PacketSize, PacketSize
<1> QED
  BY <1>2, <1>3, SameWords DEF Service!Fits, Service!SizeFits

LEMMA SameFormat ==
  ASSUME world \in Worlds
  PROVE  Service!Known <=> Get(0) = "mp4frag" /\ Get(7) \in 1..3
<1>1. 0 \in DOMAIN cells /\ 7 \in DOMAIN cells
  BY WorldFacts DEF HasCell
<1> QED
  BY <1>1 DEF Service!Known, Service!whole, Get, cells

(* What the counts say when they fit. *)
LEMMA CountsThatFit ==
  ASSUME world \in Worlds, request \in Requests, Service!CountsFit
  PROVE  /\ Len(Medias) % U16 = Len(Medias)
         /\ request.medianum + 1 \in 1..Len(Medias) =>
              /\ Len(Asked.fragments) % U16 = Len(Asked.fragments)
              /\ request.fragnum \in 1..Len(Asked.fragments) =>
                   Len(AskedFragment) % U16 = Len(AskedFragment)
<1>1. \A k \in Nat : k < U16 => k % U16 = k
  BY U16Assumption
<1>2. Len(Medias) \in Nat /\ Len(Medias) < U16
  BY WorldFacts, SameWords DEF Service!CountsFit
<1>3. ASSUME request.medianum + 1 \in 1..Len(Medias)
      PROVE  /\ Len(Asked.fragments) % U16 = Len(Asked.fragments)
             /\ request.fragnum \in 1..Len(Asked.fragments) =>
                  Len(AskedFragment) % U16 = Len(AskedFragment)
  <2>1. request.medianum \in Nat /\ Len(Asked.fragments) \in Nat
    BY <1>3, AskedFacts
  <2>2. request.medianum < Len(Medias)
    BY <1>2, <1>3, <2>1
  <2>3. Len(Asked.fragments) < U16
    BY <2>2, SameWords DEF Service!CountsFit
  <2>4. ASSUME request.fragnum \in 1..Len(Asked.fragments)
        PROVE  Len(AskedFragment) % U16 = Len(AskedFragment)
    <3>1. Len(AskedFragment) < U16
      BY <2>2, <2>4, SameWords DEF Service!CountsFit
    <3>2. Len(AskedFragment) \in Nat
      BY <1>3, <2>4, SizesFacts
    <3> QED BY <1>1, <3>1, <3>2
  <2> QED BY <1>1, <2>1, <2>3, <2>4
<1> QED
  BY <1>1, <1>2, <1>3

(* The answers of the service, case by case. *)
LEMMA AnswersByCase ==
  ASSUME world \in Worlds, request \in Requests
  PROVE  /\ request.medianum + 1 \notin 1..Len(Medias) => <<500, <<>>>> \in Service!TheAnswers
         /\ request.medianum + 1 \in 1..Len(Medias) =>
              /\ request.fragnum \notin 1..Len(Asked.fragments) => <<404, <<>>>> \in Service!TheAnswers
              /\ request.fragnum \in 1..Len(Asked.fragments) =>
                   /\ AskedFragment = <<>> \/ ~Service!Available \/ Service!Missing # {} =>
                        <<500, <<>>>> \in Service!TheAnswers
                   /\ AskedFragment # <<>> /\ Service!Available =>
                        /\ Service!Astray # {} => <<-2, <<>>>> \in Service!TheAnswers
                        /\ Service!Missing = Service!Astray =>
                             Service!Served(Service!FragmentBody(Len(AskedFragment)))
                               \subseteq Service!TheAnswers
<1>1. request.medianum \in Nat /\ Len(Medias) \in Nat
  BY InputsAssumption, WorldFacts DEF IsRequest
<1>2. request.medianum >= Len(Medias) <=> request.medianum + 1 \notin 1..Len(Medias)
  BY <1>1
<1>3. Service!TheAnswers =
        IF request.medianum + 1 \notin 1..Len(Medias) THEN {<<500, <<>>>>}
        ELSE IF request.fragnum \notin 1..Len(Asked.fragments) THEN {<<404, <<>>>>}
        ELSE IF AskedFragment = <<>> \/ ~Service!Available THEN {<<500, <<>>>>}
        ELSE (IF Service!Missing = Service!Astray
              THEN Service!Served(Service!FragmentBody(Len(AskedFragment))) ELSE {})
               \cup (IF Service!Missing # {} THEN {<<500, <<>>>>} ELSE {})
               \cup (IF Service!Astray # {} THEN {<<-2, <<>>>>} ELSE {})
  BY <1>2, SameWords DEF Service!TheAnswers, Service!Refusal, Service!Killed
<1> QED
  BY <1>3

(* What a field holds. *)
LEMMA Field ==
  ASSUME world \in Worlds, NEW p, NEW w, NEW v, HasCell(cells, full, p, Cell(w, v))
  PROVE  p \in Nat /\ p \in DOMAIN cells /\ p + w <= full /\ cells[p].width = w /\ Get(p) = v
BY WorldFacts DEF HasCell, Cell, Get

(* The fields of the block of a source. *)
LEMMA MediaFields ==
  ASSUME world \in Worlds, request \in Requests, NEW p, AtMedia(p)
  PROVE  /\ p \in Nat /\ p \in DOMAIN cells /\ p + 2 <= full
         /\ cells[p].width = 2 /\ Get(p) = NameWidth(Asked)
         /\ p + 2 \in DOMAIN cells /\ cells[p + 2].width = NameWidth(Asked)
         /\ Get(p + 2) = Asked.name.id
         /\ HasBlob(cells, full, VideoCell(p, Asked), Asked.video)
         /\ HasBlob(cells, full, AudioCell(p, Asked), Asked.audio)
         /\ HasCell(cells, full, TableCell(p, Asked), Count(Len(Asked.fragments)))
         /\ \A m \in 1..Len(Asked.fragments) :
              /\ HasCell(cells, full, EntryCell(p, Asked, m), Cell(4, Get(EntryCell(p, Asked, m))))
              /\ EntryCell(p, Asked, Len(Asked.fragments) + 1) <= Get(EntryCell(p, Asked, m))
              /\ DescribesFragment(cells, full, Get(EntryCell(p, Asked, m)), Asked,
                                   Asked.fragments[m])
<1>1. DescribesMedia(cells, full, p, Asked) /\ request.medianum + 1 \in 1..Len(Medias)
  BY DEF AtMedia
<1>2. HasCell(cells, full, p, Cell(2, NameWidth(Asked)))
  BY <1>1, AskedFacts DEF DescribesMedia, Count
<1>3. HasCell(cells, full, p + 2, Cell(NameWidth(Asked), Asked.name.id))
  BY <1>1 DEF DescribesMedia
<1>4. ASSUME NEW m \in 1..Len(Asked.fragments)
      PROVE  /\ HasCell(cells, full, EntryCell(p, Asked, m), Cell(4, Get(EntryCell(p, Asked, m))))
             /\ EntryCell(p, Asked, Len(Asked.fragments) + 1) <= Get(EntryCell(p, Asked, m))
             /\ DescribesFragment(cells, full, Get(EntryCell(p, Asked, m)), Asked,
                                  Asked.fragments[m])
  <2>1. PICK q \in DOMAIN cells :
          /\ EntryCell(p, Asked, Len(Asked.fragments) + 1) <= q
          /\ HasCell(cells, full, EntryCell(p, Asked, m), Cell(4, q))
          /\ DescribesFragment(cells, full, q, Asked, Asked.fragments[m])
    BY <1>1 DEF DescribesMedia
  <2>2. Get(EntryCell(p, Asked, m)) = q
    BY <2>1, Field
  <2> QED BY <2>1, <2>2
<1> QED
  BY <1>1, <1>2, <1>3, <1>4, Field DEF DescribesMedia

(* The fields of a blob: codec data, or none. *)
LEMMA BlobFields ==
  ASSUME world \in Worlds, NEW p, NEW b, b.size \in Nat, b.size % U16 = b.size,
         HasBlob(cells, full, p, b)
  PROVE  /\ p \in Nat /\ p \in DOMAIN cells /\ p + 2 <= full
         /\ cells[p].width = 2 /\ Get(p) = b.size
         /\ b.size > 0 => /\ p + 2 \in DOMAIN cells /\ cells[p + 2].width = b.size
                          /\ Get(p + 2) = b.id
         /\ CodecData(p, Get(p)) = Kept(b)
<1>1. HasCell(cells, full, p, Cell(2, b.size))
  BY DEF HasBlob, Count
<1>2. /\ p \in Nat /\ p \in DOMAIN cells /\ p + 2 <= full
      /\ cells[p].width = 2 /\ Get(p) = b.size
  BY <1>1, Field
<1>3. b.size > 0 => /\ p + 2 \in DOMAIN cells /\ cells[p + 2].width = b.size
                    /\ Get(p + 2) = b.id
  BY Field DEF HasBlob
<1> QED
  BY <1>2, <1>3 DEF CodecData, Kept

(* The fields of a fragment. *)
LEMMA FragmentFields ==
  ASSUME world \in Worlds, request \in Requests, request.medianum + 1 \in 1..Len(Medias),
         NEW q, AtFragment(q)
  PROVE  /\ q \in Nat /\ q \in DOMAIN cells /\ q + 2 <= full
         /\ cells[q].width = 2 /\ Get(q) = Len(AskedFragment) % U16
         /\ q + 2 \in DOMAIN cells /\ cells[q + 2].width = 4
         /\ Get(q + 2) = Sizes[Len(AskedFragment)] % U32
         /\ \A j \in 1..Len(AskedFragment) :
              /\ RecordCell(q, j) \in DOMAIN cells /\ RecordCell(q, j) + 16 <= full
              /\ cells[RecordCell(q, j)].width = 16
              /\ Get(RecordCell(q, j)) = SampleRecord(AskedFragment[j])
<1>1. /\ HasCell(cells, full, q, Cell(2, Len(AskedFragment) % U16))
      /\ HasCell(cells, full, q + 2, Cell(4, Sizes[Len(AskedFragment)] % U32))
      /\ \A j \in 1..Len(AskedFragment) :
           HasCell(cells, full, RecordCell(q, j), Cell(16, SampleRecord(AskedFragment[j])))
  BY SizesFacts DEF AtFragment, DescribesFragment, Count
<1>2. /\ q \in Nat /\ q \in DOMAIN cells /\ q + 2 <= full
      /\ cells[q].width = 2 /\ Get(q) = Len(AskedFragment) % U16
  BY <1>1, Field
<1>3. /\ q + 2 \in DOMAIN cells /\ cells[q + 2].width = 4
      /\ Get(q + 2) = Sizes[Len(AskedFragment)] % U32
  BY <1>1, Field
<1> QED
  BY <1>1, <1>2, <1>3, Field

(* The entry of the source in the directory leads to its block. *)
LEMMA DirectoryFields ==
  ASSUME world \in Worlds, request \in Requests
  PROVE  LET d == DirectoryCell(request.medianum + 1) IN
         /\ 8 \in DOMAIN cells /\ cells[8].width = 2 /\ Get(8) = Len(Medias) % U16
         /\ request.medianum + 1 \in 1..Len(Medias) =>
              /\ d \in Nat /\ d \in DOMAIN cells /\ cells[d].width = 4
              /\ AtMedia(Get(d))
              /\ DirectoryCell(Len(Medias) + 1) + 2 <= full
<1> DEFINE d == DirectoryCell(request.medianum + 1)
<1>1. DescribesSources(cells, full, Medias)
  BY WorldFacts
<1>2. HasCell(cells, full, 8, Cell(2, Len(Medias) % U16))
  BY <1>1 DEF DescribesSources, Count
<1>3. ASSUME request.medianum + 1 \in 1..Len(Medias)
      PROVE  /\ d \in Nat /\ d \in DOMAIN cells /\ cells[d].width = 4
             /\ AtMedia(Get(d))
             /\ DirectoryCell(Len(Medias) + 1) + 2 <= full
  <2>1. PICK p \in DOMAIN cells :
          /\ DirectoryCell(Len(Medias) + 1) <= p
          /\ HasCell(cells, full, d, Cell(4, p))
          /\ DescribesMedia(cells, full, p, Asked)
    BY <1>1, <1>3 DEF DescribesSources, Asked
  <2>2. d \in Nat /\ d \in DOMAIN cells /\ cells[d].width = 4 /\ Get(d) = p
    BY <2>1, Field
  <2>3. AtMedia(p)
    BY <1>3, <2>1 DEF AtMedia
  <2>4. p \in Nat /\ p + 2 <= full
    BY <2>3, MediaFields
  <2>5. Len(Medias) \in Nat /\ full \in Nat /\ DirectoryCell(Len(Medias) + 1) = 10 + 4 * Len(Medias)
    BY WorldFacts DEF DirectoryCell
  <2> QED BY <2>1, <2>2, <2>3, <2>4, <2>5
<1> QED
  BY <1>2, <1>3, Field

(* Answers given before the index is mapped. *)
LEMMA EarlyAnswers ==
  ASSUME world \in Worlds, request \in Requests
  PROVE  /\ request.method = "POST" => <<405, <<>>>> \in Service!Answers
         /\ request.method # "POST" /\ ~request.path => <<404, <<>>>> \in Service!Answers
         /\ request.method # "POST" /\ request.path /\ MakeMapping(world) # OK =>
              /\ <<MakeMapping(world), <<>>>> \in Service!Answers
              /\ MakeMapping(world) \in {NotFound, InternalError}
<1>1. world.state \in FileStates
  BY WorldFacts
<1>2. request.method = "POST" => Service!Answers = {Service!Refusal(405)}
  BY DEF Service!Answers
<1>3. request.method # "POST" /\ (~request.path \/ world.state = "missing") =>
        Service!Answers = {Service!Refusal(404)}
  BY DEF Service!Answers, Service!Unmappable
<1>4. request.method # "POST" /\ request.path /\ world.state # "missing" /\ Service!Unmappable(world) =>
        Service!Answers = {Service!Refusal(500)}
  BY DEF Service!Answers
<1>5. CASE world.state = "missing"
  <2>1. MakeMapping(world) = NotFound
    BY <1>5 DEF MakeMapping
  <2> QED BY <1>2, <1>3, <1>5, <2>1 DEF Service!Refusal, NotFound
<1>6. CASE world.state = "denied" \/ (world.state = "present" /\ world.length = 0)
  <2>1. MakeMapping(world) = InternalError
    BY <1>6 DEF MakeMapping
  <2>2. Service!Unmappable(world) /\ world.state # "missing"
    BY <1>6 DEF Service!Unmappable
  <2> QED BY <1>2, <1>3, <1>4, <2>1, <2>2 DEF Service!Refusal, InternalError
<1>7. CASE world.state = "present" /\ world.length # 0
  <2>1. MakeMapping(world) = OK
    BY <1>7 DEF MakeMapping
  <2> QED BY <1>2, <1>3, <2>1 DEF Service!Refusal
<1> QED
  BY <1>1, <1>5, <1>6, <1>7 DEF FileStates

(* A refusal that the service allows: it needs a reason only when the index *)
(* is whole, known, and its counts fit.                                     *)
LEMMA MayRefuse ==
  ASSUME world \in Worlds, request \in Requests, Mapped,
         Service!Known /\ Service!Fits /\ Service!Whole => <<500, <<>>>> \in Service!TheAnswers
  PROVE  <<500, <<>>>> \in Service!Answers
BY AllowedAnswers
-----------------------------------------------------------------------------
(* A read of one whole field inside the mapping. *)
FieldIn(p, w) == p \in DOMAIN cells /\ cells[p].width = w /\ w \in Nat /\ p + w <= world.length

LEMMA ReadsStayAligned ==
  ASSUME IInv, UNCHANGED inputs, NEW fields, reads' = reads \cup fields,
         \A r \in fields : \E p, w : r = <<p, w>> /\ FieldIn(p, w)
  PROVE  AlignedReads' /\ reads' \subseteq Nat \X Nat
<1>1. world' = world /\ cells' = cells /\ DOMAIN cells \subseteq Nat
  BY WorldFacts DEF inputs, cells, IInv
<1>2. \A r \in fields : /\ r \in Nat \X Nat /\ r[1] + r[2] <= world.length
                        /\ r[1] \in DOMAIN cells /\ cells[r[1]].width = r[2]
  BY <1>1 DEF FieldIn
<1>3. reads \subseteq Nat \X Nat /\ AlignedReads
  BY DEF IInv, TypeOK
<1> QED
  BY <1>1, <1>2, <1>3 DEF AlignedReads

(* What the inputs determine does not change. *)
LEMMA InputsStay ==
  ASSUME UNCHANGED inputs
  PROVE  /\ world' = world /\ request' = request
         /\ cells' = cells /\ Medias' = Medias /\ full' = full
         /\ Asked' = Asked /\ AskedFragment' = AskedFragment /\ Sizes' = Sizes
         /\ \A p : Get(p)' = Get(p)
         /\ \A p : AtMedia(p)' <=> AtMedia(p)
         /\ \A q : AtFragment(q)' <=> AtFragment(q)
         /\ \A k : Expected(k)' = Expected(k)
         /\ Packets' = Packets
         /\ \A j : Passes(j)' <=> Passes(j)
         /\ Mapped' <=> Mapped
         /\ KnownFormat' <=> KnownFormat
         /\ AskedBytes' = AskedBytes
         /\ Service!Answers' = Service!Answers
<1>1. world' = world /\ request' = request
  BY DEF inputs
<1>2. cells' = cells /\ Medias' = Medias /\ full' = full
  BY <1>1 DEF cells, Medias, full
<1>3. Asked' = Asked /\ AskedFragment' = AskedFragment
  BY <1>1, <1>2 DEF Asked, AskedFragment
<1>4. \A p : Get(p)' = Get(p)
  BY <1>2 DEF Get
<1>5. \A p : AtMedia(p)' <=> AtMedia(p)
  BY <1>1, <1>2, <1>3 DEF AtMedia
<1>6. \A q : AtFragment(q)' <=> AtFragment(q)
  BY <1>1, <1>2, <1>3 DEF AtFragment
<1>7. Sizes' = Sizes
  BY <1>3 DEF Sizes
<1>8. \A j : Passes(j)' <=> Passes(j)
  BY <1>1, <1>3 DEF Passes
<1>9. (Mapped' <=> Mapped) /\ (KnownFormat' <=> KnownFormat)
  BY <1>1, <1>4 DEF Mapped, KnownFormat
<1>10. Service!Answers' = Service!Answers
  BY <1>1 DEF Service!Answers, Service!Unmappable, Service!Known, Service!Fits, Service!CountsFit,
     Service!SizeFits, Service!Whole, Service!TheAnswers, Service!Otherwise, Service!Served,
     Service!whole, Service!Wanted, Service!WantedFragment, Service!Available, Service!Samples,
     Service!Missing, Service!Astray, Service!Holds, Service!Wraps,
     Service!FragmentBody, Service!HeaderPacket, Service!SamplePacket
<1>11. \A k : Expected(k)' = Expected(k)
  BY <1>1, <1>3 DEF Expected, Service!HeaderPacket, Service!SamplePacket, Service!WantedFragment,
     Service!Wanted, Service!whole, Service!Holds
<1>13. AskedBytes' = AskedBytes
  BY <1>1 DEF AskedBytes
<1>12. Packets' = Packets
  BY <1>11 DEF Packets
<1> QED
  BY <1>1, <1>2, <1>3, <1>4, <1>5, <1>6, <1>7, <1>8, <1>9, <1>10, <1>11, <1>12, <1>13

(* Any end of the handler that leaves no mapping and answers as allowed. *)
LEMMA EndKeepsInvariant ==
  ASSUME IInv, pc \notin {"request", "done"}, UNCHANGED <<inputs, indexptr, got, resp_body, body>>,
         pc' = "done", mapped' = {},
         response' \in {OK, NotFound, InternalError, NGX_ERROR, Killed},
         unmapped' \in [{"index", "media"} -> {0, 1}],
         <<response', sent'>> \in Service!Answers,
         NEW fields, reads' = reads \cup fields,
         \A r \in fields : \E p, w : r = <<p, w>> /\ FieldIn(p, w)
  PROVE  IInv'
<1>1. UNCHANGED inputs /\ indexptr' = indexptr /\ got' = got /\ resp_body' = resp_body /\ body' = body
  OBVIOUS
<1>2. AlignedReads' /\ reads' \subseteq Nat \X Nat
  BY <1>1, ReadsStayAligned
<1>3. TypeOK'
  <2>1. unmapped' \in [{"index", "media"} -> Nat]
    OBVIOUS
  <2> QED BY <1>1, <1>2, <2>1 DEF IInv, TypeOK
<1>4. Answered'
  BY <1>1, InputsStay DEF Answered
<1>5. Accounted'
  BY DEF Accounted
<1>6. GotRight' /\ WellPlaced' /\ Written'
  BY <1>1 DEF IInv, GotRight, WellPlaced, Written, WithHeader, WithName, WithVideo, WithAudio,
     WithTable, WithFragment, WithSamples
<1>7. NeverOverrun'
  BY <1>1, InputsStay DEF IInv, NeverOverrun
<1> QED
  BY <1>1, <1>2, <1>3, <1>4, <1>5, <1>6, <1>7, InputsStay DEF IInv

(* A refusal that the service allows. *)
LEMMA RefuseKeepsInvariant ==
  ASSUME IInv, pc \notin {"request", "done"}, UNCHANGED inputs,
         NEW status \in {NotFound, InternalError}, Refuse(status),
         <<status, <<>>>> \in Service!Answers,
         NEW fields, reads' = reads \cup fields,
         \A r \in fields : \E p, w : r = <<p, w>> /\ FieldIn(p, w)
  PROVE  IInv'
<1>1. /\ pc' = "done" /\ response' = status /\ mapped' = {}
      /\ UNCHANGED <<inputs, indexptr, got, resp_body, body>>
      /\ sent' = <<>>
      /\ unmapped' = [f \in {"index", "media"} |-> unmapped[f] + (IF f \in mapped THEN 1 ELSE 0)]
  BY DEF Refuse, Return, FreeMappings, IInv, Answered
<1>2. unmapped' \in [{"index", "media"} -> {0, 1}]
  BY <1>1 DEF IInv, Accounted
<1> QED
  BY <1>1, <1>2, EndKeepsInvariant

(* An end of the process that the service allows. *)
LEMMA CrashKeepsInvariant ==
  ASSUME IInv, pc \notin {"request", "done"}, UNCHANGED inputs, Crash,
         <<-2, <<>>>> \in Service!Answers,
         NEW fields, reads' = reads \cup fields,
         \A r \in fields : \E p, w : r = <<p, w>> /\ FieldIn(p, w)
  PROVE  IInv'
<1>1. /\ pc' = "done" /\ response' = Killed /\ mapped' = {}
      /\ UNCHANGED <<inputs, indexptr, got, resp_body, body>>
      /\ sent' = <<>> /\ unmapped' = unmapped
  BY DEF Crash, Return, IInv, Answered
<1>2. unmapped' \in [{"index", "media"} -> {0, 1}]
  BY <1>1 DEF IInv, Accounted, TypeOK
<1>3. <<response', sent'>> \in Service!Answers
  BY <1>1 DEF Killed
<1> QED
  BY <1>1, <1>2, <1>3, EndKeepsInvariant

(* Any step from one part to the next. *)
LEMMA ContinueKeepsInvariant ==
  ASSUME IInv, pc \notin {"request", "done"} \cup WithSamples, UNCHANGED inputs,
         NEW next \in WithHeader \ WithSamples, Continue(next), indexptr' \in Nat,
         GotRight', WellPlaced',
         NEW fields, reads' = reads \cup fields,
         \A r \in fields : \E p, w : r = <<p, w>> /\ FieldIn(p, w)
  PROVE  IInv'
<1>1. /\ pc' = next /\ response' = response /\ mapped' = mapped
      /\ resp_body' = resp_body /\ body' = body /\ unmapped' = unmapped
      /\ sent' = sent
  BY DEF Continue
<1>2. AlignedReads' /\ reads' \subseteq Nat \X Nat
  BY ReadsStayAligned
<1>3. next \in {"directory", "name", "video", "audio", "table", "fragment", "media"}
  BY DEF WithHeader, WithName, WithVideo, WithAudio, WithTable, WithFragment, WithSamples
<1>4. TypeOK'
  BY <1>1, <1>2, <1>3 DEF IInv, TypeOK
<1>5. Answered' /\ Accounted'
  BY <1>1, <1>3 DEF IInv, Answered, Accounted, WithSamples
<1>6. Written'
  BY <1>1, <1>3 DEF IInv, Written, WithSamples
<1>7. NeverOverrun'
  BY <1>1, <1>3 DEF IInv, NeverOverrun, Written, WithSamples
<1> QED
  BY <1>1, <1>2, <1>3, <1>4, <1>5, <1>6, <1>7, InputsStay DEF IInv
(* When the index is not read. *)
LEMMA NoReads ==
  ASSUME IInv, UNCHANGED inputs, reads' = reads
  PROVE  AlignedReads' /\ reads' \subseteq Nat \X Nat
<1> DEFINE none == {}
<1>1. reads' = reads \cup none /\ \A r \in none : \E p, w : r = <<p, w>> /\ FieldIn(p, w)
  OBVIOUS
<1> HIDE DEF none
<1> QED
  BY <1>1, ReadsStayAligned

LEMMA PlainRefusalKeepsInvariant ==
  ASSUME IInv, pc \notin {"request", "done"}, UNCHANGED inputs,
         NEW status \in {NotFound, InternalError}, Refuse(status),
         <<status, <<>>>> \in Service!Answers,
         reads' = reads
  PROVE  IInv'
<1> DEFINE none == {}
<1>1. reads' = reads \cup none /\ \A r \in none : \E p, w : r = <<p, w>> /\ FieldIn(p, w)
  OBVIOUS
<1> HIDE DEF none
<1> QED
  BY <1>1, RefuseKeepsInvariant

(* An internal error, after reading some fields. *)
LEMMA ErrorKeepsInvariant ==
  ASSUME IInv, pc \notin {"request", "done"}, UNCHANGED inputs, Refuse(InternalError),
         Service!Known /\ Service!Fits /\ Service!Whole => <<500, <<>>>> \in Service!TheAnswers,
         NEW fields, reads' = reads \cup fields,
         \A r \in fields : \E p, w : r = <<p, w>> /\ FieldIn(p, w)
  PROVE  IInv'
<1>1. <<InternalError, <<>>>> \in Service!Answers
  BY MayRefuse DEF IInv, InternalError
<1> QED
  BY <1>1, RefuseKeepsInvariant

(* The same, before reading any. *)
LEMMA PlainErrorKeepsInvariant ==
  ASSUME IInv, pc \notin {"request", "done"}, UNCHANGED inputs, Refuse(InternalError),
         Service!Known /\ Service!Fits /\ Service!Whole => <<500, <<>>>> \in Service!TheAnswers,
         reads' = reads
  PROVE  IInv'
<1>1. <<InternalError, <<>>>> \in Service!Answers
  BY MayRefuse DEF IInv, InternalError
<1> QED
  BY <1>1, PlainRefusalKeepsInvariant

(* The positions in a block, which a whole index holds. *)
LEMMA BlockFits ==
  ASSUME world \in Worlds, request \in Requests, NEW p, AtMedia(p)
  PROVE  /\ p \in Nat /\ VideoCell(p, Asked) = p + 2 + NameWidth(Asked)
         /\ VideoCell(p, Asked) \in Nat
         /\ AudioCell(p, Asked) = VideoCell(p, Asked) + 2 + Asked.video.size
         /\ AudioCell(p, Asked) \in Nat
         /\ TableCell(p, Asked) = AudioCell(p, Asked) + 2 + Asked.audio.size
         /\ TableCell(p, Asked) \in Nat
         /\ TableCell(p, Asked) + 2 + 4 * Len(Asked.fragments) < full
<1>1. /\ request.medianum + 1 \in 1..Len(Medias) /\ p \in Nat /\ full \in Nat
      /\ Asked.video.size \in Nat /\ Asked.audio.size \in Nat /\ NameWidth(Asked) \in Nat
      /\ Asked.fragments \in Seq(Seq(SampleEntry))
      /\ Asked.fragments # <<>> /\ Len(Asked.fragments) \in Nat
  BY MediaFields, AskedFacts, WorldFacts DEF AtMedia
<1>2. /\ VideoCell(p, Asked) = p + 2 + NameWidth(Asked)
      /\ AudioCell(p, Asked) = VideoCell(p, Asked) + 2 + Asked.video.size
      /\ TableCell(p, Asked) = AudioCell(p, Asked) + 2 + Asked.audio.size
      /\ EntryCell(p, Asked, Len(Asked.fragments) + 1)
           = TableCell(p, Asked) + 2 + 4 * (Len(Asked.fragments) + 1 - 1)
  BY DEF VideoCell, AudioCell, TableCell, EntryCell
<1>3. 1 \in 1..Len(Asked.fragments)
  BY <1>1
<1> DEFINE q == Get(EntryCell(p, Asked, 1))
<1>4. /\ EntryCell(p, Asked, Len(Asked.fragments) + 1) <= q
      /\ DescribesFragment(cells, full, q, Asked, Asked.fragments[1])
  BY <1>3, MediaFields
<1>5. HasCell(cells, full, q, Cell(2, Len(Asked.fragments[1]) % U16))
  BY <1>4 DEF DescribesFragment, Count
<1>6. q \in Nat /\ q + 2 <= full
  BY <1>5, Field
<1> DEFINE n == Len(Asked.fragments)
           t == TableCell(p, Asked)
           e == EntryCell(p, Asked, n + 1)
<1>7. e <= q /\ q + 2 <= full /\ q \in Nat
  BY <1>4, <1>6
<1> DEFINE v == VideoCell(p, Asked)
           w == NameWidth(Asked)
<1>8. v \in Nat
  <2>1. v = p + 2 + w /\ p \in Nat /\ w \in Nat
    BY <1>1, <1>2
  <2> HIDE DEF v, w, q, n, t, e
  <2> QED BY <2>1
<1> DEFINE a == AudioCell(p, Asked)
           vs == Asked.video.size
           au == Asked.audio.size
<1>9. v \in Nat /\ vs \in Nat /\ au \in Nat /\ n \in Nat /\ full \in Nat
  BY <1>1, <1>8
<1>10. a = v + 2 + vs
  BY <1>2
<1>11. t = a + 2 + au
  BY <1>2
<1>12. e = t + 2 + 4 * (n + 1 - 1)
  BY <1>2
<1>13. a \in Nat /\ t \in Nat /\ t + 2 + 4 * n < full
  <2> HIDE DEF q, n, t, e, v, a, w, vs, au
  <2>1. a \in Nat
    BY <1>9, <1>10
  <2>2. t \in Nat
    BY <1>9, <1>11, <2>1
  <2>3. e = t + 2 + 4 * n
    BY <1>9, <1>12, <2>2
  <2> QED BY <1>7, <1>9, <2>1, <2>2, <2>3
<1> QED
  BY <1>1, <1>2, <1>8, <1>13
-----------------------------------------------------------------------------
(* One lemma for each action: it keeps the invariant. *)

(* An answer before anything is mapped. *)
LEMMA EarlyReturnKeepsInvariant ==
  ASSUME IInv, pc = "request",
         UNCHANGED <<inputs, indexptr, got, resp_body, body, sent, history, mapped>>,
         NEW status \in {NotAllowed, NotFound, InternalError}, Return(status),
         <<status, <<>>>> \in Service!Answers
  PROVE  IInv'
<1>1. /\ pc' = "done" /\ response' = status /\ mapped' = mapped
      /\ indexptr' = indexptr /\ got' = got /\ resp_body' = resp_body /\ body' = body
      /\ unmapped' = unmapped /\ reads' = reads /\ UNCHANGED inputs /\ sent' = <<>>
  BY DEF Return, history, IInv, Answered
<1>2. AlignedReads' /\ reads' \subseteq Nat \X Nat
  BY <1>1, NoReads
<1>3. TypeOK'
  BY <1>1, <1>2 DEF IInv, TypeOK
<1>5. Answered'
  BY <1>1, InputsStay DEF Answered
<1>6. Accounted'
  BY <1>1 DEF IInv, Accounted
<1>7. GotRight' /\ WellPlaced' /\ Written'
  BY <1>1 DEF IInv, GotRight, WellPlaced, Written, WithHeader, WithName, WithVideo, WithAudio,
     WithTable, WithFragment, WithSamples
<1>8. NeverOverrun'
  BY <1>1, InputsStay DEF IInv, NeverOverrun
<1> QED
  BY <1>1, <1>2, <1>3, <1>5, <1>6, <1>7, <1>8, InputsStay DEF IInv

LEMMA OpenIndexKeepsInvariant ==
  ASSUME IInv, OpenIndex
  PROVE  IInv'
<1>1. /\ pc = "request" /\ UNCHANGED <<inputs, indexptr, got, resp_body, body, sent, history>>
      /\ world \in Worlds /\ request \in Requests
  BY DEF OpenIndex, IInv
<1>2. CASE request.method = "POST" /\ Return(NotAllowed) /\ UNCHANGED mapped
  <2>1. <<NotAllowed, <<>>>> \in Service!Answers
    BY <1>1, <1>2, EarlyAnswers DEF NotAllowed
  <2> QED BY <1>1, <1>2, <2>1, EarlyReturnKeepsInvariant
<1>3. CASE request.method # "POST" /\ ~request.path /\ Return(NotFound) /\ UNCHANGED mapped
  <2>1. <<NotFound, <<>>>> \in Service!Answers
    BY <1>1, <1>3, EarlyAnswers DEF NotFound
  <2> QED BY <1>1, <1>3, <2>1, EarlyReturnKeepsInvariant
<1>4. CASE /\ request.method # "POST" /\ request.path /\ MakeMapping(world) # OK
           /\ Return(MakeMapping(world)) /\ UNCHANGED mapped
  <2> DEFINE status == MakeMapping(world)
  <2>1. <<status, <<>>>> \in Service!Answers /\ status \in {NotFound, InternalError}
    BY <1>1, <1>4, EarlyAnswers
  <2>2. Return(status) /\ UNCHANGED mapped
    BY <1>4
  <2> HIDE DEF status
  <2> QED BY <1>1, <2>1, <2>2, EarlyReturnKeepsInvariant
<1>5. CASE /\ request.method # "POST" /\ request.path /\ MakeMapping(world) = OK
           /\ mapped' = mapped \cup {"index"} /\ pc' = "header" /\ UNCHANGED response
  <2>1. /\ pc' = "header" /\ response' = response /\ mapped' = {"index"}
        /\ indexptr' = indexptr /\ got' = got /\ resp_body' = resp_body /\ body' = body
        /\ unmapped' = unmapped /\ reads' = reads /\ sent' = sent /\ UNCHANGED inputs
    BY <1>1, <1>5 DEF history, IInv, Accounted
  <2>2. AlignedReads' /\ reads' \subseteq Nat \X Nat
    BY <2>1, NoReads
  <2>3. TypeOK'
    BY <2>1, <2>2 DEF IInv, TypeOK
  <2>4. Mapped'
    BY <1>5, <2>1, InputsStay DEF Mapped
  <2>5. Answered' /\ Accounted'
    BY <1>1, <2>1 DEF IInv, Answered, Accounted, WithSamples
  <2>6. GotRight' /\ WellPlaced' /\ Written'
    BY <1>1, <2>1 DEF IInv, GotRight, WellPlaced, Written, WithHeader, WithName, WithVideo,
       WithAudio, WithTable, WithFragment, WithSamples
  <2>7. NeverOverrun'
    BY <1>1, <2>1 DEF IInv, NeverOverrun, Written
  <2> QED BY <2>1, <2>2, <2>3, <2>4, <2>5, <2>6, <2>7, InputsStay DEF IInv
<1> QED
  BY <1>2, <1>3, <1>4, <1>5 DEF OpenIndex

LEMMA ReadHeaderKeepsInvariant ==
  ASSUME IInv, ReadHeader
  PROVE  IInv'
<1>1. /\ pc = "header" /\ UNCHANGED inputs /\ world \in Worlds /\ request \in Requests /\ Mapped
      /\ indexptr = 0 /\ got = NoLocals /\ mapped = {"index"} /\ resp_body = 0
  BY DEF ReadHeader, IInv, WellPlaced, GotRight, Accounted, Written, WithSamples
<1>2. /\ world.length \in Nat /\ full \in Nat /\ Len(Medias) \in Nat
      /\ 0 \in DOMAIN cells /\ cells[0].width = 7
      /\ 7 \in DOMAIN cells /\ cells[7].width = 1 /\ Get(7) \in Nat
      /\ 8 \in DOMAIN cells /\ cells[8].width = 2 /\ Get(8) = Len(Medias) % U16
  BY <1>1, WorldFacts, Field, DirectoryFields
<1>3. CASE ~CHECKMAP(10) /\ Refuse(InternalError) /\ UNCHANGED reads
  <2>1. world.length <= 10
    BY <1>1, <1>2, <1>3 DEF CHECKMAP
  <2>2. ASSUME Service!Whole PROVE <<500, <<>>>> \in Service!TheAnswers
    <3>1. full <= 10
      BY <2>1, <2>2, SameWords
    <3>2. request.medianum + 1 \notin 1..Len(Medias)
      BY <1>1, <1>2, <3>1, DirectoryFields DEF DirectoryCell
    <3> QED BY <1>1, <3>2, AnswersByCase
  <2>3. <<InternalError, <<>>>> \in Service!Answers
    BY <1>1, <2>2, MayRefuse DEF InternalError
  <2> QED BY <1>1, <1>3, <2>3, PlainRefusalKeepsInvariant
<1>4. CASE /\ CHECKMAP(10) /\ ~KnownFormat
           /\ Reads({<<0, 7>>, <<7, 1>>})
           /\ unmapped' = [unmapped EXCEPT !["index"] = @ + 2] /\ mapped' = {}
           /\ Return(InternalError)
           /\ UNCHANGED <<indexptr, got, resp_body, body, sent>>
  <2>1. /\ pc' = "done" /\ response' = InternalError /\ mapped' = {}
        /\ indexptr' = indexptr /\ got' = got /\ resp_body' = resp_body /\ body' = body
        /\ unmapped' = [unmapped EXCEPT !["index"] = @ + 2]
        /\ reads' = reads \cup {<<0, 7>>, <<7, 1>>} /\ sent' = <<>>
    BY <1>1, <1>4 DEF Return, Reads, IInv, Answered
  <2>2. FieldIn(0, 7) /\ FieldIn(7, 1)
    BY <1>1, <1>2, <1>4 DEF FieldIn, CHECKMAP
  <2>3. AlignedReads' /\ reads' \subseteq Nat \X Nat
    BY <1>1, <2>1, <2>2, ReadsStayAligned
  <2>4. TypeOK'
    BY <2>1, <2>3 DEF IInv, TypeOK
  <2>5. <<InternalError, <<>>>> \in Service!Answers
    <3>1. ~Service!Known
      BY <1>1, <1>4, SameFormat DEF KnownFormat
    <3> QED BY <1>1, <3>1, AllowedAnswers DEF InternalError
  <2>6. Answered'
    BY <1>1, <2>1, <2>5, InputsStay DEF Answered, InternalError
  <2>7. Accounted'
    <3>1. unmapped'["index"] = 2 /\ unmapped'["media"] = 0
      BY <1>1, <2>1 DEF IInv, Accounted, TypeOK
    <3>2. (~KnownFormat)'
      BY <1>1, <1>4, InputsStay
    <3> QED BY <2>1, <3>1, <3>2 DEF Accounted
  <2>8. GotRight' /\ WellPlaced' /\ Written'
    BY <2>1 DEF IInv, GotRight, WellPlaced, Written, WithHeader, WithName, WithVideo, WithAudio,
       WithTable, WithFragment, WithSamples
  <2>9. NeverOverrun'
    BY <1>1, <2>1 DEF NeverOverrun
  <2> QED BY <1>1, <2>1, <2>3, <2>4, <2>6, <2>7, <2>8, <2>9, InputsStay DEF IInv
<1>5. CASE /\ CHECKMAP(10) /\ KnownFormat
           /\ Reads({<<0, 7>>, <<7, 1>>, <<8, 2>>})
           /\ got' = [got EXCEPT !.version = Get(7), !.nmedia = Get(8)]
           /\ indexptr' = 8 + 2
           /\ Continue("directory")
  <2>1. FieldIn(0, 7) /\ FieldIn(7, 1) /\ FieldIn(8, 2)
    BY <1>1, <1>2, <1>5 DEF FieldIn, CHECKMAP
  <2>2. reads' = reads \cup {<<0, 7>>, <<7, 1>>, <<8, 2>>} /\ pc' = "directory"
    BY <1>5 DEF Reads, Continue
  <2>3. /\ got' \in Locals /\ got'.version = Get(7) /\ got'.nmedia = Len(Medias) % U16
    <3>1. Get(8) \in Nat
      BY <1>2, U16Assumption
    <3>2. got \in Locals
      BY DEF IInv, GotRight
    <3> DEFINE v == Get(7)
               n == Get(8)
    <3>3. v \in Nat /\ n \in Nat /\ got' = [got EXCEPT !.version = v, !.nmedia = n]
      BY <1>2, <1>5, <3>1
    <3> HIDE DEF v, n
    <3>4. got' \in Locals /\ got'.version = v /\ got'.nmedia = n
      BY <3>2, <3>3 DEF Locals
    <3> QED BY <1>2, <3>4 DEF v, n
  <2>4. GotRight'
    BY <1>1, <1>5, <2>2, <2>3, InputsStay DEF GotRight, WithHeader, WithName, WithVideo, WithAudio,
       WithTable, WithFragment, WithSamples
  <2>5. WellPlaced'
    BY <1>1, <1>2, <1>5, <2>2, InputsStay DEF WellPlaced, CHECKMAP
  <2>6. "directory" \in WithHeader \ WithSamples
    BY DEF WithHeader, WithSamples
  <2>7. pc \notin {"request", "done"} \cup WithSamples
    BY <1>1 DEF WithSamples
  <2> QED BY <1>1, <1>5, <2>1, <2>2, <2>4, <2>5, <2>6, <2>7, ContinueKeepsInvariant
<1> QED
  BY <1>3, <1>4, <1>5 DEF ReadHeader

LEMMA SeekMediaKeepsInvariant ==
  ASSUME IInv, SeekMedia
  PROVE  IInv'
<1> DEFINE num == request.medianum
           d == DirectoryCell(num + 1)
<1>1. /\ pc = "directory" /\ UNCHANGED inputs /\ world \in Worlds /\ request \in Requests
      /\ indexptr = 10 /\ got.nmedia = Len(Medias) % U16
  BY DEF SeekMedia, IInv, WellPlaced, GotRight, WithHeader
<1>2. /\ world.length \in Nat /\ full \in Nat /\ Len(Medias) \in Nat /\ num \in Nat
      /\ d = indexptr + num * 4
  BY <1>1, WorldFacts, InputsAssumption DEF IsRequest, DirectoryCell
<1> DEFINE mediaoffset == Get(d)
<1>3. got.nmedia \in Nat /\ got.nmedia <= Len(Medias)
  BY <1>1, <1>2, U16Assumption
<1>4. num + 1 \in 1..Len(Medias) =>
        /\ d \in DOMAIN cells /\ cells[d].width = 4 /\ AtMedia(mediaoffset)
        /\ 10 + 4 * Len(Medias) < full
  BY <1>1, <1>2, DirectoryFields DEF DirectoryCell
<1> HIDE DEF d, mediaoffset
<1>5. CASE /\ num >= got.nmedia \/ ~CHECKMAP(got.nmedia * 4)
           /\ Refuse(InternalError) /\ UNCHANGED reads
  <2>1. ASSUME Service!Fits, Service!Whole PROVE <<500, <<>>>> \in Service!TheAnswers
    <3>1. got.nmedia = Len(Medias) /\ world.length = full
      BY <1>1, <2>1, CountsThatFit, WhatFits, SameWords
    <3>2. num + 1 \notin 1..Len(Medias)
      BY <1>1, <1>2, <1>4, <1>5, <3>1 DEF CHECKMAP
    <3> QED BY <1>1, <3>2, AnswersByCase
  <2> QED BY <1>1, <1>5, <2>1, PlainErrorKeepsInvariant
<1>6. CASE /\ num < got.nmedia /\ CHECKMAP(got.nmedia * 4)
           /\ Reads({<<d, 4>>})
           /\ mediaoffset >= world.length /\ Refuse(InternalError)
  <2>1. num + 1 \in 1..Len(Medias)
    BY <1>2, <1>3, <1>6
  <2>2. FieldIn(d, 4)
    BY <1>1, <1>2, <1>3, <1>4, <1>6, <2>1 DEF FieldIn, CHECKMAP
  <2>3. ~Service!Whole
    <3>1. mediaoffset \in Nat /\ mediaoffset + 2 <= full
      BY <1>1, <1>4, <2>1, MediaFields
    <3> QED BY <1>2, <1>6, <3>1, SameWords
  <2> DEFINE fields == {<<d, 4>>}
  <2>4. /\ reads' = reads \cup fields
        /\ \A r \in fields : \E p, w : r = <<p, w>> /\ FieldIn(p, w)
    BY <1>6, <2>2 DEF Reads
  <2> HIDE DEF fields
  <2> QED BY <1>1, <1>6, <2>2, <2>3, <2>4, ErrorKeepsInvariant
<1>7. CASE /\ num < got.nmedia /\ CHECKMAP(got.nmedia * 4)
           /\ Reads({<<d, 4>>})
           /\ mediaoffset < world.length /\ indexptr' = mediaoffset
           /\ Continue("name") /\ UNCHANGED got
  <2>1. num + 1 \in 1..Len(Medias)
    BY <1>2, <1>3, <1>7
  <2>2. FieldIn(d, 4)
    BY <1>1, <1>2, <1>3, <1>4, <1>7, <2>1 DEF FieldIn, CHECKMAP
  <2>3. AtMedia(mediaoffset) /\ mediaoffset \in Nat
    BY <1>1, <1>4, <2>1, MediaFields
  <2> DEFINE fields == {<<d, 4>>}
  <2>4. /\ reads' = reads \cup fields /\ pc' = "name"
        /\ \A r \in fields : \E p, w : r = <<p, w>> /\ FieldIn(p, w)
    BY <1>7, <2>2 DEF Reads, Continue
  <2> HIDE DEF fields
  <2>5. GotRight'
    BY <1>1, <1>7, <2>4, InputsStay DEF IInv, GotRight, WithHeader, WithName, WithVideo, WithAudio,
       WithTable, WithFragment, WithSamples
  <2>6. WellPlaced'
    <3>1. AtMedia(indexptr)'
      BY <1>1, <1>7, <2>3, InputsStay DEF AtMedia
    <3>2. (indexptr < world.length)'
      BY <1>1, <1>7, InputsStay
    <3> QED BY <2>4, <3>1, <3>2 DEF WellPlaced
  <2>7. "name" \in WithHeader \ WithSamples /\ pc \notin {"request", "done"} \cup WithSamples
    BY <1>1 DEF WithHeader, WithSamples
  <2> QED BY <1>1, <1>7, <2>2, <2>3, <2>4, <2>5, <2>6, <2>7, ContinueKeepsInvariant
<1> QED
  BY <1>2, <1>5, <1>6, <1>7 DEF SeekMedia, mediaoffset

LEMMA ReadNameKeepsInvariant ==
  ASSUME IInv, ReadName
  PROVE  IInv'
<1> DEFINE len == NameWidth(Asked)
<1>1. /\ pc = "name" /\ UNCHANGED inputs /\ world \in Worlds /\ request \in Requests
      /\ AtMedia(indexptr)
  BY DEF ReadName, IInv, WellPlaced
<1>2. /\ world.length \in Nat /\ full \in Nat /\ len \in Nat /\ indexptr \in Nat
      /\ indexptr \in DOMAIN cells /\ cells[indexptr].width = 2 /\ Get(indexptr) = len
      /\ indexptr + 2 \in DOMAIN cells /\ cells[indexptr + 2].width = len
      /\ Get(indexptr + 2) = Asked.name.id
  BY <1>1, WorldFacts, AskedFacts, MediaFields DEF AtMedia
<1>3. VideoCell(indexptr, Asked) = indexptr + 2 + len /\ VideoCell(indexptr, Asked) \in Nat
  BY <1>1, BlockFits
<1>4. indexptr + 2 + len < full
  <2> DEFINE v == VideoCell(indexptr, Asked)
  <2>1. HasCell(cells, full, v, Cell(2, Asked.video.size % U16))
    BY <1>1, MediaFields DEF HasBlob, Count
  <2>2. v \in Nat /\ v + 2 <= full
    BY <1>1, <2>1, Field
  <2> HIDE DEF v, len
  <2> QED BY <1>2, <1>3, <2>2 DEF v
<1> HIDE DEF len
<1>5. CASE ~CHECKMAP(2) /\ Refuse(InternalError) /\ UNCHANGED reads
  <2>1. ~Service!Whole
    BY <1>2, <1>4, <1>5, SameWords DEF CHECKMAP
  <2> QED BY <1>1, <1>5, <2>1, PlainErrorKeepsInvariant
<1>6. CASE /\ CHECKMAP(2) /\ ~(CHECKMAP(2 + len) /\ got.version \in 1..3)
           /\ Refuse(InternalError) /\ Reads({<<indexptr, 2>>})
  <2>1. ~Service!Whole \/ ~Service!Known
    <3>1. got.version = Get(7)
      BY <1>1 DEF IInv, GotRight, WithHeader
    <3>2. CASE ~CHECKMAP(2 + len)
      BY <1>2, <1>4, <3>2, SameWords DEF CHECKMAP
    <3>3. CASE got.version \notin 1..3
      BY <1>1, <3>1, <3>3, SameFormat
    <3> QED BY <1>6, <3>2, <3>3
  <2>2. FieldIn(indexptr, 2)
    BY <1>2, <1>6 DEF FieldIn, CHECKMAP
  <2> DEFINE fields == {<<indexptr, 2>>}
  <2>3. /\ reads' = reads \cup fields
        /\ \A r \in fields : \E p, w : r = <<p, w>> /\ FieldIn(p, w)
    BY <1>6, <2>2 DEF Reads
  <2> HIDE DEF fields
  <2> QED BY <1>1, <1>6, <2>1, <2>3, ErrorKeepsInvariant
<1>7. CASE /\ CHECKMAP(2) /\ CHECKMAP(2 + len) /\ got.version \in 1..3
           /\ Reads({<<indexptr, 2>>, <<indexptr + 2, len>>})
           /\ got' = [got EXCEPT !.name = Get(indexptr + 2)]
           /\ indexptr' = indexptr + 2 + len
           /\ Continue("video")
  <2>1. FieldIn(indexptr, 2) /\ FieldIn(indexptr + 2, len)
    BY <1>2, <1>7 DEF FieldIn, CHECKMAP
  <2> DEFINE fields == {<<indexptr, 2>>, <<indexptr + 2, len>>}
  <2>2. /\ reads' = reads \cup fields /\ pc' = "video"
        /\ \A r \in fields : \E p, w : r = <<p, w>> /\ FieldIn(p, w)
    BY <1>7, <2>1 DEF Reads, Continue
  <2> HIDE DEF fields
  <2>3. /\ got' \in Locals /\ got'.version = got.version /\ got'.nmedia = got.nmedia
        /\ got'.name = Asked.name.id
    <3>1. Asked.name.id \in Names
      BY <1>1, WorldFacts DEF AtMedia, Asked, Media, Blob, Names
    <3>2. got \in Locals /\ got' = [got EXCEPT !.name = Asked.name.id]
      BY <1>2, <1>7 DEF IInv, GotRight
    <3> QED BY <3>1, <3>2 DEF Locals
  <2>4. GotRight'
    <3>1. request.medianum + 1 \in 1..Len(Medias)
      BY <1>1 DEF AtMedia
    <3> QED BY <1>1, <1>7, <2>2, <2>3, <3>1, InputsStay DEF IInv, GotRight, WithHeader, WithName,
               WithVideo, WithAudio, WithTable, WithFragment, WithSamples
  <2>5. WellPlaced'
    <3>1. PICK p : p = indexptr
      OBVIOUS
    <3>2. AtMedia(p)' /\ (indexptr = VideoCell(p, Asked))'
      BY <1>1, <1>3, <1>7, <3>1, InputsStay
    <3> QED BY <2>2, <3>2 DEF WellPlaced
  <2>6. /\ "video" \in WithHeader \ WithSamples /\ pc \notin {"request", "done"} \cup WithSamples
        /\ indexptr' \in Nat
    BY <1>1, <1>2, <1>7 DEF WithHeader, WithName, WithSamples
  <2> QED BY <1>1, <1>7, <2>2, <2>4, <2>5, <2>6, ContinueKeepsInvariant
<1> QED
  BY <1>2, <1>5, <1>6, <1>7 DEF ReadName

(* Codec data: the same steps for either track. *)
LEMMA ReadCodecDataKeepsInvariant ==
  ASSUME IInv, NEW track \in {"video", "audio"}, NEW next \in {"audio", "table"},
         pc = track, UNCHANGED inputs,
         NEW p, AtMedia(p), NEW b, b.size \in Nat, b.size % U16 = b.size,
         HasBlob(cells, full, indexptr, b), indexptr + 2 + b.size < full,
         \/ ~CHECKMAP(2) /\ Refuse(InternalError) /\ UNCHANGED reads
         \/ /\ CHECKMAP(2) /\ ~CHECKMAP(2 + Get(indexptr))
            /\ Refuse(InternalError) /\ Reads({<<indexptr, 2>>})
         \/ /\ CHECKMAP(2) /\ CHECKMAP(2 + Get(indexptr))
            /\ Reads(CodecReads(indexptr, Get(indexptr)))
            /\ indexptr' = indexptr + 2 + Get(indexptr)
            /\ Continue(next)
            /\ GotRight' /\ WellPlaced'
  PROVE  IInv'
<1> DEFINE len == b.size
<1>1. world \in Worlds /\ world.length \in Nat /\ full \in Nat
  BY WorldFacts DEF IInv
<1>2. /\ indexptr \in Nat /\ indexptr \in DOMAIN cells /\ cells[indexptr].width = 2
      /\ Get(indexptr) = len
      /\ len > 0 => indexptr + 2 \in DOMAIN cells /\ cells[indexptr + 2].width = len
  BY <1>1, BlobFields
<1>3. pc \notin {"request", "done"} \cup WithSamples /\ next \in WithHeader \ WithSamples
  BY DEF WithHeader, WithName, WithVideo, WithAudio, WithSamples
<1>4. len \in Nat /\ indexptr + 2 + len < full
  OBVIOUS
<1> HIDE DEF len
<1>5. CASE ~CHECKMAP(2) /\ Refuse(InternalError) /\ UNCHANGED reads
  <2>1. ~Service!Whole
    BY <1>1, <1>2, <1>4, <1>5, SameWords DEF CHECKMAP
  <2> QED BY <1>3, <1>5, <2>1, PlainErrorKeepsInvariant
<1>6. CASE /\ CHECKMAP(2) /\ ~CHECKMAP(2 + len)
           /\ Refuse(InternalError) /\ Reads({<<indexptr, 2>>})
  <2>1. ~Service!Whole
    BY <1>1, <1>2, <1>4, <1>6, SameWords DEF CHECKMAP
  <2>2. FieldIn(indexptr, 2)
    BY <1>1, <1>2, <1>6 DEF FieldIn, CHECKMAP
  <2> DEFINE fields == {<<indexptr, 2>>}
  <2>3. /\ reads' = reads \cup fields
        /\ \A r \in fields : \E q, w : r = <<q, w>> /\ FieldIn(q, w)
    BY <1>6, <2>2 DEF Reads
  <2> HIDE DEF fields
  <2> QED BY <1>3, <1>6, <2>1, <2>3, ErrorKeepsInvariant
<1>7. CASE /\ CHECKMAP(2) /\ CHECKMAP(2 + len)
           /\ Reads(CodecReads(indexptr, len))
           /\ indexptr' = indexptr + 2 + len
           /\ Continue(next)
           /\ GotRight' /\ WellPlaced'
  <2>1. FieldIn(indexptr, 2) /\ (len > 0 => FieldIn(indexptr + 2, len))
    BY <1>1, <1>2, <1>4, <1>7 DEF FieldIn, CHECKMAP
  <2> DEFINE fields == CodecReads(indexptr, len)
  <2>2. reads' = reads \cup fields
    BY <1>7 DEF Reads
  <2>3. \A r \in fields : \E q, w : r = <<q, w>> /\ FieldIn(q, w)
    BY <1>4, <2>1 DEF CodecReads
  <2>4. indexptr' \in Nat
    BY <1>2, <1>4, <1>7
  <2> HIDE DEF fields
  <2> QED BY <1>3, <1>7, <2>2, <2>3, <2>4, ContinueKeepsInvariant
<1> QED
  BY <1>2, <1>5, <1>6, <1>7

(* What is kept of the codec data is a blob. *)
LEMMA KeptBlobs ==
  ASSUME world \in Worlds, request \in Requests, NEW p, AtMedia(p)
  PROVE  Kept(Asked.video) \in KeptBlob /\ Kept(Asked.audio) \in KeptBlob
<1>1. Asked.video \in Blob /\ Asked.audio \in Blob
  BY WorldFacts DEF AtMedia, Asked, Media
<1>2. ASSUME NEW b \in Blob PROVE Kept(b) \in KeptBlob
  BY DEF Kept, KeptBlob, Names, Blob
<1> QED
  BY <1>1, <1>2

LEMMA ReadVideoKeepsInvariant ==
  ASSUME IInv, ReadVideo
  PROVE  IInv'
<1>1. /\ pc = "video" /\ UNCHANGED inputs /\ world \in Worlds /\ request \in Requests
  BY DEF ReadVideo, ReadCodecData, IInv
<1>2. PICK p : AtMedia(p) /\ indexptr = VideoCell(p, Asked)
  BY <1>1 DEF IInv, WellPlaced
<1>3. /\ Asked.video.size \in Nat /\ Asked.video.size % U16 = Asked.video.size
      /\ HasBlob(cells, full, indexptr, Asked.video)
  BY <1>1, <1>2, AskedFacts, MediaFields DEF AtMedia
<1>4. Get(indexptr) = Asked.video.size /\ CodecData(indexptr, Get(indexptr)) = Kept(Asked.video)
  BY <1>1, <1>3, BlobFields
<1>5. indexptr + 2 + Asked.video.size = AudioCell(p, Asked)
      /\ indexptr + 2 + Asked.video.size < full
  <2>1. Asked.audio.size \in Nat /\ Len(Asked.fragments) \in Nat /\ full \in Nat
    BY <1>1, <1>2, AskedFacts, WorldFacts DEF AtMedia
  <2>2. /\ AudioCell(p, Asked) = indexptr + 2 + Asked.video.size
        /\ TableCell(p, Asked) = AudioCell(p, Asked) + 2 + Asked.audio.size
        /\ AudioCell(p, Asked) \in Nat
        /\ TableCell(p, Asked) + 2 + 4 * Len(Asked.fragments) < full
    BY <1>1, <1>2, BlockFits
  <2> DEFINE a == AudioCell(p, Asked)
             t == TableCell(p, Asked)
             au == Asked.audio.size
             n == Len(Asked.fragments)
  <2>3. t = a + 2 + au /\ a \in Nat /\ au \in Nat /\ n \in Nat /\ t + 2 + 4 * n < full /\ full \in Nat
    BY <2>1, <2>2
  <2>4. a < full
    <3> HIDE DEF a, t, au, n
    <3> QED BY <2>3
  <2> QED BY <2>2, <2>4
<1>6. ASSUME got' = [got EXCEPT !.video = CodecData(indexptr, Get(indexptr))],
             indexptr' = indexptr + 2 + Get(indexptr), Continue("audio")
      PROVE  GotRight' /\ WellPlaced'
  <2>1. pc' = "audio" /\ indexptr' = AudioCell(p, Asked)
    BY <1>4, <1>5, <1>6 DEF Continue
  <2>2. /\ got' \in Locals /\ got'.version = got.version /\ got'.nmedia = got.nmedia
        /\ got'.name = got.name /\ got'.video = Kept(Asked.video)
    <3>1. got \in Locals /\ got' = [got EXCEPT !.video = Kept(Asked.video)]
      BY <1>4, <1>6 DEF IInv, GotRight
    <3>2. Kept(Asked.video) \in KeptBlob
      BY <1>1, <1>2, KeptBlobs
    <3> QED BY <3>1, <3>2 DEF Locals
  <2>3. GotRight'
    BY <1>1, <2>1, <2>2, InputsStay DEF IInv, GotRight, WithHeader, WithName,
       WithVideo, WithAudio, WithTable, WithFragment, WithSamples
  <2>4. WellPlaced'
    <3>1. AtMedia(p)' /\ (indexptr = AudioCell(p, Asked))'
      BY <1>1, <1>2, <2>1, InputsStay
    <3> QED BY <2>1, <3>1 DEF WellPlaced
  <2> QED BY <2>3, <2>4
<1> DEFINE track == "video"
           next == "audio"
           b == Asked.video
<1>7. \/ ~CHECKMAP(2) /\ Refuse(InternalError) /\ UNCHANGED reads
      \/ /\ CHECKMAP(2) /\ ~CHECKMAP(2 + Get(indexptr))
         /\ Refuse(InternalError) /\ Reads({<<indexptr, 2>>})
      \/ /\ CHECKMAP(2) /\ CHECKMAP(2 + Get(indexptr))
         /\ Reads(CodecReads(indexptr, Get(indexptr)))
         /\ indexptr' = indexptr + 2 + Get(indexptr)
         /\ Continue(next)
         /\ GotRight' /\ WellPlaced'
  BY <1>6 DEF ReadVideo, ReadCodecData
<1>8. /\ track \in {"video", "audio"} /\ next \in {"audio", "table"} /\ pc = track
      /\ b.size \in Nat /\ b.size % U16 = b.size
      /\ HasBlob(cells, full, indexptr, b) /\ indexptr + 2 + b.size < full
  BY <1>1, <1>3, <1>5
<1> HIDE DEF track, next, b
<1> QED
  BY <1>1, <1>2, <1>7, <1>8, ReadCodecDataKeepsInvariant

LEMMA ReadAudioKeepsInvariant ==
  ASSUME IInv, ReadAudio
  PROVE  IInv'
<1>1. /\ pc = "audio" /\ UNCHANGED inputs /\ world \in Worlds /\ request \in Requests
  BY DEF ReadAudio, ReadCodecData, IInv
<1>2. PICK p : AtMedia(p) /\ indexptr = AudioCell(p, Asked)
  BY <1>1 DEF IInv, WellPlaced
<1>3. /\ Asked.audio.size \in Nat /\ Asked.audio.size % U16 = Asked.audio.size
      /\ HasBlob(cells, full, indexptr, Asked.audio)
  BY <1>1, <1>2, AskedFacts, MediaFields DEF AtMedia
<1>4. Get(indexptr) = Asked.audio.size /\ CodecData(indexptr, Get(indexptr)) = Kept(Asked.audio)
  BY <1>1, <1>3, BlobFields
<1>5. indexptr + 2 + Asked.audio.size = TableCell(p, Asked)
      /\ indexptr + 2 + Asked.audio.size < full
  <2>1. Len(Asked.fragments) \in Nat /\ full \in Nat
    BY <1>1, <1>2, AskedFacts, WorldFacts DEF AtMedia
  <2>2. /\ TableCell(p, Asked) = indexptr + 2 + Asked.audio.size
        /\ TableCell(p, Asked) \in Nat
        /\ TableCell(p, Asked) + 2 + 4 * Len(Asked.fragments) < full
    BY <1>1, <1>2, BlockFits
  <2> DEFINE t == TableCell(p, Asked)
             n == Len(Asked.fragments)
  <2>3. t \in Nat /\ n \in Nat /\ t + 2 + 4 * n < full /\ full \in Nat
    BY <2>1, <2>2
  <2>4. t < full
    <3> HIDE DEF t, n
    <3> QED BY <2>3
  <2> QED BY <2>2, <2>4
<1>6. ASSUME got' = [got EXCEPT !.audio = CodecData(indexptr, Get(indexptr))],
             indexptr' = indexptr + 2 + Get(indexptr), Continue("table")
      PROVE  GotRight' /\ WellPlaced'
  <2>1. pc' = "table" /\ indexptr' = TableCell(p, Asked)
    BY <1>4, <1>5, <1>6 DEF Continue
  <2>2. /\ got' \in Locals /\ got'.version = got.version /\ got'.nmedia = got.nmedia
        /\ got'.name = got.name /\ got'.video = got.video /\ got'.audio = Kept(Asked.audio)
    <3>1. got \in Locals /\ got' = [got EXCEPT !.audio = Kept(Asked.audio)]
      BY <1>4, <1>6 DEF IInv, GotRight
    <3>2. Kept(Asked.audio) \in KeptBlob
      BY <1>1, <1>2, KeptBlobs
    <3> QED BY <3>1, <3>2 DEF Locals
  <2>3. GotRight'
    BY <1>1, <2>1, <2>2, InputsStay DEF IInv, GotRight, WithHeader, WithName,
       WithVideo, WithAudio, WithTable, WithFragment, WithSamples
  <2>4. WellPlaced'
    <3>1. AtMedia(p)' /\ (indexptr = TableCell(p, Asked))'
      BY <1>1, <1>2, <2>1, InputsStay
    <3> QED BY <2>1, <3>1 DEF WellPlaced
  <2> QED BY <2>3, <2>4
<1> DEFINE track == "audio"
           next == "table"
           b == Asked.audio
<1>7. \/ ~CHECKMAP(2) /\ Refuse(InternalError) /\ UNCHANGED reads
      \/ /\ CHECKMAP(2) /\ ~CHECKMAP(2 + Get(indexptr))
         /\ Refuse(InternalError) /\ Reads({<<indexptr, 2>>})
      \/ /\ CHECKMAP(2) /\ CHECKMAP(2 + Get(indexptr))
         /\ Reads(CodecReads(indexptr, Get(indexptr)))
         /\ indexptr' = indexptr + 2 + Get(indexptr)
         /\ Continue(next)
         /\ GotRight' /\ WellPlaced'
  BY <1>6 DEF ReadAudio, ReadCodecData
<1>8. /\ track \in {"video", "audio"} /\ next \in {"audio", "table"} /\ pc = track
      /\ b.size \in Nat /\ b.size % U16 = b.size
      /\ HasBlob(cells, full, indexptr, b) /\ indexptr + 2 + b.size < full
  BY <1>1, <1>3, <1>5
<1> HIDE DEF track, next, b
<1> QED
  BY <1>1, <1>2, <1>7, <1>8, ReadCodecDataKeepsInvariant

LEMMA ReadTableKeepsInvariant ==
  ASSUME IInv, ReadTable
  PROVE  IInv'
<1> DEFINE count == Len(Asked.fragments)
           num == request.fragnum
           nfragments == Get(indexptr)
           entry == indexptr + 2 + (num - 1) * 4
<1>1. /\ pc = "table" /\ UNCHANGED inputs /\ world \in Worlds /\ request \in Requests /\ Mapped
  BY DEF ReadTable, IInv
<1>2. PICK p : AtMedia(p) /\ indexptr = TableCell(p, Asked)
  BY <1>1 DEF IInv, WellPlaced
<1>3. request.medianum + 1 \in 1..Len(Medias) /\ count \in Nat /\ num \in Nat
      /\ world.length \in Nat /\ full \in Nat
  BY <1>1, <1>2, AskedFacts, WorldFacts DEF AtMedia
<1>4. /\ indexptr \in Nat /\ indexptr \in DOMAIN cells /\ cells[indexptr].width = 2
      /\ nfragments = count % U16
  <2>1. HasCell(cells, full, indexptr, Cell(2, count % U16))
    BY <1>1, <1>2, MediaFields DEF Count
  <2> QED BY <1>1, <2>1, Field
<1>5. indexptr + 2 + 4 * count < full
  BY <1>1, <1>2, BlockFits
<1>6. nfragments \in Nat /\ nfragments <= count
  <2>1. \A k \in Nat : k % U16 \in Nat /\ k % U16 <= k
    BY U16Assumption
  <2> QED BY <1>3, <1>4, <2>1
<1>7. Service!Known
  <2>1. KnownFormat /\ Get(7) \in 1..3
    BY <1>1 DEF IInv, GotRight, WithHeader, WithName, WithVideo, WithAudio
  <2> QED BY <1>1, <2>1, SameFormat DEF KnownFormat
<1>8. /\ Service!CountsFit => nfragments = count
      /\ Service!Fits => nfragments = count
  BY <1>1, <1>3, <1>4, CountsThatFit, WhatFits
<1>9. num \in 1..count =>
        /\ entry \in DOMAIN cells /\ cells[entry].width = 4
        /\ AtFragment(Get(entry)) /\ Get(entry) \in Nat /\ Get(entry) + 2 <= full
  <2> SUFFICES ASSUME num \in 1..count
               PROVE  /\ entry \in DOMAIN cells /\ cells[entry].width = 4
                      /\ AtFragment(Get(entry)) /\ Get(entry) \in Nat /\ Get(entry) + 2 <= full
    OBVIOUS
  <2> DEFINE e == EntryCell(p, Asked, num)
             q == Get(e)
  <2>1. entry = e
    BY <1>2, <1>3, <1>4 DEF EntryCell
  <2>2. HasCell(cells, full, e, Cell(4, q)) /\ DescribesFragment(cells, full, q, Asked, AskedFragment)
    BY <1>1, <1>2, MediaFields DEF AskedFragment
  <2>3. e \in DOMAIN cells /\ cells[e].width = 4
    BY <1>1, <2>2, Field
  <2>4. q \in Nat /\ q \in DOMAIN cells /\ q + 2 <= full
    <3>1. HasCell(cells, full, q, Cell(2, Len(AskedFragment) % U16))
      BY <2>2 DEF DescribesFragment, Count
    <3> QED BY <1>1, <3>1, Field
  <2>5. AtFragment(q)
    BY <2>2, <2>4 DEF AtFragment
  <2> QED BY <2>1, <2>3, <2>4, <2>5
<1> HIDE DEF count, nfragments, entry
<1>10. CASE ~CHECKMAP(2) /\ Refuse(InternalError) /\ UNCHANGED reads
  <2>1. ~Service!Whole
    BY <1>3, <1>4, <1>5, <1>10, SameWords DEF CHECKMAP
  <2> QED BY <1>1, <1>10, <2>1, PlainErrorKeepsInvariant
<1> DEFINE head == {<<indexptr, 2>>}
<1>11. CHECKMAP(2) => \A r \in head : \E k, w : r = <<k, w>> /\ FieldIn(k, w)
  <2>1. CHECKMAP(2) => FieldIn(indexptr, 2)
    BY <1>3, <1>4 DEF FieldIn, CHECKMAP
  <2> QED BY <2>1
<1> HIDE DEF head
<1>12. CASE /\ CHECKMAP(2) /\ ~KnownFragment(num, nfragments)
            /\ Refuse(NotFound) /\ Reads(head)
  <2>1. num \notin 1..nfragments
    BY <1>3, <1>6, <1>12 DEF KnownFragment
  <2>2. <<404, <<>>>> \in Service!Answers
    <3>1. CASE Service!CountsFit
      <4>1. <<404, <<>>>> \in Service!TheAnswers
        BY <1>1, <1>3, <1>8, <2>1, <3>1, AnswersByCase DEF count
      <4> QED BY <1>1, <1>7, <4>1, AllowedAnswers
    <3>2. CASE ~Service!CountsFit
      BY <1>1, <1>7, <3>2, AllowedAnswers
    <3> QED BY <3>1, <3>2
  <2>3. reads' = reads \cup head
    BY <1>12 DEF Reads
  <2>4. <<NotFound, <<>>>> \in Service!Answers
    BY <2>2 DEF NotFound
  <2> QED BY <1>1, <1>11, <1>12, <2>3, <2>4, RefuseKeepsInvariant
<1>13. CASE /\ CHECKMAP(2) /\ KnownFragment(num, nfragments)
            /\ ~CHECKMAP(2 + nfragments * 4)
            /\ Refuse(InternalError) /\ Reads(head)
  <2>1. ~(Service!Fits /\ Service!Whole)
    BY <1>3, <1>4, <1>5, <1>8, <1>13, SameWords DEF CHECKMAP
  <2>2. reads' = reads \cup head
    BY <1>13 DEF Reads
  <2> QED BY <1>1, <1>11, <1>13, <2>1, <2>2, ErrorKeepsInvariant
<1> DEFINE both == {<<indexptr, 2>>, <<entry, 4>>}
<1>14. CHECKMAP(2) /\ KnownFragment(num, nfragments) /\ CHECKMAP(2 + nfragments * 4) =>
         /\ num \in 1..count
         /\ \A r \in both : \E k, w : r = <<k, w>> /\ FieldIn(k, w)
  <2> SUFFICES ASSUME CHECKMAP(2), KnownFragment(num, nfragments), CHECKMAP(2 + nfragments * 4)
               PROVE  /\ num \in 1..count
                      /\ \A r \in both : \E k, w : r = <<k, w>> /\ FieldIn(k, w)
    OBVIOUS
  <2>1. num \in 1..nfragments /\ num \in 1..count
    BY <1>3, <1>6 DEF KnownFragment
  <2>2. FieldIn(indexptr, 2)
    BY <1>3, <1>4 DEF FieldIn, CHECKMAP
  <2>3. entry = indexptr + 2 + (num - 1) * 4
    BY DEF entry
  <2>4. entry + 4 <= world.length
    <3>1. indexptr + (2 + nfragments * 4) < world.length
      BY DEF CHECKMAP
    <3>2. /\ num \in Nat /\ nfragments \in Nat /\ num <= nfragments
          /\ indexptr \in Nat /\ world.length \in Nat
      BY <1>3, <1>4, <1>6, <2>1
    <3> QED BY <2>3, <3>1, <3>2
  <2>5. FieldIn(entry, 4)
    BY <1>9, <2>1, <2>4 DEF FieldIn
  <2> QED BY <2>1, <2>2, <2>5
<1> HIDE DEF both
<1>15. CASE /\ CHECKMAP(2) /\ KnownFragment(num, nfragments) /\ CHECKMAP(2 + nfragments * 4)
            /\ Reads(both)
            /\ Get(entry) >= world.length /\ Refuse(InternalError)
  <2>1. ~Service!Whole
    BY <1>3, <1>9, <1>14, <1>15, SameWords
  <2>2. reads' = reads \cup both
    BY <1>15 DEF Reads
  <2> QED BY <1>1, <1>14, <1>15, <2>1, <2>2, ErrorKeepsInvariant
<1>16. CASE /\ CHECKMAP(2) /\ KnownFragment(num, nfragments) /\ CHECKMAP(2 + nfragments * 4)
            /\ Reads(both)
            /\ Get(entry) < world.length /\ indexptr' = Get(entry)
            /\ Continue("fragment") /\ UNCHANGED got
  <2>1. reads' = reads \cup both /\ pc' = "fragment"
    BY <1>16 DEF Reads, Continue
  <2>2. num \in 1..count
    BY <1>14, <1>16
  <2>3. GotRight'
    BY <1>1, <1>16, <2>1, <2>2, InputsStay DEF IInv, GotRight, WithHeader, WithName, WithVideo,
       WithAudio, WithTable, WithFragment, WithSamples, count
  <2>4. WellPlaced'
    <3>1. AtFragment(indexptr)'
      BY <1>1, <1>9, <1>16, <2>2, InputsStay DEF AtFragment
    <3>2. (indexptr < world.length)'
      BY <1>1, <1>16, InputsStay
    <3> QED BY <2>1, <3>1, <3>2 DEF WellPlaced
  <2>5. "fragment" \in WithHeader \ WithSamples /\ pc \notin {"request", "done"} \cup WithSamples
        /\ indexptr' \in Nat
    BY <1>1, <1>9, <1>16, <2>2 DEF WithHeader, WithName, WithVideo, WithAudio, WithTable, WithSamples
  <2> QED BY <1>1, <1>14, <1>16, <2>1, <2>3, <2>4, <2>5, ContinueKeepsInvariant
<1> QED
  BY <1>10, <1>12, <1>13, <1>15, <1>16 DEF ReadTable, nfragments, entry, head, both

LEMMA ReadFragmentKeepsInvariant ==
  ASSUME IInv, ReadFragment
  PROVE  IInv'
<1> DEFINE n == Len(AskedFragment)
           q == indexptr
<1>1. /\ pc = "fragment" /\ UNCHANGED inputs /\ world \in Worlds /\ request \in Requests
      /\ AtFragment(q)
  BY DEF ReadFragment, IInv, WellPlaced
<1>2. /\ request.medianum + 1 \in 1..Len(Medias)
      /\ request.fragnum \in 1..Len(Asked.fragments)
  BY <1>1 DEF IInv, GotRight, WithName, WithVideo, WithAudio, WithTable, AtFragment
<1>3. /\ n \in Nat /\ AskedFragment \in Seq(SampleEntry) /\ Sizes[n] \in Nat
      /\ world.length \in Nat /\ full \in Nat /\ Sizes[n] % U32 \in Nat
  BY <1>1, <1>2, SizesFacts, WorldFacts
<1>4. /\ q \in Nat /\ q \in DOMAIN cells /\ cells[q].width = 2 /\ Get(q) = n % U16
      /\ q + 2 \in DOMAIN cells /\ cells[q + 2].width = 4 /\ Get(q + 2) = Sizes[n] % U32
      /\ n > 0 => q + 22 <= full
  <2>1. n > 0 => RecordCell(q, 1) + 16 <= full
    BY <1>1, <1>2, <1>3, FragmentFields
  <2>2. q \in Nat
    BY <1>1, <1>2, FragmentFields
  <2>3. n > 0 => q + 22 <= full
    BY <2>1, <2>2 DEF RecordCell
  <2> QED BY <1>1, <1>2, <2>3, FragmentFields
<1>5. n = 0 => <<500, <<>>>> \in Service!TheAnswers
  BY <1>1, <1>2, <1>3, AnswersByCase
<1>6. Service!Fits => Get(q) = n
  BY <1>1, <1>2, <1>4, CountsThatFit, WhatFits
<1> HIDE DEF n, q
<1>7. CASE ~CHECKMAP(6) /\ Refuse(InternalError) /\ UNCHANGED reads
  <2>1. Service!Whole => n = 0
    BY <1>3, <1>4, <1>7, SameWords DEF CHECKMAP, q
  <2> QED BY <1>1, <1>5, <1>7, <2>1, PlainErrorKeepsInvariant
<1>8. CASE CHECKMAP(6) /\ Get(q) < 1 /\ Refuse(InternalError) /\ Reads({<<q, 2>>})
  <2>1. Service!Fits => n = 0
    BY <1>3, <1>6, <1>8
  <2>2. FieldIn(q, 2)
    BY <1>3, <1>4, <1>8 DEF FieldIn, CHECKMAP, q
  <2> DEFINE fields == {<<q, 2>>}
  <2>3. /\ reads' = reads \cup fields
        /\ \A r \in fields : \E k, w : r = <<k, w>> /\ FieldIn(k, w)
    BY <1>8, <2>2 DEF Reads
  <2> HIDE DEF fields
  <2> QED BY <1>1, <1>5, <1>8, <2>1, <2>3, ErrorKeepsInvariant
<1>9. CASE /\ CHECKMAP(6) /\ Get(q) >= 1
           /\ Reads({<<q, 2>>, <<q + 2, 4>>})
           /\ got' = [got EXCEPT !.nsamples = Get(q), !.totalsize = Get(q + 2)]
           /\ indexptr' = q + 6
           /\ Continue("media")
  <2>1. FieldIn(q, 2) /\ FieldIn(q + 2, 4)
    BY <1>3, <1>4, <1>9 DEF FieldIn, CHECKMAP, q
  <2> DEFINE fields == {<<q, 2>>, <<q + 2, 4>>}
  <2>2. /\ reads' = reads \cup fields /\ pc' = "media"
        /\ \A r \in fields : \E k, w : r = <<k, w>> /\ FieldIn(k, w)
    BY <1>9, <2>1 DEF Reads, Continue
  <2> HIDE DEF fields
  <2>3. /\ got' \in Locals /\ got'.version = got.version /\ got'.nmedia = got.nmedia
        /\ got'.name = got.name /\ got'.video = got.video /\ got'.audio = got.audio
        /\ got'.nsamples = n % U16 /\ got'.nsamples >= 1 /\ got'.totalsize = Sizes[n] % U32
    <3> DEFINE c == Get(q)
               z == Get(q + 2)
    <3>1. got \in Locals /\ got' = [got EXCEPT !.nsamples = c, !.totalsize = z]
      BY <1>9 DEF IInv, GotRight
    <3>2. c \in Nat /\ z \in Nat /\ c = n % U16 /\ z = Sizes[n] % U32 /\ c >= 1
      BY <1>3, <1>4, <1>9, U16Assumption
    <3> HIDE DEF c, z
    <3>3. /\ got' \in Locals /\ got'.version = got.version /\ got'.nmedia = got.nmedia
          /\ got'.name = got.name /\ got'.video = got.video /\ got'.audio = got.audio
          /\ got'.nsamples = c /\ got'.totalsize = z
      BY <3>1, <3>2 DEF Locals
    <3> QED BY <3>2, <3>3
  <2>4. GotRight'
    BY <1>1, <2>2, <2>3, InputsStay DEF IInv, GotRight, WithHeader, WithName,
       WithVideo, WithAudio, WithTable, WithFragment, WithSamples, n
  <2>5. WellPlaced'
    <3>1. PICK p : p = q
      OBVIOUS
    <3>2. AtFragment(p)' /\ (indexptr = RecordCell(p, 1))'
      <4>1. q + 6 = RecordCell(q, 1)
        BY <1>4 DEF RecordCell
      <4> QED BY <1>1, <1>9, <3>1, <4>1, InputsStay
    <3> QED BY <2>2, <3>2 DEF WellPlaced
  <2>6. /\ "media" \in WithHeader \ WithSamples /\ pc \notin {"request", "done"} \cup WithSamples
        /\ indexptr' \in Nat
    BY <1>1, <1>4, <1>9 DEF WithHeader, WithName, WithVideo, WithAudio, WithTable, WithFragment,
       WithSamples
  <2> QED BY <1>1, <1>9, <2>2, <2>4, <2>5, <2>6, ContinueKeepsInvariant
<1> QED
  BY <1>7, <1>8, <1>9 DEF ReadFragment, q

LEMMA OpenMediaKeepsInvariant ==
  ASSUME IInv, OpenMedia
  PROVE  IInv'
<1>1. /\ pc = "media" /\ UNCHANGED inputs /\ reads' = reads
      /\ world \in Worlds /\ request \in Requests
      /\ request.medianum + 1 \in 1..Len(Medias) /\ request.fragnum \in 1..Len(Asked.fragments)
      /\ got.name = Asked.name.id /\ mapped = {"index"}
  BY DEF OpenMedia, IInv, GotRight, WithName, WithVideo, WithAudio, WithTable, WithFragment,
     Accounted, WithSamples
<1>2. source = world.files[Asked.name.id] /\ source.state \in FileStates
  BY <1>1, AskedFacts DEF source
<1>3. CASE MakeMapping(source) # OK /\ Refuse(InternalError)
  <2>1. ~Service!Available
    <3>1. source.state = "present" /\ source.length # 0 => MakeMapping(source) = OK
      BY DEF MakeMapping
    <3>2. Service!Available => source.state = "present" /\ source.length > 0
      BY <1>2, SameWords DEF Service!Available
    <3> QED BY <1>3, <3>1, <3>2
  <2>2. <<500, <<>>>> \in Service!TheAnswers
    BY <1>1, <2>1, AnswersByCase
  <2> QED BY <1>1, <1>3, <2>2, PlainErrorKeepsInvariant
<1>4. CASE /\ MakeMapping(source) = OK /\ mapped' = mapped \cup {"media"} /\ pc' = "prefix"
           /\ UNCHANGED <<indexptr, got, resp_body, body, unmapped, response, sent>>
  <2>1. /\ pc' = "prefix" /\ response' = response /\ mapped' = {"index", "media"}
        /\ indexptr' = indexptr /\ got' = got /\ resp_body' = resp_body /\ body' = body
        /\ unmapped' = unmapped /\ sent' = sent /\ UNCHANGED inputs
    BY <1>1, <1>4
  <2>2. AlignedReads' /\ reads' \subseteq Nat \X Nat
    BY <1>1, NoReads
  <2>3. TypeOK'
    BY <2>1, <2>2 DEF IInv, TypeOK
  <2>4. Answered' /\ Accounted'
    BY <1>1, <2>1 DEF IInv, Answered, Accounted, WithSamples
  <2>5. (MakeMapping(source) = OK)'
    <3>1. source' = source
      BY <1>1, <2>1, InputsStay DEF source
    <3> QED BY <1>4, <3>1 DEF MakeMapping
  <2>6. GotRight'
    BY <1>1, <2>1, <2>5, InputsStay DEF IInv, GotRight, WithHeader, WithName,
       WithVideo, WithAudio, WithTable, WithFragment, WithSamples
  <2>7. WellPlaced'
    <3>1. PICK p : AtFragment(p) /\ indexptr = RecordCell(p, 1)
      BY <1>1 DEF IInv, WellPlaced
    <3>2. AtFragment(p)' /\ (indexptr = RecordCell(p, 1))'
      BY <1>1, <2>1, <3>1, InputsStay
    <3> QED BY <2>1, <3>2 DEF WellPlaced
  <2>8. Written' /\ NeverOverrun'
    BY <1>1, <2>1 DEF IInv, Written, NeverOverrun
  <2> QED BY <1>1, <2>1, <2>2, <2>3, <2>4, <2>6, <2>7, <2>8, InputsStay DEF IInv
<1> QED
  BY <1>3, <1>4 DEF OpenMedia

(* The room that a response needs, and the room it is given. *)
LEMMA Room ==
  ASSUME world \in Worlds, request \in Requests, request.medianum + 1 \in 1..Len(Medias),
         request.fragnum \in 1..Len(Asked.fragments)
  PROVE  /\ 8 + Asked.video.size + Asked.audio.size <= Sizes[0]
         /\ \A j \in 0..Len(AskedFragment) : Sizes[j] <= Sizes[Len(AskedFragment)]
<1> DEFINE vs == Asked.video.size
           au == Asked.audio.size
           v == PacketSize(TRUE, vs)
           a == PacketSize(FALSE, au)
<1>1. vs \in Nat /\ au \in Nat
  BY AskedFacts
<1>2. v \in Nat /\ v > vs /\ a \in Nat /\ a > au
  BY <1>1, PacketSizes
<1>3. Sizes[0] = 8 + v + a
  <2>1. HeadersSize(Asked) = 8 + v + a
    BY Zenon DEF HeadersSize
  <2> QED BY <2>1, SizesFacts
<1>4. 8 + vs + au <= Sizes[0]
  <2> HIDE DEF vs, au, v, a
  <2> QED BY <1>1, <1>2, <1>3
<1>5. ASSUME NEW j \in 0..Len(AskedFragment) PROVE Sizes[j] <= Sizes[Len(AskedFragment)]
  BY SizesFacts
<1> QED
  BY <1>4, <1>5

(* The two packets of codec data are those expected. *)
LEMMA HeaderPackets ==
  ASSUME NEW ts, ts = AskedFragment[1].timestamp
  PROVE  /\ Packet(TRUE, TRUE, TRUE, ts, CodecBytes(Kept(Asked.video))) = Expected(1)
         /\ Packet(FALSE, TRUE, FALSE, ts, CodecBytes(Kept(Asked.audio))) = Expected(2)
<1>1. Service!WantedFragment[1].timestamp = ts
  BY SameWords
<1>2. ASSUME NEW b
      PROVE  CodecBytes(Kept(b)) = [id |-> IF b.size = 0 THEN "none" ELSE b.id,
                                    offset |-> 0, size |-> b.size]
  BY DEF CodecBytes, Kept, Bytes
<1>3. Expected(1) = Service!HeaderPacket(TRUE, Asked.video)
      /\ Expected(2) = Service!HeaderPacket(FALSE, Asked.audio)
  BY DEF Expected
<1>4. Packet(TRUE, TRUE, TRUE, ts, CodecBytes(Kept(Asked.video))) = Expected(1)
  BY <1>1, <1>2, <1>3, Zenon DEF Packet, Service!Packet, Service!HeaderPacket
<1>5. Packet(FALSE, TRUE, FALSE, ts, CodecBytes(Kept(Asked.audio))) = Expected(2)
  BY <1>1, <1>2, <1>3, Zenon DEF Packet, Service!Packet, Service!HeaderPacket
<1> QED
  BY <1>4, <1>5

(* Past the header, the index is one that the service knows. *)
LEMMA KnownThere ==
  ASSUME IInv, pc \in WithName
  PROVE  Service!Known
<1>1. KnownFormat /\ Get(7) \in 1..3 /\ world \in Worlds
  BY DEF IInv, GotRight, WithHeader
<1> QED
  BY <1>1, SameFormat DEF KnownFormat

LEMMA WritePrefixKeepsInvariant ==
  ASSUME IInv, WritePrefix
  PROVE  IInv'
<1> DEFINE n == Len(AskedFragment)
           ns == got.nsamples
           vs == Asked.video.size
           au == Asked.audio.size
<1>1. /\ pc = "prefix" /\ UNCHANGED inputs /\ world \in Worlds /\ request \in Requests
      /\ request.medianum + 1 \in 1..Len(Medias) /\ request.fragnum \in 1..Len(Asked.fragments)
      /\ resp_body = 0 /\ ns = n % U16 /\ ns >= 1 /\ got.totalsize = Sizes[n] % U32
      /\ got.video = Kept(Asked.video) /\ got.audio = Kept(Asked.audio)
  BY DEF WritePrefix, IInv, GotRight, WithName, WithVideo, WithAudio, WithTable, WithFragment,
     WithSamples, Written
<1>2. PICK q : AtFragment(q) /\ indexptr = RecordCell(q, 1)
  BY <1>1 DEF IInv, WellPlaced
<1>3. /\ n \in Nat /\ AskedFragment \in Seq(SampleEntry) /\ Sizes[n] \in Nat /\ Sizes[0] \in Nat
      /\ world.length \in Nat /\ full \in Nat /\ vs \in Nat /\ au \in Nat
  BY <1>1, SizesFacts, WorldFacts, AskedFacts
<1>4. ns \in Nat /\ ns <= n
  <2>1. \A k \in Nat : k % U16 \in Nat /\ k % U16 <= k
    BY U16Assumption
  <2> QED BY <1>1, <1>3, <2>1
<1>5. /\ q \in Nat /\ indexptr = q + 6 /\ q + 6 + 16 * n <= full
      /\ indexptr \in DOMAIN cells /\ cells[indexptr].width = 16
      /\ Get(indexptr) = SampleRecord(AskedFragment[1])
  <2>1. /\ q \in Nat /\ RecordCell(q, n) + 16 <= full
        /\ indexptr \in DOMAIN cells /\ cells[indexptr].width = 16
        /\ Get(indexptr) = SampleRecord(AskedFragment[1])
    <3>1. 1 \in 1..n /\ n \in 1..n
      <4> HIDE DEF n
      <4> QED BY <1>1, <1>3, <1>4
    <3> QED BY <1>1, <1>2, <3>1, FragmentFields
  <2> HIDE DEF n
  <2>2. RecordCell(q, n) + 16 = q + 6 + 16 * n /\ RecordCell(q, 1) = q + 6
    BY <1>3, <2>1 DEF RecordCell
  <2> QED BY <1>2, <2>1, <2>2
<1>6. got.video.size = vs /\ got.audio.size = au
  BY <1>1 DEF Kept
<1> DEFINE room == CHECK_RESP_ROOM(8 + got.video.size + got.audio.size)
           headers == HeadersBytes
<1>7. headers = Sizes[0]
  <2>1. headers = HeadersSize(Asked)
    BY <1>6, Zenon DEF HeadersSize, HeadersBytes
  <2> HIDE DEF headers
  <2> QED BY <1>1, <2>1, SizesFacts
<1>10. Service!SizeFits => room /\ CHECK_RESP_ROOM(headers)
  <2>1. Service!SizeFits => got.totalsize = Sizes[n]
    BY <1>1, WhatFits, SizesFacts
  <2>2. 8 + vs + au <= Sizes[0] /\ Sizes[0] <= Sizes[n]
    BY <1>1, <1>3, Room
  <2> HIDE DEF headers
  <2> QED BY <1>1, <1>3, <1>6, <1>7, <2>1, <2>2 DEF CHECK_RESP_ROOM
<1> HIDE DEF room, headers
<1>8. CASE /\ ~room \/ ~CHECKMAP(16 * ns - 1)
           /\ Refuse(InternalError) /\ UNCHANGED reads
  <2>1. ~(Service!Fits /\ Service!Whole)
    <3>1. ASSUME Service!Fits, Service!Whole PROVE FALSE
      <4>1. ns = n /\ world.length = full /\ room
        BY <1>1, <1>10, <3>1, CountsThatFit, SameWords, WhatFits
      <4> HIDE DEF n, ns
      <4> QED BY <1>3, <1>5, <1>8, <4>1 DEF CHECKMAP
    <3> QED BY <3>1
  <2> QED BY <1>1, <1>8, <2>1, PlainErrorKeepsInvariant
<1>11. CHECKMAP(16 * ns - 1) => FieldIn(indexptr, 16)
  <2> HIDE DEF ns
  <2> QED BY <1>1, <1>3, <1>4, <1>5 DEF FieldIn, CHECKMAP
<1>12. CASE /\ CHECKMAP(16 * ns - 1)
            /\ ~CHECK_RESP_ROOM(headers)
            /\ Crash /\ Reads({<<indexptr, 16>>})
  <2> DEFINE fields == {<<indexptr, 16>>}
  <2>1. /\ reads' = reads \cup fields
        /\ \A r \in fields : \E p, w : r = <<p, w>> /\ FieldIn(p, w)
    BY <1>11, <1>12 DEF Reads
  <2>2. Service!Known /\ Mapped
    BY <1>1, KnownThere DEF IInv, WithHeader, WithName, WithVideo, WithAudio, WithTable, WithFragment,
       WithSamples
  <2>3. <<-2, <<>>>> \in Service!Answers
    BY <1>1, <1>10, <1>12, <2>2, AllowedAnswers
  <2> HIDE DEF fields
  <2> QED BY <1>1, <1>12, <2>1, <2>3, CrashKeepsInvariant
<1> DEFINE ts == Get(indexptr).timestamp
           first == Packet(TRUE, TRUE, TRUE, ts, CodecBytes(got.video))
           second == Packet(FALSE, TRUE, FALSE, ts, CodecBytes(got.audio))
<1>9. CASE /\ CHECKMAP(16 * ns - 1)
           /\ body' = <<first, second>>
           /\ CHECK_RESP_ROOM(headers) \/ ~(AskedBytes < U32)
           /\ resp_body' = headers
           /\ Reads({<<indexptr, 16>>})
           /\ pc' = "samples"
           /\ UNCHANGED <<indexptr, got, mapped, unmapped, response, sent>>
  <2>1. /\ pc' = "samples" /\ response' = response /\ mapped' = mapped /\ indexptr' = indexptr
        /\ sent' = sent
        /\ got' = got /\ unmapped' = unmapped /\ UNCHANGED inputs
    BY <1>1, <1>9
  <2>2. RecordCell(q, ns + 1) <= world.length
    <3> HIDE DEF ns
    <3> QED BY <1>3, <1>4, <1>5, <1>9 DEF CHECKMAP, RecordCell
  <2>3. FieldIn(indexptr, 16)
    BY <1>9, <1>11
  <2>4. AlignedReads' /\ reads' \subseteq Nat \X Nat
    <3> DEFINE fields == {<<indexptr, 16>>}
    <3>1. /\ reads' = reads \cup fields
          /\ \A r \in fields : \E p, w : r = <<p, w>> /\ FieldIn(p, w)
      BY <1>9, <2>3 DEF Reads
    <3> HIDE DEF fields
    <3> QED BY <1>1, <3>1, ReadsStayAligned
  <2>5. first = Expected(1) /\ second = Expected(2)
    <3>1. ts = AskedFragment[1].timestamp
      BY <1>5 DEF SampleRecord
    <3> HIDE DEF ts
    <3> QED BY <1>1, <3>1, HeaderPackets
  <2>6. resp_body' = Sizes[0]
    BY <1>7, <1>9
  <2> HIDE DEF first, second, n, ns
  <2>7. body' \in Seq(Packets) /\ Len(body') = 2 /\ \A k \in 1..Len(body') : body'[k] = Expected(k)
    <3>1. first \in Packets /\ second \in Packets
      BY <2>5 DEF Packets
    <3> QED BY <1>9, <2>5, <3>1
  <2>8. TypeOK'
    BY <1>3, <2>1, <2>4, <2>6 DEF IInv, TypeOK
  <2>9. Answered' /\ Accounted'
    BY <1>1, <2>1 DEF IInv, Answered, Accounted, WithSamples
  <2>10. GotRight'
    <3>1. source' = source
      BY <1>1, <2>1, InputsStay DEF source
    <3>2. (MakeMapping(source) = OK)'
      BY <1>1, <3>1 DEF IInv, GotRight, WithSamples, MakeMapping
    <3> QED BY <1>1, <2>1, <3>2, InputsStay DEF IInv, GotRight, WithHeader, WithName,
               WithVideo, WithAudio, WithTable, WithFragment, WithSamples
  <2>11. WellPlaced'
    <3>1. AtFragment(q)'
      BY <1>1, <1>2, InputsStay
    <3>2. (indexptr = RecordCell(q, Len(body) - 1))'
      BY <1>2, <2>1, <2>7
    <3>3. (RecordCell(q, got.nsamples + 1) <= world.length)'
      BY <1>1, <2>1, <2>2, InputsStay DEF ns
    <3> QED BY <2>1, <3>1, <3>2, <3>3 DEF WellPlaced
  <2>12. Written'
    <3>1. (Len(body) - 2 \in 0..got.nsamples)'
      BY <1>4, <2>1, <2>7 DEF ns
    <3>2. (resp_body = Sizes[Len(body) - 2])'
      BY <1>1, <2>6, <2>7, InputsStay
    <3>3. (body \in Seq(Packets) /\ \A k \in 1..Len(body) : body[k] = Expected(k))'
      BY <1>1, <2>7, InputsStay
    <3>4. (\A j \in 1..(Len(body) - 2) : Passes(j))'
      BY <2>7
    <3> QED BY <2>1, <3>1, <3>2, <3>3, <3>4 DEF Written
  <2>13. NeverOverrun'
    <3>1. AskedBytes < U32 => headers <= got.totalsize
      BY <1>1, <1>3, <1>7, <1>9 DEF CHECK_RESP_ROOM
    <3> QED BY <1>1, <1>9, <2>1, <3>1, InputsStay DEF NeverOverrun
  <2> QED BY <1>1, <2>1, <2>4, <2>8, <2>9, <2>10, <2>11, <2>12, <2>13, InputsStay DEF IInv
<1>13. CHECK_RESP_ROOM(headers) \/ ~(AskedBytes < U32)
  BY <1>1, <1>10, WhatFits
<1> QED
  BY <1>8, <1>9, <1>12, <1>13 DEF WritePrefix, headers, room

(* What the record of a sample says of it. *)
LEMMA RecordSays ==
  ASSUME NEW x, x.video \in BOOLEAN, x.keyframe \in BOOLEAN
  PROVE  LET se == SampleRecord(x) IN
         /\ se.offset = Place(x.offset) /\ se.size = x.size /\ se.timestamp = x.timestamp
         /\ (se.flags # 0) = x.video
         /\ ((se.flags \div 2) % 2 = 1) = (x.video /\ x.keyframe)
<1> DEFINE se == SampleRecord(x)
<1>1. /\ se.offset = Place(x.offset) /\ se.size = x.size /\ se.timestamp = x.timestamp
      /\ se.flags = Flags(x)
  BY DEF SampleRecord
<1>2. ASSUME NEW f, f \in {0, 1, 3}
      PROVE  (f # 0 <=> f \in {1, 3}) /\ ((f \div 2) % 2 = 1 <=> f = 3)
  <2>1. (0 \div 2) % 2 = 0 /\ (1 \div 2) % 2 = 0 /\ (3 \div 2) % 2 = 1
    OBVIOUS
  <2>2. CASE f = 0
    BY <2>1, <2>2
  <2>3. CASE f = 1
    BY <2>1, <2>3
  <2>4. CASE f = 3
    BY <2>1, <2>4
  <2> QED BY <1>2, <2>2, <2>3, <2>4
<1>3. Flags(x) \in {0, 1, 3} /\ (Flags(x) \in {1, 3} <=> x.video)
      /\ (Flags(x) = 3 <=> x.video /\ x.keyframe)
  BY DEF Flags
<1> HIDE DEF se
<1>4. (se.flags # 0 <=> x.video) /\ ((se.flags \div 2) % 2 = 1 <=> x.video /\ x.keyframe)
  BY <1>1, <1>2, <1>3
<1>5. (se.flags # 0) = x.video
  BY <1>4, Zenon
<1>6. ((se.flags \div 2) % 2 = 1) = (x.video /\ x.keyframe)
  BY <1>4, Zenon
<1> QED
  BY <1>1, <1>5, <1>6 DEF se

(* A source that could be mapped is available to the service. *)
LEMMA MappedSource ==
  ASSUME world \in Worlds, request \in Requests, request.medianum + 1 \in 1..Len(Medias),
         MakeMapping(world.files[Asked.name.id]) = OK
  PROVE  Service!Available /\ world.files[Asked.name.id].length \in Nat
<1> DEFINE f == world.files[Asked.name.id]
<1>1. f.state \in FileStates /\ f.length \in Nat
  BY AskedFacts
<1>2. f.state # "missing"
  BY DEF MakeMapping, OK, NotFound
<1>3. ~(f.state = "denied" \/ (f.state = "present" /\ f.length = 0))
  BY <1>2 DEF MakeMapping, OK, InternalError
<1>4. f.state = "present" /\ f.length > 0
  BY <1>1, <1>2, <1>3 DEF FileStates
<1> QED
  BY <1>1, <1>4, SameWords DEF Service!Available

(* A sample that does not pass is not in the source; one that passes and is *)
(* not in the source reaches 4 GiB.                                         *)
LEMMA NotThere ==
  ASSUME NEW j \in 1..Len(AskedFragment),
         AskedFragment[j].offset \in Nat, AskedFragment[j].size \in Nat,
         world.files[Asked.name.id].length \in Nat
  PROVE  /\ ~Passes(j) => j \in Service!Missing
         /\ Passes(j) /\ ~Service!Holds(AskedFragment[j]) => j \in Service!Astray
<1> DEFINE x == AskedFragment[j]
           end == Place(x.offset) + x.size
           length == world.files[Asked.name.id].length
<1>1. end \in Nat
  <2>1. Place(x.offset) \in Nat
    BY U32Assumption DEF Place
  <2> QED BY <2>1
<1>2. /\ Service!Holds(x) <=> end <= length
      /\ Service!Wraps(x) <=> end >= U32
      /\ Passes(j) <=> end % U32 <= length
  BY SameWords DEF Service!Holds, Service!Wraps, Passes
<1>3. j \in Service!Samples
  BY SameWords
<1>4. length \in Nat
  OBVIOUS
<1> HIDE DEF end, length
<1>5. end % U32 <= end /\ end % U32 \in Nat /\ (end < U32 => end % U32 = end)
  BY <1>1, U32Assumption
<1>6. ~Passes(j) => ~Service!Holds(x)
  BY <1>1, <1>2, <1>4, <1>5
<1>7. Passes(j) /\ ~Service!Holds(x) => Service!Wraps(x)
  BY <1>1, <1>2, <1>4, <1>5, U32Assumption
<1> QED
  BY <1>3, <1>6, <1>7, SameWords DEF Service!Missing, Service!Astray

LEMMA WriteSampleKeepsInvariant ==
  ASSUME IInv, WriteSample
  PROVE  IInv'
<1> DEFINE n == Len(AskedFragment)
           ns == got.nsamples
           k == Len(body)
           j == k - 1
           x == AskedFragment[j]
           se == Get(indexptr)
           video == se.flags # 0
           key == (se.flags \div 2) % 2 = 1
           room == CHECK_RESP_ROOM(PacketSize(video, se.size))
           packet == Packet(video, FALSE, key, se.timestamp,
                            Bytes(IF Inside(se) THEN got.name ELSE "outside", se.offset, se.size))
<1>1. /\ pc = "samples" /\ UNCHANGED inputs /\ world \in Worlds /\ request \in Requests
      /\ request.medianum + 1 \in 1..Len(Medias) /\ request.fragnum \in 1..Len(Asked.fragments)
      /\ ns = n % U16 /\ ns >= 1 /\ got.totalsize = Sizes[n] % U32 /\ got.name = Asked.name.id
      /\ MakeMapping(source) = OK /\ Mapped
      /\ k - 2 < ns /\ k - 2 \in 0..ns /\ resp_body = Sizes[k - 2]
      /\ body \in Seq(Packets) /\ \A i \in 1..k : body[i] = Expected(i)
      /\ \A i \in 1..(k - 2) : Passes(i)
  BY DEF WriteSample, IInv, GotRight, WithName, WithVideo, WithAudio, WithTable, WithFragment,
     WithSamples, Written
<1>2. PICK q : /\ AtFragment(q) /\ indexptr = RecordCell(q, j)
               /\ RecordCell(q, ns + 1) <= world.length
  BY <1>1 DEF IInv, WellPlaced
<1>3. /\ n \in Nat /\ AskedFragment \in Seq(SampleEntry) /\ \A i \in 0..n : Sizes[i] \in Nat
      /\ world.length \in Nat /\ full \in Nat /\ k \in Nat
  BY <1>1, SizesFacts, WorldFacts
<1>4. ns \in Nat /\ ns <= n
  <2>1. \A i \in Nat : i % U16 \in Nat /\ i % U16 <= i
    BY U16Assumption
  <2> QED BY <1>1, <1>3, <2>1
<1>5. /\ j \in 1..n /\ j \in Nat /\ j - 1 = k - 2 /\ k - 2 \in 0..n /\ k >= 2 /\ j <= ns
      /\ k + 1 - 2 = j
  <2>1. k - 2 < ns /\ k - 2 \in 0..ns
    BY <1>1
  <2>2. n \in Nat /\ ns \in Nat /\ ns <= n /\ k \in Nat /\ j = k - 1
    BY <1>3, <1>4
  <2> HIDE DEF n, ns, k, j
  <2> QED BY <2>1, <2>2
<1>6. /\ q \in Nat /\ indexptr = RecordCell(q, j)
      /\ indexptr \in DOMAIN cells /\ cells[indexptr].width = 16
      /\ se = SampleRecord(x)
  BY <1>1, <1>2, <1>5, FragmentFields
<1>7. /\ x \in SampleEntry /\ x.size \in Nat /\ x.offset \in Nat
      /\ x.video \in BOOLEAN /\ x.keyframe \in BOOLEAN
      /\ Sizes[j] = Sizes[j - 1] + PacketSize(x.video, x.size)
  BY <1>1, <1>5, SizesFacts
<1>8. /\ se.offset = Place(x.offset) /\ se.size = x.size /\ se.timestamp = x.timestamp
      /\ video = x.video /\ key = (x.video /\ x.keyframe)
  BY <1>6, <1>7, RecordSays
<1>9. resp_body + PacketSize(video, se.size) = Sizes[j]
  <2>1. PacketSize(video, se.size) = PacketSize(x.video, x.size)
    BY <1>8, Zenon
  <2> QED BY <1>1, <1>5, <1>7, <2>1
<1>10. room <=> Sizes[j] <= Sizes[n] % U32
  BY <1>1, <1>9 DEF CHECK_RESP_ROOM
<1>18. Service!SizeFits => room
  <2>1. Sizes[j] <= Sizes[n]
    BY <1>1, <1>5, Room
  <2>2. Service!SizeFits => Sizes[n] % U32 = Sizes[n]
    BY <1>1, WhatFits, SizesFacts
  <2> QED BY <1>10, <2>1, <2>2
<1>11. source = world.files[Asked.name.id]
  BY <1>1 DEF source
<1>12. InSource(se) <=> Passes(j)
  <2> DEFINE end == Place(x.offset) + x.size
  <2>1. se.offset + se.size = end
    BY <1>8
  <2> HIDE DEF se
  <2>2. Passes(j) <=> end % U32 <= source.length
    BY <1>11 DEF Passes
  <2> HIDE DEF end
  <2> QED BY <2>1, <2>2 DEF InSource
<1>19. Inside(se) <=> Service!Holds(x)
  <2>1. Service!Holds(x) <=> Place(x.offset) + x.size <= source.length
    BY <1>11, SameWords DEF Service!Holds
  <2>2. se.offset + se.size = Place(x.offset) + x.size
    BY <1>8
  <2> HIDE DEF se
  <2> QED BY <2>1, <2>2 DEF Inside
<1>13. packet = Expected(k + 1)
  <2>1. Expected(k + 1) = Service!SamplePacket(AskedFragment[k + 1 - 2])
    <3>1. k + 1 # 1 /\ k + 1 # 2
      <4> HIDE DEF k, n, ns
      <4> QED BY <1>3, <1>5
    <3> QED BY <3>1 DEF Expected
  <2>2. Expected(k + 1) = Service!SamplePacket(x)
    BY <1>5, <2>1
  <2>3. Service!SamplePacket(x) =
          Service!Packet(x.video, FALSE, x.video /\ x.keyframe, x.timestamp,
                         [id |-> IF Service!Holds(x) THEN Asked.name.id ELSE "outside",
                          offset |-> Place(x.offset), size |-> x.size])
    BY SameWords, Zenon DEF Service!SamplePacket
  <2> DEFINE id == IF Inside(se) THEN got.name ELSE "outside"
             name == IF Service!Holds(x) THEN Asked.name.id ELSE "outside"
  <2>6. id = name
    BY <1>1, <1>19
  <2> HIDE DEF id, name
  <2>4. Bytes(id, se.offset, se.size) = [id |-> name, offset |-> Place(x.offset), size |-> x.size]
    BY <1>8, <2>6 DEF Bytes
  <2>5. packet = Packet(x.video, FALSE, x.video /\ x.keyframe, x.timestamp,
                        [id |-> name, offset |-> Place(x.offset), size |-> x.size])
    BY <1>8, <2>4, Zenon DEF id
  <2> HIDE DEF packet
  <2> QED BY <2>2, <2>3, <2>5, Zenon DEF Packet, Service!Packet, name
<1>14. FieldIn(indexptr, 16)
  <2>1. indexptr + 16 <= world.length
    <3> HIDE DEF j, ns
    <3> QED BY <1>2, <1>3, <1>4, <1>5, <1>6 DEF RecordCell
  <2> QED BY <1>6, <2>1 DEF FieldIn
<1>15. AlignedReads' /\ reads' \subseteq Nat \X Nat
  <2> DEFINE fields == {<<indexptr, 16>>}
  <2>1. /\ reads' = reads \cup fields
        /\ \A r \in fields : \E p, w : r = <<p, w>> /\ FieldIn(p, w)
    BY <1>14 DEF WriteSample, Reads
  <2> HIDE DEF fields
  <2> QED BY <1>1, <2>1, ReadsStayAligned
<1>20. /\ AskedFragment # <<>> /\ Service!Available
       /\ world.files[Asked.name.id].length \in Nat
  <2>1. AskedFragment # <<>>
    BY <1>1, <1>5
  <2> QED BY <1>1, <1>11, <2>1, MappedSource
<1>21. /\ ~Passes(j) => j \in Service!Missing
       /\ Passes(j) /\ ~Inside(se) => j \in Service!Astray
  BY <1>1, <1>5, <1>7, <1>19, <1>20, NotThere
<1> DEFINE fields == {<<indexptr, 16>>}
<1>22. /\ reads' = reads \cup fields
       /\ \A r \in fields : \E p, w : r = <<p, w>> /\ FieldIn(p, w)
  BY <1>14 DEF WriteSample, Reads
<1> HIDE DEF fields
<1>16. CASE ~(InSource(se) /\ room) /\ Refuse(InternalError)
  <2>1. ASSUME Service!Fits PROVE <<500, <<>>>> \in Service!TheAnswers
    <3>1. j \in Service!Missing
      BY <1>1, <1>12, <1>16, <1>18, <1>21, <2>1, WhatFits
    <3> QED BY <1>1, <3>1, AnswersByCase
  <2> QED BY <1>1, <1>16, <1>22, <2>1, ErrorKeepsInvariant
<1>23. CASE InSource(se) /\ room /\ ~Inside(se) /\ Crash
  <2>1. Service!Known
    BY <1>1, KnownThere DEF WithName, WithVideo, WithAudio, WithTable, WithFragment, WithSamples
  <2>2. <<-2, <<>>>> \in Service!TheAnswers
    <3>1. j \in Service!Astray
      BY <1>12, <1>21, <1>23
    <3> QED BY <1>1, <1>20, <3>1, AnswersByCase
  <2>3. <<-2, <<>>>> \in Service!Answers
    BY <1>1, <2>1, <2>2, AllowedAnswers
  <2> QED BY <1>1, <1>22, <1>23, <2>3, CrashKeepsInvariant
<1>17. CASE /\ InSource(se) /\ room
            /\ body' = Append(body, packet)
            /\ resp_body' = resp_body + PacketSize(video, se.size)
            /\ indexptr' = indexptr + 16
            /\ UNCHANGED <<pc, got, mapped, unmapped, response, sent>>
  <2>1. /\ pc' = "samples" /\ response' = response /\ mapped' = mapped /\ sent' = sent
        /\ got' = got /\ unmapped' = unmapped /\ UNCHANGED inputs
    BY <1>1, <1>17
  <2>2. resp_body' = Sizes[j]
    BY <1>9, <1>17
  <2>3. indexptr' = RecordCell(q, j + 1) /\ indexptr' \in Nat
    <3> HIDE DEF j
    <3> QED BY <1>5, <1>6, <1>17 DEF RecordCell
  <2>4. /\ body' \in Seq(Packets) /\ Len(body') = k + 1
        /\ \A i \in 1..Len(body') : body'[i] = Expected(i)
    <3>1. packet \in Packets
      <4>1. k + 1 \in Nat
        BY <1>3
      <4> QED BY <1>13, <4>1 DEF Packets
    <3> HIDE DEF packet
    <3>2. body' \in Seq(Packets) /\ Len(body') = k + 1
      BY <1>1, <1>17, <3>1
    <3>3. \A i \in 1..k : body'[i] = body[i]
      BY <1>1, <1>17, <3>1
    <3>4. body'[k + 1] = packet
      BY <1>1, <1>17, <3>1
    <3>5. ASSUME NEW i \in 1..Len(body') PROVE body'[i] = Expected(i)
      <4>1. i \in 1..k \/ i = k + 1
        BY <1>3, <3>2
      <4> QED BY <1>1, <1>13, <3>3, <3>4, <4>1
    <3> QED BY <3>2, <3>5
  <2> HIDE DEF packet, video, key, se, x, room
  <2>5. TypeOK'
    BY <1>3, <1>5, <1>15, <2>1, <2>2, <2>3 DEF IInv, TypeOK
  <2>6. Answered' /\ Accounted'
    BY <1>1, <2>1 DEF IInv, Answered, Accounted, WithSamples
  <2>7. GotRight'
    <3>1. source' = source
      BY <1>1, <2>1, InputsStay DEF source
    <3>2. (MakeMapping(source) = OK)'
      BY <1>1, <3>1 DEF IInv, GotRight, WithSamples, MakeMapping
    <3> QED BY <1>1, <2>1, <3>2, InputsStay DEF IInv, GotRight, WithHeader, WithName,
               WithVideo, WithAudio, WithTable, WithFragment, WithSamples
  <2>8. WellPlaced'
    <3>1. AtFragment(q)'
      BY <1>1, <1>2, InputsStay
    <3>2. (indexptr = RecordCell(q, Len(body) - 1))'
      <4>1. Len(body') - 1 = j + 1
        BY <1>3, <2>4
      <4> QED BY <2>3, <4>1
    <3>3. (RecordCell(q, got.nsamples + 1) <= world.length)'
      BY <1>1, <1>2, <2>1, InputsStay
    <3> QED BY <2>1, <3>1, <3>2, <3>3 DEF WellPlaced
  <2>9. Written'
    <3>1. Len(body') - 2 = j
      BY <1>3, <2>4
    <3>2. (Len(body) - 2 \in 0..got.nsamples)'
      BY <1>4, <1>5, <2>1, <3>1
    <3>3. (resp_body = Sizes[Len(body) - 2])'
      BY <1>1, <2>2, <3>1, InputsStay
    <3>4. (body \in Seq(Packets) /\ \A i \in 1..Len(body) : body[i] = Expected(i))'
      BY <1>1, <2>4, InputsStay
    <3>5. (\A i \in 1..(Len(body) - 2) : Passes(i))'
      <4>1. \A i \in 1..j : Passes(i)
        <5>1. \A i \in 1..j : i \in 1..(k - 2) \/ i = j
          <6> HIDE DEF k, n, ns
          <6> QED BY <1>3, <1>5
        <5> QED BY <1>1, <1>12, <1>17, <5>1
      <4> QED BY <1>1, <3>1, <4>1, InputsStay
    <3> QED BY <2>1, <3>2, <3>3, <3>4, <3>5 DEF Written
  <2>10. NeverOverrun'
    <3>1. Sizes[j] <= Sizes[n] % U32
      BY <1>10, <1>17
    <3> QED BY <1>1, <2>1, <2>2, <3>1 DEF NeverOverrun
  <2> QED BY <1>1, <1>15, <2>1, <2>5, <2>6, <2>7, <2>8, <2>9, <2>10, InputsStay DEF IInv
<1> QED
  BY <1>16, <1>17, <1>23 DEF WriteSample

(* The body that the service expects, packet by packet. *)
LEMMA ExpectedBody ==
  ASSUME NEW n \in Nat
  PROVE  /\ Service!FragmentBody(n) \in Seq(Packets)
         /\ Len(Service!FragmentBody(n)) = n + 2
         /\ \A k \in 1..(n + 2) : Service!FragmentBody(n)[k] = Expected(k)
<1> DEFINE v == Service!HeaderPacket(TRUE, Asked.video)
           a == Service!HeaderPacket(FALSE, Asked.audio)
           heads == <<v, a>>
           samples == [j \in 1..n |-> Service!SamplePacket(AskedFragment[j])]
<1>1. Service!FragmentBody(n) = heads \o samples
  BY SameWords, Zenon DEF Service!FragmentBody
<1>2. heads \in Seq(Packets) /\ Len(heads) = 2 /\ heads[1] = Expected(1) /\ heads[2] = Expected(2)
  <2>1. v = Expected(1) /\ a = Expected(2)
    BY DEF Expected
  <2>2. v \in Packets /\ a \in Packets
    BY <2>1 DEF Packets
  <2> HIDE DEF v, a
  <2> QED BY <2>1, <2>2
<1>3. \A j \in 1..n : samples[j] = Expected(j + 2) /\ samples[j] \in Packets
  <2> SUFFICES ASSUME NEW j \in 1..n
               PROVE  samples[j] = Expected(j + 2) /\ samples[j] \in Packets
    OBVIOUS
  <2>1. j + 2 # 1 /\ j + 2 # 2 /\ j + 2 - 2 = j /\ j + 2 \in Nat
    OBVIOUS
  <2>2. Expected(j + 2) = Service!SamplePacket(AskedFragment[j])
    BY <2>1 DEF Expected
  <2> QED BY <2>1, <2>2 DEF Packets
<1>4. samples \in Seq(Packets) /\ Len(samples) = n
  <2>1. samples \in [1..n -> Packets]
    BY <1>3
  <2> HIDE DEF samples
  <2> QED BY <2>1
<1> HIDE DEF heads, samples
<1>5. n \in Nat
  OBVIOUS
<1>6. /\ heads \o samples \in Seq(Packets) /\ Len(heads \o samples) = 2 + n
      /\ \A k \in 1..(2 + n) :
           (heads \o samples)[k] = IF k <= 2 THEN heads[k] ELSE samples[k - 2]
  <2>1. /\ heads \o samples \in Seq(Packets)
        /\ Len(heads \o samples) = Len(heads) + Len(samples)
        /\ \A k \in 1..(Len(heads) + Len(samples)) :
             (heads \o samples)[k] = IF k <= Len(heads) THEN heads[k] ELSE samples[k - Len(heads)]
    BY <1>2, <1>4, ConcatProperties
  <2>2. Len(heads) = 2 /\ Len(samples) = n
    BY <1>2, <1>4
  <2> QED BY <2>1, <2>2
<1>7. ASSUME NEW k \in 1..(n + 2) PROVE (heads \o samples)[k] = Expected(k)
  <2>1. CASE k <= 2
    <3>1. k = 1 \/ k = 2
      BY <1>5, <2>1
    <3> QED BY <1>2, <1>5, <1>6, <3>1
  <2>2. CASE k > 2
    <3>1. k - 2 \in 1..n /\ k - 2 + 2 = k /\ k \in 1..(2 + n) /\ ~(k <= 2)
      BY <1>5, <2>2
    <3>2. (heads \o samples)[k] = samples[k - 2]
      BY <1>6, <3>1
    <3> QED BY <1>3, <3>1, <3>2
  <2>3. k <= 2 \/ k > 2
    BY <1>5
  <2> QED BY <2>1, <2>2, <2>3
<1>8. /\ heads \o samples \in Seq(Packets) /\ Len(heads \o samples) = n + 2
      /\ \A k \in 1..(n + 2) : (heads \o samples)[k] = Expected(k)
  BY <1>5, <1>6, <1>7
<1> QED
  BY <1>1, <1>8

LEMMA FinishKeepsInvariant ==
  ASSUME IInv, Finish
  PROVE  IInv'
<1> DEFINE n == Len(AskedFragment)
           ns == got.nsamples
           k == Len(body)
           whole == Service!FragmentBody(ns)
<1>1. /\ pc = "samples" /\ UNCHANGED <<inputs, indexptr, got, resp_body, body, reads>>
      /\ UNCHANGED inputs /\ world \in Worlds /\ request \in Requests /\ Mapped
      /\ request.medianum + 1 \in 1..Len(Medias) /\ request.fragnum \in 1..Len(Asked.fragments)
      /\ ns = n % U16 /\ ns >= 1 /\ got.totalsize = Sizes[n] % U32 /\ got.name = Asked.name.id
      /\ k - 2 = ns /\ resp_body = Sizes[k - 2]
      /\ body \in Seq(Packets) /\ \A i \in 1..k : body[i] = Expected(i)
      /\ \A i \in 1..(k - 2) : Passes(i)
      /\ MakeMapping(source) = OK
  BY DEF Finish, IInv, GotRight, WithName, WithVideo, WithAudio, WithTable, WithFragment,
     WithSamples, Written
<1>2. /\ n \in Nat /\ k \in Nat
      /\ \A i \in 0..n : Sizes[i] \in Nat
      /\ \A i \in 0..n : \A j \in 0..n : i < j => Sizes[i] < Sizes[j]
      /\ \A i \in 1..n : AskedFragment[i].offset \in Nat /\ AskedFragment[i].size \in Nat
  <2>1. k \in Nat
    BY <1>1
  <2> HIDE DEF k
  <2> QED BY <1>1, <2>1, SizesFacts
<1>3. ns \in Nat /\ ns <= n
  <2>1. \A i \in Nat : i % U16 \in Nat /\ i % U16 <= i
    BY U16Assumption
  <2> QED BY <1>1, <1>2, <2>1
<1>4. Service!Known
  BY <1>1, KnownThere DEF WithName, WithVideo, WithAudio, WithTable, WithFragment, WithSamples
<1>5. Service!SizeFits => got.totalsize = Sizes[n]
  BY <1>1, WhatFits, SizesFacts
<1>6. FreeMappings => mapped' = {} /\ unmapped' \in [{"index", "media"} -> {0, 1}]
  BY <1>1 DEF IInv, Accounted, FreeMappings
<1>7. CASE resp_body = got.totalsize /\ FreeMappings /\ Send
  <2>1. k = ns + 2
    <3> HIDE DEF ns, k
    <3> QED BY <1>1, <1>2, <1>3
  <2>2. body = whole
    <3>1. /\ whole \in Seq(Packets) /\ Len(whole) = ns + 2
          /\ \A i \in 1..(ns + 2) : whole[i] = Expected(i)
      BY <1>3, ExpectedBody
    <3> HIDE DEF whole
    <3>2. Len(body) = Len(whole)
      BY <2>1, <3>1
    <3>3. \A i \in 1..Len(body) : body[i] = whole[i]
      BY <1>1, <2>1, <3>1
    <3> QED BY <1>1, <3>1, <3>2, <3>3, SeqEqual
  <2>3. Service!Served(whole) \subseteq Service!Answers
    <3>1. CASE ns = n
      <4>1. Service!Available /\ world.files[Asked.name.id].length \in Nat
        BY <1>1, MappedSource DEF source
      <4>2. AskedFragment # <<>>
        BY <1>1, <3>1
      <4>3. Service!Missing = Service!Astray
        <5>1. ASSUME NEW i \in Service!Missing PROVE i \in Service!Astray
          <6>1. i \in 1..n /\ ~Service!Holds(AskedFragment[i])
            BY SameWords DEF Service!Missing
          <6>2. i \in 1..(k - 2)
            BY <1>1, <3>1, <6>1
          <6> QED BY <1>1, <1>2, <4>1, <6>1, <6>2, NotThere
        <5> QED BY <5>1 DEF Service!Astray
      <4>4. Service!Served(Service!FragmentBody(n)) \subseteq Service!TheAnswers
        BY <1>1, <4>1, <4>2, <4>3, AnswersByCase
      <4> QED BY <1>1, <1>4, <3>1, <4>4, AllowedAnswers
    <3>2. CASE ns # n
      <4>1. ~Service!CountsFit
        BY <1>1, <3>2, CountsThatFit
      <4>2. ~Service!SizeFits
        <5>1. SUFFICES ASSUME Service!SizeFits PROVE FALSE
          OBVIOUS
        <5>2. Sizes[ns] = Sizes[n]
          BY <1>1, <1>5, <1>7, <5>1
        <5> HIDE DEF n, ns
        <5> QED BY <1>2, <1>3, <3>2, <5>2
      <4>3. ns \in Service!Samples
        <5>1. ns \in 1..n
          <6> HIDE DEF n, ns
          <6> QED BY <1>1, <1>2, <1>3
        <5> QED BY <5>1, SameWords
      <4> QED BY <1>1, <1>4, <4>1, <4>2, <4>3, AllowedAnswers
    <3> QED BY <3>1, <3>2
  <2>4. /\ pc' = "done" /\ response' \in {OK, NGX_ERROR}
        /\ <<response', sent'>> \in Service!Served(whole)
    <3>1. sent = <<>>
      BY <1>1 DEF IInv, Answered
    <3> HIDE DEF whole
    <3> QED BY <1>7, <2>2, <3>1 DEF Send, Return, Service!Served, Service!Refusal, Service!Unsent,
               OK, NGX_ERROR
  <2> DEFINE none == {}
  <2>5. reads' = reads \cup none /\ \A r \in none : \E p, w : r = <<p, w>> /\ FieldIn(p, w)
    BY <1>1
  <2> HIDE DEF none
  <2> QED BY <1>1, <1>6, <1>7, <2>3, <2>4, <2>5, EndKeepsInvariant
<1>8. CASE /\ resp_body # got.totalsize /\ FreeMappings
           /\ Return(InternalError) /\ UNCHANGED sent
  <2>1. ASSUME Service!Fits PROVE FALSE
    <3>1. ns = n
      BY <1>1, <2>1, CountsThatFit, WhatFits
    <3>2. got.totalsize = Sizes[n]
      BY <1>1, <1>5, <2>1, WhatFits
    <3> QED BY <1>1, <1>8, <3>1, <3>2
  <2>2. Refuse(InternalError)
    BY <1>1, <1>8 DEF Refuse
  <2> QED BY <1>1, <2>1, <2>2, PlainErrorKeepsInvariant
<1> QED
  BY <1>7, <1>8 DEF Finish
-----------------------------------------------------------------------------
LEMMA InitInvariant == Init => IInv
<1> SUFFICES ASSUME Init PROVE IInv
  OBVIOUS
<1>1. /\ world \in Worlds /\ request \in Requests /\ pc = "request" /\ indexptr = 0
      /\ got = NoLocals /\ resp_body = 0 /\ body = <<>> /\ mapped = {} /\ response = NoResponse
      /\ sent = <<>>
      /\ reads = {} /\ unmapped = [f \in {"index", "media"} |-> 0]
  BY DEF Init
<1>2. TypeOK /\ AlignedReads
  BY <1>1 DEF TypeOK, AlignedReads
<1>3. NoLocals \in Locals
  BY DEF NoLocals, Locals, Names, KeptBlob
<1>4. GotRight
  BY <1>1, <1>3 DEF GotRight, WithHeader, WithName, WithVideo, WithAudio, WithTable, WithFragment,
     WithSamples
<1>5. WellPlaced /\ Written /\ Accounted /\ Answered /\ NeverOverrun
  BY <1>1 DEF WellPlaced, Written, Accounted, Answered, NeverOverrun
<1> QED
  BY <1>1, <1>2, <1>4, <1>5 DEF IInv

LEMMA StutterKeepsInvariant ==
  ASSUME IInv, UNCHANGED vars
  PROVE  IInv'
<1>1. /\ UNCHANGED inputs /\ pc' = pc /\ indexptr' = indexptr /\ got' = got
      /\ resp_body' = resp_body /\ body' = body /\ mapped' = mapped /\ response' = response
      /\ reads' = reads /\ unmapped' = unmapped /\ sent' = sent
  BY DEF vars, history
<1>2. AlignedReads' /\ TypeOK'
  BY <1>1, NoReads DEF IInv, TypeOK
<1>3. GotRight'
  <2>1. source' = source
    BY <1>1, InputsStay DEF source
  <2>2. (MakeMapping(source) = OK)' <=> MakeMapping(source) = OK
    BY <2>1 DEF MakeMapping
  <2> QED BY <1>1, <2>2, InputsStay DEF IInv, GotRight
<1>4. WellPlaced'
  BY <1>1, InputsStay DEF IInv, WellPlaced
<1>5. Written'
  BY <1>1, InputsStay DEF IInv, Written
<1>6. Accounted' /\ Answered' /\ NeverOverrun'
  BY <1>1, InputsStay DEF IInv, Accounted, Answered, NeverOverrun
<1> QED
  BY <1>1, <1>2, <1>3, <1>4, <1>5, <1>6, InputsStay DEF IInv

(* The inductive invariant: at each field the handler is where the index    *)
(* describes it and has read what it describes, the response is a prefix of *)
(* the fragment asked for, and the answer is one that the service allows.   *)
THEOREM Invariance == Spec => []IInv
<1>1. IInv /\ [Next]_vars => IInv'
  BY OpenIndexKeepsInvariant, ReadHeaderKeepsInvariant, SeekMediaKeepsInvariant,
     ReadNameKeepsInvariant, ReadVideoKeepsInvariant, ReadAudioKeepsInvariant,
     ReadTableKeepsInvariant, ReadFragmentKeepsInvariant, OpenMediaKeepsInvariant,
     WritePrefixKeepsInvariant, WriteSampleKeepsInvariant, FinishKeepsInvariant,
     StutterKeepsInvariant DEF Next
<1> QED
  BY InitInvariant, <1>1, PTL DEF Spec

THEOREM TypesHold == Spec => []TypeOK
BY Invariance, PTL DEF IInv

(* However the index is cut, no read of it crosses the end of the mapping   *)
(* or starts in the middle of a field.                                      *)
THEOREM AlignedReadsHold == Spec => []AlignedReads
BY Invariance, PTL DEF IInv

(* The packets never exceed the buffer of the size that the index gives,    *)
(* unless the fragment is of 4 GiB or more.                                 *)
THEOREM NeverOverrunHolds == Spec => []NeverOverrun
BY Invariance, PTL DEF IInv

(* No path of the handler leaves a mapping or, but for a foreign index,     *)
(* releases one twice.                                                      *)
THEOREM ReleasedOnceHolds == Spec => []ReleasedOnce
<1>1. IInv => ReleasedOnce
  BY DEF IInv, Accounted, ReleasedOnce
<1> QED
  BY Invariance, <1>1, PTL

(* The handler implements the safety of the service: it answers once, with  *)
(* an answer that the service allows to the request in this world.          *)
THEOREM ImplementsSafety == Spec => Service!Safe
<1> DEFINE answer == IF pc = "done" THEN <<response, sent>> ELSE <<>>
<1>1. Init => Service!Init
  BY DEF Init, Service!Init
<1>2. ASSUME IInv, IInv', [Next]_vars PROVE [Service!Answer]_(Service!vars)
  <2>1. CASE UNCHANGED vars
    BY <2>1 DEF vars, inputs, Service!vars
  <2>2. CASE Next
    <3>1. pc # "done" /\ UNCHANGED inputs
      BY <2>2 DEF Next, OpenIndex, ReadHeader, SeekMedia, ReadName, ReadVideo, ReadAudio,
         ReadCodecData, ReadTable, ReadFragment, OpenMedia, WritePrefix, WriteSample, Finish
    <3>2. answer = <<>>
      BY <3>1
    <3>3. world' = world /\ request' = request
      BY <3>1 DEF inputs
    <3>4. CASE pc' # "done"
      <4>1. answer' = <<>>
        BY <3>4
      <4> HIDE DEF answer
      <4>2. Service!vars' = Service!vars
        BY <3>2, <3>3, <4>1 DEF Service!vars, answer
      <4> QED BY <4>2
    <3>5. CASE pc' = "done"
      <4>1. answer' \in Service!Answers
        <5>1. answer' = <<response, sent>>'
          BY <3>5
        <5>2. answer' \in Service!Answers'
          BY <1>2, <3>5, <5>1 DEF IInv, Answered
        <5> QED BY <3>1, <5>2, InputsStay
      <4> QED BY <3>2, <3>3, <4>1 DEF Service!Answer
    <3> QED BY <3>4, <3>5
  <2> QED BY <1>2, <2>1, <2>2
<1> QED
  BY Invariance, <1>1, <1>2, PTL DEF Spec, Service!Safe
=============================================================================
