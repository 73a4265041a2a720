-------------------------- MODULE BoxParserProofs --------------------------
(***************************************************************************)
(* Proofs about BoxParser, for files of any number and nesting of boxes.    *)
(* The invariant ties the stack to a path of boxes in the file: what each   *)
(* open box has left, and that a box begins where the parser reads next.    *)
(* Closing boxes keeps it, because a box with nothing left is one that      *)
(* ends at that place, as its last child does.  Gathered adds the tracks:   *)
(* as many as traks were begun, each with the tables that ended in it and   *)
(* the codec configuration of its last sample description.                  *)
(***************************************************************************)
EXTENDS BoxParser, NumberFacts, FiniteSetTheorems

Entry == [kind : Containers \cup Loaded \cup {"void"}, total : 0..(U32 - 1),
          wants : 0..(U32 - 1), to_skip : 0..(U32 - 1)]

(* Boxes of f, each the parent of the next one. *)
IsPath(f, q) ==
  /\ q \in Seq(1..Len(f.boxes))
  /\ \A i \in 1..Len(q) : f.boxes[q[i]].parent = IF i = 1 THEN 0 ELSE q[i - 1]

Innermost(q) == IF Len(q) = 0 THEN 0 ELSE q[Len(q)]

(* All of them are descended into, and in what the file was meant to be. *)
Inside(f, q) ==
  /\ IsPath(f, q)
  /\ \A i \in 1..Len(q) : IsDescended(f, q[i]) /\ End(f, q[i]) <= f.full

(* The next read is the header of a box in the last one of q, ... *)
AtBox(f, q, st, position) ==
  /\ Inside(f, q) /\ StackIs(f, q, st, position)
  /\ \E b \in Children(f, Innermost(q)) : f.boxes[b].at = position

(* ... or the content of the box b in it. *)
InBox(f, q, b, st, position) ==
  /\ Inside(f, q) /\ b \in Children(f, Innermost(q))
  /\ IsLoaded(f, b) /\ End(f, b) <= f.full
  /\ StackIs(f, Append(q, b), st, position)
  /\ f.boxes[b].at + HeaderSize = position
  /\ st[Len(st)].wants = (f.boxes[b].size - HeaderSize) % U32

(* The stack of any file: only the top loads or has to skip. *)
IsStack(st) ==
  /\ st \in Seq(Entry) /\ Len(st) >= 1
  /\ st[1].kind = "void" /\ st[1].wants = 0
  /\ Len(st) >= 2 => st[2].kind = "top"
  /\ \A i \in 2..Len(st) :
       /\ st[i].kind # "void"
       /\ st[i].kind \in Containers => st[i].wants = HeaderSize
       /\ i < Len(st) => st[i].kind \in Containers
  /\ \A i \in 1..(Len(st) - 1) : st[i].to_skip = 0

Shape == pc = "feed" => IsStack(stack)

PlacedIn(f, st, position) ==
  position < f.full =>
    /\ Len(st) >= 2
    /\ \/ st[Len(st)].kind \in Containers /\ \E q : AtBox(f, q, st, position)
       \/ st[Len(st)].kind \notin Containers /\ \E q, b : InBox(f, q, b, st, position)

Placed == WellFormed(file) /\ pc = "feed" => PlacedIn(file, stack, Position)

(* Boxes to load that were passed, and traks that were begun. *)
Due(f, p) == {b \in 1..Len(f.boxes) : IsLoaded(f, b) /\ End(f, b) <= p}
Begun(f, p) == {d \in 1..Len(f.boxes) : IsTrak(f, d) /\ f.boxes[d].at < p}

(* The boxes that are loaded in T are those, each in its track, ... *)
LoadedTo(f, T, p) ==
  /\ \A b \in Due(f, p) : TrackOf(f, b) \in 1..Len(T) /\ b \in T[TrackOf(f, b)].loaded
  /\ \A t \in 1..Len(T) : \A b \in T[t].loaded :
       b \in Due(f, p) /\ End(f, b) <= f.size /\ t = TrackOf(f, b)

(* ... a track has the codec configuration of the last sample description    *)
(* that gives one, or of one after it, if its handler was known before, ...  *)
ConfiguredTo(f, T, p) ==
  /\ \A h, s \in Due(f, p) :
       h < s /\ TellsKind(f, h) /\ Configures(f, s) /\ TrackOf(f, h) = TrackOf(f, s)
         => T[TrackOf(f, s)].extradata >= s
  /\ \A t \in 1..Len(T) :
       T[t].extradata # 0 => T[t].extradata \in T[t].loaded /\ MayConfigure(f, T[t].extradata)

(* ... the last one is known once its handler was passed, and a track is     *)
(* known by a handler of its own, ...                                        *)
Known == [vide |-> video, soun |-> audio]
IsKnown(known, t) == \E k \in {"vide", "soun"} : known[k] = t

KindKnown(f, T, known, p) ==
  \A h \in Due(f, p) : TellsKind(f, h) /\ TrackOf(f, h) = Len(T) => IsKnown(known, Len(T))

Told(f, T, known) ==
  \A k \in {"vide", "soun"} : known[k] # 0 =>
    /\ known[k] \in 1..Len(T)
    /\ \E h \in T[known[k]].loaded : TellsKind(f, h) /\ f.boxes[h].says = k

(* ... and every header that was passed was in the file. *)
HeadersRead(f, p) ==
  \A b \in 1..Len(f.boxes) : f.boxes[b].at < p => f.boxes[b].at + HeaderSize <= f.size

Gathered(f, T, known, p) ==
  /\ Len(T) = Cardinality(Begun(f, p))
  /\ LoadedTo(f, T, p) /\ ConfiguredTo(f, T, p)
  /\ KindKnown(f, T, known, p) /\ Told(f, T, known)
  /\ HeadersRead(f, p)

Gathering == WellFormed(file) /\ pc = "feed" => Gathered(file, tracks, Known, Position)

Finished ==
  WellFormed(file) /\ pc = "done" =>
    LoadedTo(file, tracks, file.size) /\ ConfiguredTo(file, tracks, file.size)

(* The inductive invariant. *)
IInv == IsFile(file) /\ TypeOK /\ Shape /\ Placed /\ Accepted /\ Gathering /\ Finished
-----------------------------------------------------------------------------
(* Arithmetic of the width of a size. *)
LEMMA Wrapped ==
  ASSUME NEW x \in Int
  PROVE  /\ x % U32 \in 0..(U32 - 1)
         /\ x \in 0..(U32 - 1) => x % U32 = x
         /\ x + U32 \in 0..(U32 - 1) => x % U32 = x + U32
<1>1. PICK n \in Nat \ {0} : n = U32
  BY WidthAssumption DEF HeaderSize
<1>2. x % n \in 0..(n - 1)
  BY Division
<1>3. ASSUME x \in 0..(n - 1) PROVE x % n = x
  <2>1. x = n * 0 + x
    OBVIOUS
  <2> QED BY <1>3, <2>1, DivisionIs
<1>4. ASSUME x + n \in 0..(n - 1) PROVE x % n = x + n
  <2>1. x = n * (-1) + (x + n) /\ -1 \in Int
    OBVIOUS
  <2> QED BY <1>4, <2>1, DivisionIs
<1> QED
  BY <1>1, <1>2, <1>3, <1>4

(* The bytes after a header; a size of 0 wraps. *)
LEMMA ContentOf ==
  ASSUME NEW size \in 0..(U32 - 1), size = 0 \/ size >= HeaderSize
  PROVE  (size - HeaderSize) % U32 = (IF size = 0 THEN U32 ELSE size) - HeaderSize
<1>1. U32 \in Nat /\ U32 > 8 /\ HeaderSize = 8
  BY WidthAssumption DEF HeaderSize
<1>2. PICK x \in Int : x = size - 8
  BY <1>1
<1>3. CASE size = 0
  <2>1. x + U32 \in 0..(U32 - 1)
    BY <1>1, <1>2, <1>3
  <2>2. x % U32 = x + U32
    BY <2>1, Wrapped
  <2> QED BY <1>1, <1>2, <1>3, <2>2
<1>4. CASE size >= 8 /\ size # 0
  <2>1. x \in 0..(U32 - 1)
    BY <1>1, <1>2, <1>4
  <2>2. x % U32 = x
    BY <2>1, Wrapped
  <2> QED BY <1>1, <1>2, <1>4, <2>2
<1> QED
  BY <1>1, <1>3, <1>4

LEMMA FileOf ==
  ASSUME NEW f, IsFile(f)
  PROVE  /\ Len(f.boxes) \in Nat /\ f.size \in Nat /\ f.full \in Nat /\ f.size <= f.full
         /\ \A b \in 1..Len(f.boxes) :
              /\ f.boxes[b].at \in Nat /\ f.boxes[b].size \in 0..(U32 - 1)
              /\ f.boxes[b].parent \in Nat /\ f.boxes[b].parent < b
<1> DEFINE S == [type : STRING, says : Handlers, at : Nat, size : 0..(U32 - 1), parent : Nat,
                 content : Contents]
<1>1. f.boxes \in Seq(S) /\ \A b \in 1..Len(f.boxes) : f.boxes[b].parent < b
  BY DEF IsFile
<1>2. ASSUME NEW b \in 1..Len(f.boxes)
      PROVE  /\ f.boxes[b].at \in Nat /\ f.boxes[b].size \in 0..(U32 - 1)
             /\ f.boxes[b].parent \in Nat
  <2>1. f.boxes[b] \in S
    BY <1>1, ElementOf, Zenon
  <2> QED BY <2>1
<1>3. Len(f.boxes) \in Nat
  BY <1>1
<1> QED
  BY <1>1, <1>2, <1>3 DEF IsFile

LEMMA SaysOf ==
  ASSUME NEW f, IsFile(f), NEW b \in 1..Len(f.boxes)
  PROVE  f.boxes[b].says \in Handlers
<1> DEFINE S == [type : STRING, says : Handlers, at : Nat, size : 0..(U32 - 1), parent : Nat,
                 content : Contents]
<1>1. f.boxes \in Seq(S)
  BY DEF IsFile
<1>2. f.boxes[b] \in S
  BY <1>1, ElementOf, Zenon
<1> QED
  BY <1>2

(* Two boxes do not begin at the same place. *)
LEMMA OneBox ==
  ASSUME NEW f, IsFile(f), NEW b \in 1..Len(f.boxes), NEW c \in 1..Len(f.boxes),
         f.boxes[b].at = f.boxes[c].at
  PROVE  b = c
<1>1. f.boxes[b].at \in Nat /\ f.boxes[c].at \in Nat /\ Len(f.boxes) \in Nat
  BY FileOf
<1>2. /\ b < c => f.boxes[b].at < f.boxes[c].at
      /\ c < b => f.boxes[c].at < f.boxes[b].at
  BY DEF IsFile
<1>3. ~(b < c) /\ ~(c < b)
  BY <1>1, <1>2
<1> QED
  BY <1>1, <1>3

(* The ends of a box. *)
LEMMA EndsOf ==
  ASSUME NEW f, IsFile(f), WellFormed(f), NEW b \in 1..Len(f.boxes)
  PROVE  /\ End(f, b) \in Nat /\ f.boxes[b].at + HeaderSize <= End(f, b)
         /\ EndInside(f, b) \in Nat /\ EndAround(f, b) \in Nat
         /\ f.boxes[b].size = 0 =>
              /\ f.boxes[b].parent = 0 /\ End(f, b) = f.full
              /\ EndInside(f, b) = f.boxes[b].at + U32
              /\ EndInside(f, b) > f.full /\ EndAround(f, b) = f.boxes[b].at
         /\ f.boxes[b].size # 0 =>
              /\ f.boxes[b].size >= HeaderSize
              /\ End(f, b) = f.boxes[b].at + f.boxes[b].size
              /\ EndInside(f, b) = End(f, b) /\ EndAround(f, b) = End(f, b)
<1> DEFINE x == f.boxes[b]
<1>1. /\ x.at \in Nat /\ x.size \in Nat /\ x.parent \in Nat
      /\ f.full \in Nat /\ f.full < U32 /\ U32 \in Nat
  BY FileOf, WidthAssumption DEF WellFormed
<1>2. Extent(f, b) >= HeaderSize /\ HeaderSize = 8
  BY DEF WellFormed, HeaderSize
<1>3. CASE x.size = 0
  <2>1. x.parent = 0 /\ Extent(f, b) = f.full - x.at
    BY <1>2, <1>3 DEF Extent
  <2>2. End(f, b) = f.full
    BY <1>1, <2>1 DEF End
  <2>3. EndInside(f, b) = x.at + U32 /\ EndAround(f, b) = x.at
    BY <1>1, <1>3 DEF EndInside, EndAround
  <2> HIDE DEF x
  <2>4. x.at + 8 <= f.full
    BY <1>1, <1>2, <2>1
  <2> QED BY <1>1, <1>2, <1>3, <2>1, <2>2, <2>3, <2>4 DEF x
<1>4. CASE x.size # 0
  <2>1. Extent(f, b) = x.size
    BY <1>4 DEF Extent
  <2>2. End(f, b) = x.at + x.size
    BY <2>1 DEF End
  <2>3. EndInside(f, b) = x.at + x.size /\ EndAround(f, b) = x.at + x.size
    BY <1>4 DEF EndInside, EndAround
  <2> QED BY <1>1, <1>2, <1>4, <2>1, <2>2, <2>3
<1> QED
  BY <1>3, <1>4

(* The content of a box leads to its end. *)
LEMMA ContentEnd ==
  ASSUME NEW f, IsFile(f), WellFormed(f), NEW b \in 1..Len(f.boxes),
         NEW position, position = f.boxes[b].at,
         NEW rest, rest = (f.boxes[b].size - HeaderSize) % U32
  PROVE  position + HeaderSize + rest = EndInside(f, b)
<1>1. /\ f.boxes[b].size \in 0..(U32 - 1) /\ f.boxes[b].at \in Nat
      /\ U32 \in Nat /\ HeaderSize = 8
  BY FileOf, WidthAssumption DEF HeaderSize
<1>2. f.boxes[b].size = 0 \/ f.boxes[b].size >= HeaderSize
  BY EndsOf
<1>3. PICK size \in Int : size = IF f.boxes[b].size = 0 THEN U32 ELSE f.boxes[b].size
  BY <1>1
<1>4. rest = size - HeaderSize
  <2>1. (f.boxes[b].size - HeaderSize) % U32
          = (IF f.boxes[b].size = 0 THEN U32 ELSE f.boxes[b].size) - HeaderSize
    BY <1>1, <1>2, ContentOf
  <2> QED BY <1>3, <2>1
<1>5. EndInside(f, b) = position + size
  BY <1>3 DEF EndInside
<1>6. position \in Int /\ HeaderSize \in Int
  BY <1>1
<1>7. \A x, y, z \in Int : x + y + (z - y) = x + z
  OBVIOUS
<1>8. position + HeaderSize + (size - HeaderSize) = position + size
  BY <1>3, <1>6, <1>7, ZenonT(60)
<1> QED
  BY <1>4, <1>5, <1>8, ZenonT(60)

(* Where the children of a box, or of the file, begin and end. *)
FirstIn(f, c) == IF c = 0 THEN 0 ELSE f.boxes[c].at + HeaderSize
EndIn(f, c) == IF c = 0 THEN f.full ELSE End(f, c)

(* No child ends after its parent: the last one ends with it. *)
LEMMA ChildFits ==
  ASSUME NEW f, IsFile(f), WellFormed(f), NEW c, NEW start, NEW end \in Int,
         Tile(f, c, start, end), NEW b \in Children(f, c)
  PROVE  End(f, b) <= end
<1> SUFFICES ASSUME End(f, b) > end PROVE FALSE
  <2>1. b \in 1..Len(f.boxes)
    BY DEF Children
  <2>2. End(f, b) \in Nat
    BY <2>1, EndsOf
  <2> QED BY <2>2
<1> DEFINE T == {x \in Children(f, c) : End(f, x) > end}
<1>1. T \subseteq 1..Len(f.boxes) /\ b \in T
  BY DEF Children
<1>2. PICK x \in T : \A y \in T : y <= x
  <2>1. Len(f.boxes) \in Nat
    BY FileOf
  <2>2. T \subseteq Nat /\ T # {} /\ \A y \in T : y <= Len(f.boxes)
    BY <1>1, <2>1
  <2> HIDE DEF T
  <2> QED BY <2>1, <2>2, GreatestElement
<1>3. x \in Children(f, c) /\ x \in 1..Len(f.boxes) /\ End(f, x) > end /\ End(f, x) # end
  <2>1. x \in 1..Len(f.boxes) /\ x \in Children(f, c) /\ End(f, x) > end
    BY <1>1
  <2>2. End(f, x) \in Nat
    BY <2>1, EndsOf
  <2> QED BY <2>1, <2>2
<1>4. PICK y \in Children(f, c) : f.boxes[y].at = End(f, x)
  BY <1>3 DEF Tile
<1>5. y \in 1..Len(f.boxes)
  BY DEF Children
<1>6. /\ f.boxes[x].at \in Nat /\ f.boxes[y].at \in Nat
      /\ End(f, x) \in Nat /\ f.boxes[x].at + 8 <= End(f, x)
      /\ End(f, y) \in Nat /\ f.boxes[y].at + 8 <= End(f, y)
  BY <1>3, <1>5, EndsOf, FileOf DEF HeaderSize
<1>7. x < y
  <2>1. ~(y < x) /\ x # y
    <3>1. y < x => f.boxes[y].at < f.boxes[x].at
      BY <1>3, <1>5 DEF IsFile
    <3> QED BY <1>4, <1>6, <3>1
  <2>2. x \in Int /\ y \in Int
    BY <1>3, <1>5
  <2> QED BY <2>1, <2>2
<1>8. y \in T
  BY <1>3, <1>4, <1>6
<1> HIDE DEF T
<1> QED
  <2>1. y <= x /\ x \in Int /\ y \in Int
    BY <1>2, <1>3, <1>5, <1>8
  <2> QED BY <1>7, <2>1
-----------------------------------------------------------------------------
(* Paths. *)
LEMMA PathOf ==
  ASSUME NEW f, IsFile(f), NEW q, IsPath(f, q)
  PROVE  /\ q \in Seq(1..Len(f.boxes)) /\ Len(q) \in Nat
         /\ \A i \in 1..Len(q) : q[i] \in 1..Len(f.boxes)
         /\ Innermost(q) \in 0..Len(f.boxes)
         /\ Innermost(q) = 0 => Len(q) = 0
         /\ Len(q) # 0 => Innermost(q) = q[Len(q)]
<1>1. q \in Seq(1..Len(f.boxes)) /\ Len(f.boxes) \in Nat
  BY FileOf DEF IsPath
<1>2. Len(q) \in Nat /\ \A i \in 1..Len(q) : q[i] \in 1..Len(f.boxes)
  BY <1>1
<1>3. CASE Len(q) = 0
  BY <1>1, <1>2, <1>3 DEF Innermost
<1>4. CASE Len(q) # 0
  <2>1. Len(q) \in 1..Len(q)
    BY <1>2, <1>4
  <2>2. q[Len(q)] \in 1..Len(f.boxes)
    BY <1>2, <2>1
  <2>3. Innermost(q) = q[Len(q)]
    BY <1>4 DEF Innermost
  <2> QED BY <1>1, <1>2, <1>4, <2>2, <2>3
<1> QED
  BY <1>3, <1>4

LEMMA ChildOf ==
  ASSUME NEW f, NEW c, NEW b \in Children(f, c)
  PROVE  b \in 1..Len(f.boxes) /\ f.boxes[b].parent = c
BY DEF Children

(* A child makes the path longer, ... *)
LEMMA PathTo ==
  ASSUME NEW f, IsFile(f), NEW q, IsPath(f, q), NEW b \in Children(f, Innermost(q))
  PROVE  /\ IsPath(f, Append(q, b)) /\ Len(Append(q, b)) = Len(q) + 1
         /\ \A i \in 1..Len(q) : Append(q, b)[i] = q[i]
         /\ Append(q, b)[Len(q) + 1] = b /\ Innermost(Append(q, b)) = b
<1>1. /\ q \in Seq(1..Len(f.boxes)) /\ Len(q) \in Nat
      /\ \A i \in 1..Len(q) : f.boxes[q[i]].parent = IF i = 1 THEN 0 ELSE q[i - 1]
  BY PathOf DEF IsPath
<1>2. b \in 1..Len(f.boxes) /\ f.boxes[b].parent = Innermost(q)
  BY ChildOf
<1>3. PICK r : r = Append(q, b)
  OBVIOUS
<1>4. /\ r \in Seq(1..Len(f.boxes)) /\ Len(r) = Len(q) + 1
      /\ \A i \in 1..Len(q) : r[i] = q[i]
      /\ r[Len(q) + 1] = b
  BY <1>1, <1>2, <1>3
<1>5. ASSUME NEW i \in 1..Len(r) PROVE f.boxes[r[i]].parent = IF i = 1 THEN 0 ELSE r[i - 1]
  <2>1. CASE i \in 1..Len(q)
    <3>1. r[i] = q[i] /\ (i # 1 => r[i - 1] = q[i - 1])
      <4>1. i # 1 => i - 1 \in 1..Len(q)
        BY <1>1, <2>1
      <4> QED BY <1>4, <2>1, <4>1
    <3> QED BY <1>1, <2>1, <3>1
  <2>2. CASE i = Len(q) + 1
    <3>1. r[i] = b
      BY <1>4, <2>2
    <3>2. CASE Len(q) = 0
      BY <1>2, <2>2, <3>1, <3>2 DEF Innermost
    <3>3. CASE Len(q) # 0
      <4>1. i # 1 /\ i - 1 = Len(q) /\ Len(q) \in 1..Len(q)
        BY <1>1, <2>2, <3>3
      <4>2. r[i - 1] = q[Len(q)]
        BY <1>4, <4>1
      <4> QED BY <1>2, <3>1, <3>3, <4>1, <4>2 DEF Innermost
    <3> QED BY <3>2, <3>3
  <2> QED BY <1>1, <1>4, <2>1, <2>2
<1>6. Innermost(r) = b
  BY <1>1, <1>4 DEF Innermost
<1> QED
  BY <1>3, <1>4, <1>5, <1>6 DEF IsPath

(* ... and the boxes around one of it are a path. *)
LEMMA PathAround ==
  ASSUME NEW f, IsFile(f), NEW q, Inside(f, q), NEW n \in 0..Len(q)
  PROVE  LET r == SubSeq(q, 1, n) IN
           /\ Inside(f, r) /\ Len(r) = n /\ \A i \in 1..n : r[i] = q[i]
           /\ Innermost(r) = IF n = 0 THEN 0 ELSE q[n]
           /\ n < Len(q) => q[n + 1] \in Children(f, Innermost(r))
<1>1. /\ q \in Seq(1..Len(f.boxes)) /\ Len(q) \in Nat /\ IsPath(f, q)
      /\ \A i \in 1..Len(q) : f.boxes[q[i]].parent = IF i = 1 THEN 0 ELSE q[i - 1]
      /\ \A i \in 1..Len(q) : IsDescended(f, q[i]) /\ End(f, q[i]) <= f.full
      /\ \A i \in 1..Len(q) : q[i] \in 1..Len(f.boxes)
  BY PathOf DEF Inside, IsPath
<1>2. PICK r : r = SubSeq(q, 1, n)
  OBVIOUS
<1>3. r \in Seq(1..Len(f.boxes)) /\ Len(r) = n /\ \A i \in 1..n : r[i] = q[i]
  BY <1>1, <1>2
<1>4. ASSUME NEW i \in 1..n
      PROVE  /\ f.boxes[r[i]].parent = IF i = 1 THEN 0 ELSE r[i - 1]
             /\ IsDescended(f, r[i]) /\ End(f, r[i]) <= f.full
  <2>1. i \in 1..Len(q) /\ r[i] = q[i] /\ (i # 1 => r[i - 1] = q[i - 1])
    BY <1>1, <1>3
  <2> QED BY <1>1, <2>1
<1>5. Inside(f, r)
  BY <1>3, <1>4 DEF Inside, IsPath
<1>6. Innermost(r) = IF n = 0 THEN 0 ELSE q[n]
  <2>1. n # 0 => n \in 1..n
    OBVIOUS
  <2> QED BY <1>3, <2>1 DEF Innermost
<1>7. ASSUME n < Len(q) PROVE q[n + 1] \in Children(f, Innermost(r))
  <2>1. n + 1 \in 1..Len(q) /\ (n + 1) - 1 = n /\ (n + 1 = 1 <=> n = 0)
    BY <1>1, <1>7
  <2>2. f.boxes[q[n + 1]].parent = Innermost(r)
    BY <1>1, <1>6, <2>1
  <2> QED BY <1>1, <2>1, <2>2 DEF Children
<1> QED
  BY <1>2, <1>3, <1>5, <1>6, <1>7

(* What the last box of a path holds. *)
LEMMA TileOf ==
  ASSUME NEW f, IsFile(f), WellFormed(f), NEW q, Inside(f, q)
  PROVE  /\ Tile(f, Innermost(q), FirstIn(f, Innermost(q)), EndIn(f, Innermost(q)))
         /\ EndIn(f, Innermost(q)) \in Nat /\ EndIn(f, Innermost(q)) <= f.full
         /\ FirstIn(f, Innermost(q)) \in Nat
<1> DEFINE c == Innermost(q)
<1>1. /\ Len(q) \in Nat /\ c \in 0..Len(f.boxes) /\ (Len(q) # 0 => c = q[Len(q)])
      /\ c = 0 => Len(q) = 0
  BY PathOf DEF Inside
<1>2. f.full \in Nat
  BY FileOf
<1>3. CASE c = 0
  BY <1>2, <1>3 DEF WellFormed, FirstIn, EndIn
<1>4. CASE c # 0
  <2>1. c \in 1..Len(f.boxes) /\ Len(q) # 0
    <3>1. Len(q) # 0
      BY <1>4 DEF Innermost
    <3> QED BY <1>1, <1>4, <3>1
  <2>2. IsDescended(f, c) /\ End(f, c) <= f.full
    <3>1. Len(q) \in 1..Len(q) /\ c = q[Len(q)]
      BY <1>1, <2>1
    <3> QED BY <3>1 DEF Inside
  <2>3. End(f, c) \in Nat /\ f.boxes[c].at \in Nat
    BY <2>1, EndsOf, FileOf
  <2>4. Tile(f, c, f.boxes[c].at + HeaderSize, End(f, c))
    BY <2>1, <2>2 DEF WellFormed
  <2>5. FirstIn(f, c) = f.boxes[c].at + HeaderSize /\ EndIn(f, c) = End(f, c)
    BY <1>4 DEF FirstIn, EndIn
  <2>6. f.boxes[c].at + HeaderSize \in Nat
    BY <2>3 DEF HeaderSize
  <2> QED BY <2>2, <2>3, <2>4, <2>5, <2>6
<1> QED
  BY <1>3, <1>4

LEMMA InContainer ==
  ASSUME NEW f, IsFile(f), WellFormed(f), NEW q, Inside(f, q),
         NEW b \in Children(f, Innermost(q))
  PROVE  /\ End(f, b) <= EndIn(f, Innermost(q)) /\ End(f, b) <= f.full
         /\ f.boxes[b].size = 0 => Len(q) = 0
         /\ KindAround(f, b) = IF Len(q) = 0 THEN "top" ELSE f.boxes[q[Len(q)]].type
         /\ End(f, b) # EndIn(f, Innermost(q)) =>
              \E y \in Children(f, Innermost(q)) : f.boxes[y].at = End(f, b)
<1> DEFINE c == Innermost(q)
<1>1. /\ Tile(f, c, FirstIn(f, c), EndIn(f, c)) /\ EndIn(f, c) \in Nat
      /\ EndIn(f, c) <= f.full
  BY TileOf
<1>2. b \in 1..Len(f.boxes) /\ f.boxes[b].parent = c
  BY ChildOf
<1>3. End(f, b) \in Nat /\ (f.boxes[b].size = 0 => f.boxes[b].parent = 0) /\ f.full \in Nat
  BY <1>2, EndsOf, FileOf
<1>4. (c = 0 => Len(q) = 0) /\ (Len(q) # 0 => c = q[Len(q)]) /\ (Len(q) = 0 => c = 0)
  <2>1. Len(q) = 0 => c = 0
    BY DEF Innermost
  <2> QED BY <2>1, PathOf DEF Inside
<1> HIDE DEF c
<1>5. End(f, b) <= EndIn(f, c)
  <2>1. b \in Children(f, c)
    BY DEF c
  <2> QED BY <1>1, <2>1, ChildFits
<1>6. KindAround(f, b) = IF Len(q) = 0 THEN "top" ELSE f.boxes[q[Len(q)]].type
  BY <1>2, <1>4 DEF KindAround
<1>7. End(f, b) # EndIn(f, c) => \E y \in Children(f, c) : f.boxes[y].at = End(f, b)
  <2>1. End(f, b) \in {End(f, x) : x \in Children(f, c)}
    BY DEF c
  <2> QED BY <1>1, <2>1 DEF Tile
<1>8. End(f, b) <= f.full
  BY <1>1, <1>3, <1>5
<1>9. f.boxes[b].size = 0 => Len(q) = 0
  BY <1>2, <1>3, <1>4
<1> QED
  BY <1>5, <1>6, <1>7, <1>8, <1>9 DEF c

(* A box to descend into has a child right after its header. *)
LEMMA Entered ==
  ASSUME NEW f, IsFile(f), WellFormed(f), NEW q, Inside(f, q),
         NEW b \in Children(f, Innermost(q)), IsDescended(f, b)
  PROVE  /\ Inside(f, Append(q, b))
         /\ \E y \in Children(f, b) : f.boxes[y].at = f.boxes[b].at + HeaderSize
         /\ f.boxes[b].at + 16 <= End(f, b)
<1>1. b \in 1..Len(f.boxes) /\ End(f, b) <= f.full
  BY ChildOf, InContainer
<1>2. IsPath(f, q) /\ Len(q) \in Nat
  BY PathOf DEF Inside
<1>3. PICK r : r = Append(q, b)
  OBVIOUS
<1>4. /\ IsPath(f, r) /\ Len(r) = Len(q) + 1 /\ \A i \in 1..Len(q) : r[i] = q[i]
      /\ r[Len(q) + 1] = b /\ Innermost(r) = b
  BY <1>2, <1>3, PathTo
<1>5. Inside(f, r)
  <2>1. ASSUME NEW i \in 1..Len(r) PROVE IsDescended(f, r[i]) /\ End(f, r[i]) <= f.full
    <3>1. CASE i \in 1..Len(q)
      BY <1>4, <3>1 DEF Inside
    <3>2. CASE i = Len(q) + 1
      BY <1>1, <1>4, <3>2
    <3> QED BY <1>2, <1>4, <3>1, <3>2
  <2> QED BY <1>4, <2>1 DEF Inside
<1> DEFINE first == f.boxes[b].at + HeaderSize
<1>6. Children(f, b) # {} /\ Tile(f, b, first, End(f, b))
  BY <1>1 DEF WellFormed
<1>7. /\ End(f, b) \in Nat /\ f.boxes[b].at \in Nat /\ first \in Nat
      /\ first = f.boxes[b].at + 8
  BY <1>1, EndsOf, FileOf DEF HeaderSize
<1> HIDE DEF first
<1>8. ASSUME NEW y \in Children(f, b)
      PROVE  /\ End(f, y) <= End(f, b) /\ End(f, y) \in Nat
             /\ f.boxes[y].at \in Nat /\ f.boxes[y].at + 8 <= End(f, y)
             /\ f.boxes[b].at < f.boxes[y].at
  <2>1. y \in 1..Len(f.boxes) /\ f.boxes[y].parent = b
    BY ChildOf
  <2>2. f.boxes[y].parent < y
    BY <2>1, FileOf
  <2>3. f.boxes[b].at < f.boxes[y].at
    BY <1>1, <2>1, <2>2 DEF IsFile
  <2>4. End(f, y) <= End(f, b)
    BY <1>6, <1>7, ChildFits
  <2> QED BY <2>1, <2>3, <2>4, EndsOf, FileOf DEF HeaderSize
<1>9. first # End(f, b)
  <2>1. PICK y : y \in Children(f, b)
    BY <1>6
  <2> QED BY <1>7, <1>8, <2>1
<1>10. PICK y \in Children(f, b) : f.boxes[y].at = first
  BY <1>6, <1>9 DEF Tile
<1>11. f.boxes[b].at + 16 <= End(f, b)
  BY <1>7, <1>8, <1>10
<1> QED
  BY <1>3, <1>5, <1>10, <1>11 DEF first
-----------------------------------------------------------------------------
(* Stacks. *)
Open(e) == e.total # 0 \/ e.wants = 0

LEMMA EntryOf ==
  ASSUME NEW st \in Seq(Entry), NEW i \in 1..Len(st)
  PROVE  /\ st[i] \in Entry
         /\ st[i].kind \in Containers \cup Loaded \cup {"void"}
         /\ st[i].total \in 0..(U32 - 1) /\ st[i].wants \in 0..(U32 - 1)
         /\ st[i].to_skip \in 0..(U32 - 1)
<1>1. st[i] \in Entry
  BY ElementOf, Zenon
<1> QED
  BY <1>1 DEF Entry

LEMMA TopOf ==
  ASSUME NEW st, IsStack(st)
  PROVE  /\ Len(st) \in Nat /\ Len(st) \in 1..Len(st)
         /\ st[Len(st)] \in Entry
         /\ st[Len(st)].wants # 0 => Len(st) >= 2
         /\ st[Len(st)].kind \in Containers => Len(st) >= 2 /\ st[Len(st)].wants = 8
         /\ Len(st) >= 2 => st[Len(st)].kind # "void"
<1>1. st \in Seq(Entry) /\ Len(st) >= 1 /\ st[1].kind = "void" /\ st[1].wants = 0
  BY DEF IsStack
<1>2. Len(st) \in Nat /\ Len(st) \in 1..Len(st)
  BY <1>1
<1>3. st[Len(st)] \in Entry
  BY <1>1, <1>2, EntryOf
<1>4. Len(st) = 1 \/ (Len(st) >= 2 /\ Len(st) \in 2..Len(st))
  <2>1. PICK l \in Nat : l = Len(st)
    BY <1>2
  <2>2. l = 1 \/ (l >= 2 /\ l \in 2..l)
    BY <1>1, <2>1
  <2> QED BY <2>1, <2>2
<1>5. "void" \notin Containers
  BY DEF Containers
<1>6. Len(st) \in 2..Len(st) =>
        /\ st[Len(st)].kind # "void"
        /\ st[Len(st)].kind \in Containers => st[Len(st)].wants = 8
  BY DEF IsStack, HeaderSize
<1> QED
  BY <1>1, <1>2, <1>3, <1>4, <1>5, <1>6

(* Closing boxes stops at the last open entry; there is one at the bottom. *)
LEMMA Popped ==
  ASSUME NEW st, IsStack(st)
  PROVE  \E k \in 1..Len(st) :
           /\ Open(st[k]) /\ \A i \in (k + 1)..Len(st) : ~Open(st[i])
           /\ PopEmpty(st) \in Seq(Entry) /\ Len(PopEmpty(st)) = k
           /\ \A i \in 1..(k - 1) : PopEmpty(st)[i] = st[i]
           /\ PopEmpty(st)[k].kind = st[k].kind /\ PopEmpty(st)[k].total = st[k].total
           /\ PopEmpty(st)[k].wants = st[k].wants
           /\ PopEmpty(st)[k].to_skip = st[Len(st)].to_skip
<1> DEFINE l == Len(st)
           P(k) == Open(st[k]) /\ \A i \in (k + 1)..l : ~Open(st[i])
           k == CHOOSE j \in 1..l : P(j)
           s == SubSeq(st, 1, k)
           skip == st[l].to_skip
           r == [s EXCEPT ![k].to_skip = skip]
<1>1. st \in Seq(Entry) /\ l \in Nat /\ l >= 1 /\ Open(st[1])
  BY TopOf DEF IsStack, Open
<1>2. PopEmpty(st) = r
  BY DEF PopEmpty, Open
<1>3. \E j \in 1..l : P(j)
  <2> DEFINE T == {j \in 1..l : Open(st[j])}
  <2>1. PICK j \in T : \A i \in T : i <= j
    <3>1. T \subseteq Nat /\ T # {} /\ \A i \in T : i <= l
      BY <1>1
    <3> HIDE DEF T
    <3> QED BY <1>1, <3>1, GreatestElement
  <2>2. ASSUME NEW i \in (j + 1)..l PROVE ~Open(st[i])
    <3>1. i \in 1..l /\ ~(i <= j)
      BY <2>1
    <3>2. i \notin T
      BY <2>1, <3>1
    <3> QED BY <3>1, <3>2
  <2> QED BY <2>1, <2>2
<1>4. k \in 1..l /\ P(k)
  BY <1>3
<1> HIDE DEF k
<1>5. s \in Seq(Entry) /\ Len(s) = k /\ \A i \in 1..k : s[i] = st[i]
  BY <1>1, <1>4
<1>6. skip \in 0..(U32 - 1) /\ s[k] \in Entry /\ s[k] = st[k]
  <2>1. l \in 1..l
    BY <1>1
  <2> QED BY <1>1, <1>4, <1>5, <2>1, EntryOf
<1> HIDE DEF s, skip
<1>7. /\ [s[k] EXCEPT !.to_skip = skip] \in Entry
      /\ [s[k] EXCEPT !.to_skip = skip].kind = s[k].kind
      /\ [s[k] EXCEPT !.to_skip = skip].total = s[k].total
      /\ [s[k] EXCEPT !.to_skip = skip].wants = s[k].wants
      /\ [s[k] EXCEPT !.to_skip = skip].to_skip = skip
  BY <1>6 DEF Entry
<1>8. PICK e \in Entry : e = [s[k] EXCEPT !.to_skip = skip]
  BY <1>7
<1>9. r = [s EXCEPT ![k] = e]
  BY <1>8
<1> HIDE DEF r
<1>10. /\ r \in Seq(Entry) /\ Len(r) = k
       /\ \A i \in 1..(k - 1) : r[i] = s[i]
       /\ r[k] = e
  BY <1>4, <1>5, <1>9
<1>11. \A i \in 1..(k - 1) : r[i] = st[i]
  BY <1>4, <1>5, <1>10
<1>12. r[k].kind = st[k].kind /\ r[k].total = st[k].total /\ r[k].wants = st[k].wants
       /\ r[k].to_skip = skip
  BY <1>6, <1>7, <1>8, <1>10
<1> HIDE DEF P
<1>13. Open(st[k]) /\ \A i \in (k + 1)..l : ~Open(st[i])
  BY <1>4 DEF P
<1> QED
  BY <1>2, <1>4, <1>10, <1>11, <1>12, <1>13 DEF skip

LEMMA PoppedIsStack ==
  ASSUME NEW st, IsStack(st)
  PROVE  IsStack(PopEmpty(st))
<1>1. PICK r : r = PopEmpty(st)
  OBVIOUS
<1>2. PICK k \in 1..Len(st) :
        /\ r \in Seq(Entry) /\ Len(r) = k
        /\ \A i \in 1..(k - 1) : r[i] = st[i]
        /\ r[k].kind = st[k].kind /\ r[k].wants = st[k].wants
  BY <1>1, Popped
<1>3. /\ Len(st) \in Nat /\ st[1].kind = "void" /\ st[1].wants = 0
      /\ Len(st) >= 2 => st[2].kind = "top"
      /\ \A i \in 2..Len(st) :
           /\ st[i].kind # "void"
           /\ st[i].kind \in Containers => st[i].wants = HeaderSize
           /\ i < Len(st) => st[i].kind \in Containers
      /\ \A i \in 1..(Len(st) - 1) : st[i].to_skip = 0
  BY TopOf DEF IsStack
<1>4. \A i \in 1..k : r[i].kind = st[i].kind /\ r[i].wants = st[i].wants
  <2>1. ASSUME NEW i \in 1..k PROVE r[i].kind = st[i].kind /\ r[i].wants = st[i].wants
    <3>1. i = k \/ i \in 1..(k - 1)
      OBVIOUS
    <3> QED BY <1>2, <3>1
  <2> QED BY <2>1
<1>5. \A i \in 1..(k - 1) : r[i].to_skip = 0
  <2>1. ASSUME NEW i \in 1..(k - 1) PROVE r[i].to_skip = 0
    <3>1. i \in 1..(Len(st) - 1)
      BY <1>3
    <3> QED BY <1>2, <1>3, <3>1
  <2> QED BY <2>1
<1>6. 1 \in 1..k /\ (k >= 2 => 2 \in 1..k /\ Len(st) >= 2)
  BY <1>3
<1>7. ASSUME NEW i \in 2..k
      PROVE  /\ r[i].kind # "void"
             /\ r[i].kind \in Containers => r[i].wants = HeaderSize
             /\ i < k => r[i].kind \in Containers
  <2>1. i \in 1..k /\ i \in 2..Len(st) /\ (i < k => i < Len(st))
    BY <1>3
  <2> QED BY <1>3, <1>4, <2>1
<1>8. r[1].kind = "void" /\ r[1].wants = 0
  BY <1>3, <1>4, <1>6
<1>9. Len(r) >= 2 => r[2].kind = "top"
  BY <1>2, <1>3, <1>4, <1>6
<1> QED
  BY <1>1, <1>2, <1>5, <1>7, <1>8, <1>9 DEF IsStack

(* The top gives up room for a child. *)
Taken(st, size, n) ==
  [st EXCEPT ![Len(st)].total = (@ - size) % U32, ![Len(st)].to_skip = n]

LEMMA TakenFrom ==
  ASSUME NEW st, IsStack(st), NEW size \in Int, NEW n \in 0..(U32 - 1)
  PROVE  /\ IsStack(Taken(st, size, n)) /\ Len(Taken(st, size, n)) = Len(st)
         /\ \A i \in 1..(Len(st) - 1) : Taken(st, size, n)[i] = st[i]
         /\ Taken(st, size, n)[Len(st)].kind = st[Len(st)].kind
         /\ Taken(st, size, n)[Len(st)].wants = st[Len(st)].wants
         /\ Taken(st, size, n)[Len(st)].total = (st[Len(st)].total - size) % U32
         /\ Taken(st, size, n)[Len(st)].to_skip = n
<1> DEFINE l == Len(st)
           total == (st[l].total - size) % U32
           e == [st[l] EXCEPT !.total = total, !.to_skip = n]
           r == [st EXCEPT ![l].total = (@ - size) % U32, ![l].to_skip = n]
<1>1. st \in Seq(Entry) /\ l \in Nat /\ l \in 1..l /\ st[l] \in Entry
  BY TopOf DEF IsStack
<1>2. total \in 0..(U32 - 1)
  <2>1. st[l].total \in Int
    BY <1>1, EntryOf, WidthAssumption
  <2>2. st[l].total - size \in Int
    BY <2>1
  <2> QED BY <2>2, Wrapped
<1>3. r = [st EXCEPT ![l] = e]
  BY <1>1
<1> HIDE DEF total, l, r
<1>4. /\ e \in Entry /\ e.kind = st[l].kind /\ e.wants = st[l].wants
      /\ e.total = total /\ e.to_skip = n
  BY <1>1, <1>2 DEF Entry
<1> HIDE DEF e
<1>5. /\ r \in Seq(Entry) /\ Len(r) = l
      /\ \A i \in 1..(l - 1) : r[i] = st[i]
      /\ r[l] = e
  BY <1>1, <1>3, <1>4 DEF l
<1>6. \A i \in 1..l : r[i].kind = st[i].kind /\ r[i].wants = st[i].wants
  <2>1. ASSUME NEW i \in 1..l PROVE r[i].kind = st[i].kind /\ r[i].wants = st[i].wants
    <3>1. i = l \/ i \in 1..(l - 1)
      BY <1>1
    <3> QED BY <1>4, <1>5, <3>1
  <2> QED BY <2>1
<1>7. IsStack(r)
  <2>1. /\ l >= 1 /\ st[1].kind = "void" /\ st[1].wants = 0
        /\ l >= 2 => st[2].kind = "top"
        /\ \A i \in 2..l :
             /\ st[i].kind # "void"
             /\ st[i].kind \in Containers => st[i].wants = HeaderSize
             /\ i < l => st[i].kind \in Containers
        /\ \A i \in 1..(l - 1) : st[i].to_skip = 0
    BY DEF IsStack, l
  <2>2. 1 \in 1..l /\ (l >= 2 => 2 \in 1..l) /\ \A i \in 2..l : i \in 1..l
    BY <1>1
  <2>3. /\ r[1].kind = "void" /\ r[1].wants = 0
        /\ l >= 2 => r[2].kind = "top"
    BY <1>6, <2>1, <2>2
  <2>4. \A i \in 2..l :
          /\ r[i].kind # "void"
          /\ r[i].kind \in Containers => r[i].wants = HeaderSize
          /\ i < l => r[i].kind \in Containers
    BY <1>6, <2>1, <2>2
  <2>5. \A i \in 1..(l - 1) : r[i].to_skip = 0
    BY <1>5, <2>1
  <2> QED BY <1>5, <2>1, <2>3, <2>4, <2>5 DEF IsStack
<1>8. r = Taken(st, size, n)
  BY DEF r, l, Taken
<1> QED
  BY <1>4, <1>5, <1>7, <1>8 DEF l, total

(* A child is opened. *)
LEMMA Pushed ==
  ASSUME NEW st, IsStack(st), Len(st) >= 2, st[Len(st)].kind \in Containers,
         st[Len(st)].to_skip = 0,
         NEW e \in Entry, e.kind # "void", e.kind \in Containers => e.wants = HeaderSize,
         NEW r, r = Append(st, e)
  PROVE  /\ IsStack(r) /\ Len(r) = Len(st) + 1
         /\ \A i \in 1..Len(st) : r[i] = st[i]
         /\ r[Len(st) + 1] = e
<1> DEFINE l == Len(st)
<1>1. st \in Seq(Entry) /\ l \in Nat
  BY TopOf DEF IsStack
<1>3. /\ r \in Seq(Entry) /\ Len(r) = l + 1 /\ \A i \in 1..l : r[i] = st[i]
      /\ r[l + 1] = e
  BY <1>1
<1>4. /\ l >= 2 /\ st[1].kind = "void" /\ st[1].wants = 0 /\ st[2].kind = "top"
      /\ \A i \in 2..l :
           /\ st[i].kind # "void"
           /\ st[i].kind \in Containers => st[i].wants = HeaderSize
           /\ i < l => st[i].kind \in Containers
      /\ \A i \in 1..(l - 1) : st[i].to_skip = 0
  BY DEF IsStack
<1> HIDE DEF l
<1>5. 1 \in 1..l /\ 2 \in 1..l
  BY <1>1, <1>4
<1>6. ASSUME NEW i \in 2..(l + 1)
      PROVE  /\ r[i].kind # "void"
             /\ r[i].kind \in Containers => r[i].wants = HeaderSize
             /\ i < l + 1 => r[i].kind \in Containers
  <2>1. CASE i = l + 1
    BY <1>1, <1>3, <2>1
  <2>2. CASE i # l + 1
    <3>1. i \in 1..l /\ i \in 2..l /\ (i < l \/ i = l)
      BY <1>1, <2>2
    <3>2. r[i] = st[i]
      BY <1>3, <3>1
    <3>3. i = l => r[i].kind \in Containers
      BY <3>2 DEF l
    <3> QED BY <1>4, <3>1, <3>2, <3>3
  <2> QED BY <2>1, <2>2
<1>7. ASSUME NEW i \in 1..l PROVE r[i].to_skip = 0
  <2>1. i = l \/ i \in 1..(l - 1)
    BY <1>1
  <2>2. i = l => r[i].to_skip = 0
    BY <1>3 DEF l
  <2> QED BY <1>3, <1>4, <2>1, <2>2
<1>8. /\ r[1].kind = "void" /\ r[1].wants = 0 /\ r[2].kind = "top"
  BY <1>3, <1>4, <1>5
<1>9. (l + 1) - 1 = l /\ l + 1 >= 1
  BY <1>1
<1>10. IsStack(r)
  BY <1>3, <1>6, <1>7, <1>8, <1>9 DEF IsStack
<1> QED
  BY <1>3, <1>10 DEF l
-----------------------------------------------------------------------------
(* What a box has left, at its place in the stack. *)
LEMMA LeftOf ==
  ASSUME NEW f, NEW q, Len(q) \in Nat, NEW st, NEW position, StackIs(f, q, st, position)
  PROVE  /\ Len(st) = Len(q) + 2
         /\ \A m \in 3..Len(st) : st[m].kind = f.boxes[q[m - 2]].type
         /\ \A m \in 2..Len(st) :
              st[m].total = (IF m = 2 THEN U32 - 1 ELSE EndInside(f, q[m - 2]))
                              - (IF m = Len(st) THEN position ELSE EndAround(f, q[m - 1]))
<1> DEFINE n == Len(q)
<1>1. /\ Len(st) = n + 2
      /\ \A i \in 1..n : st[i + 2].kind = f.boxes[q[i]].type
      /\ \A i \in 0..n :
           st[i + 2].total = (IF i = 0 THEN U32 - 1 ELSE EndInside(f, q[i]))
                               - (IF i = n THEN position ELSE EndAround(f, q[i + 1]))
  BY DEF StackIs
<1> HIDE DEF n
<1>2. n \in Nat
  BY DEF n
<1>3. ASSUME NEW m \in 3..Len(st) PROVE st[m].kind = f.boxes[q[m - 2]].type
  <2>1. m - 2 \in 1..n /\ (m - 2) + 2 = m
    BY <1>1, <1>2
  <2> QED BY <1>1, <2>1
<1>4. ASSUME NEW m \in 2..Len(st)
      PROVE  st[m].total = (IF m = 2 THEN U32 - 1 ELSE EndInside(f, q[m - 2]))
                             - (IF m = Len(st) THEN position ELSE EndAround(f, q[m - 1]))
  <2>1. /\ m - 2 \in 0..n /\ (m - 2) + 2 = m /\ (m - 2) + 1 = m - 1
        /\ (m - 2 = 0 <=> m = 2) /\ (m - 2 = n <=> m = Len(st))
    BY <1>1, <1>2
  <2> QED BY <1>1, <2>1
<1> QED
  BY <1>1, <1>3, <1>4 DEF n

LEMMA LeftIs ==
  ASSUME NEW f, NEW q, Len(q) \in Nat, NEW st, NEW position,
         Len(st) = Len(q) + 2,
         \A m \in 3..Len(st) : st[m].kind = f.boxes[q[m - 2]].type,
         \A m \in 2..Len(st) :
           st[m].total = (IF m = 2 THEN U32 - 1 ELSE EndInside(f, q[m - 2]))
                           - (IF m = Len(st) THEN position ELSE EndAround(f, q[m - 1]))
  PROVE  StackIs(f, q, st, position)
<1> DEFINE n == Len(q)
<1>1. n \in Nat /\ Len(st) = n + 2
  OBVIOUS
<1>2. ASSUME NEW i \in 1..n PROVE st[i + 2].kind = f.boxes[q[i]].type
  <2>1. i + 2 \in 3..Len(st) /\ (i + 2) - 2 = i
    BY <1>1
  <2> QED BY <2>1
<1>3. ASSUME NEW i \in 0..n
      PROVE  st[i + 2].total = (IF i = 0 THEN U32 - 1 ELSE EndInside(f, q[i]))
                                 - (IF i = n THEN position ELSE EndAround(f, q[i + 1]))
  <2>1. /\ i + 2 \in 2..Len(st) /\ (i + 2) - 2 = i /\ (i + 2) - 1 = i + 1
        /\ (i + 2 = 2 <=> i = 0) /\ (i + 2 = Len(st) <=> i = n)
    BY <1>1
  <2> QED BY <2>1
<1> QED
  BY <1>1, <1>2, <1>3 DEF StackIs

(* Once the box b is read to its end, the boxes that end there are closed,  *)
(* and what comes next is a child of the one that is not.                   *)
LEMMA AfterBox ==
  ASSUME NEW f, IsFile(f), WellFormed(f), NEW q, Inside(f, q),
         NEW b \in Children(f, Innermost(q)),
         NEW st, IsStack(st), st[Len(st)].kind \in Containers,
         StackIs(f, q, st, EndAround(f, b)),
         NEW position, position = EndInside(f, b),
         position < f.full
  PROVE  /\ Len(PopEmpty(st)) >= 2
         /\ PopEmpty(st)[Len(PopEmpty(st))].kind \in Containers
         /\ \E r : AtBox(f, r, PopEmpty(st), position)
<1> DEFINE l == Len(st)
           child(m) == IF m = l THEN b ELSE q[m - 1]
<1>1. b \in 1..Len(f.boxes)
  BY ChildOf
<1>2. Len(q) \in Nat /\ \A i \in 1..Len(q) : q[i] \in 1..Len(f.boxes)
  BY PathOf DEF Inside
<1>3. /\ l = Len(q) + 2
      /\ \A m \in 3..l : st[m].kind = f.boxes[q[m - 2]].type
      /\ \A m \in 2..l :
           st[m].total = (IF m = 2 THEN U32 - 1 ELSE EndInside(f, q[m - 2]))
                           - (IF m = l THEN EndAround(f, b) ELSE EndAround(f, q[m - 1]))
  BY <1>2, LeftOf
<1>4. f.boxes[b].size # 0 /\ position = End(f, b) /\ EndAround(f, b) = position
      /\ position \in Nat
  <2>1. f.full \in Nat
    BY FileOf
  <2>2. f.boxes[b].size # 0
    BY <1>1, <2>1, EndsOf
  <2> QED BY <1>1, <2>2, EndsOf
<1>5. PICK k \in 1..l :
        /\ Open(st[k]) /\ \A i \in (k + 1)..l : ~Open(st[i])
        /\ Len(PopEmpty(st)) = k
        /\ \A i \in 1..(k - 1) : PopEmpty(st)[i] = st[i]
        /\ PopEmpty(st)[k].kind = st[k].kind /\ PopEmpty(st)[k].total = st[k].total
  BY Popped, SMTT(30)
<1>6. l \in Nat /\ l >= 2 /\ k \in 1..l
  BY <1>2, <1>3, <1>5
<1>7. \A m \in 2..l : st[m].kind \in Containers /\ st[m].wants = 8 /\ st[m].total \in Int
  <2>1. ASSUME NEW m \in 2..l PROVE st[m].kind \in Containers /\ st[m].wants = 8
    <3>1. st[m].kind \in Containers => st[m].wants = 8
      BY DEF IsStack, HeaderSize
    <3>2. m < l => st[m].kind \in Containers
      BY DEF IsStack
    <3>3. m = l \/ m < l
      BY <1>6
    <3> QED BY <3>1, <3>2, <3>3
  <2>2. ASSUME NEW m \in 2..l PROVE st[m].total \in Int
    <3>1. st \in Seq(Entry) /\ m \in 1..Len(st)
      BY <1>6 DEF IsStack
    <3>2. st[m].total \in 0..(U32 - 1)
      BY <3>1, EntryOf
    <3> QED BY <3>2, WidthAssumption
  <2> QED BY <2>1, <2>2
<1> HIDE DEF l
<1>8. f.full \in Nat /\ f.full < U32 /\ U32 \in Nat
  BY FileOf, WidthAssumption DEF WellFormed
<1>9. \A m \in 2..l : child(m) \in 1..Len(f.boxes)
  <2>1. ASSUME NEW m \in 2..l, m # l PROVE m - 1 \in 1..Len(q)
    BY <1>2, <1>3, <2>1
  <2> QED BY <1>1, <1>2, <2>1
<1>10. \A m \in 2..l : m >= k => f.boxes[child(m)].size # 0 /\ EndAround(f, child(m)) = position
  <2> DEFINE Fine(m) == f.boxes[child(m)].size # 0 /\ EndAround(f, child(m)) = position
             P == {d \in Nat : l - d >= k /\ l - d >= 2 => Fine(l - d)}
  <2>1. 0 \in P
    <3>1. l - 0 = l /\ child(l) = b
      BY <1>6
    <3> QED BY <1>4, <3>1
  <2>2. ASSUME NEW d \in Nat, d \in P PROVE d + 1 \in P
    <3> SUFFICES ASSUME l - (d + 1) >= k, l - (d + 1) >= 2 PROVE Fine(l - (d + 1))
      OBVIOUS
    <3>1. PICK m \in Int : m = l - (d + 1)
      BY <1>6
    <3>2. m \in 2..l /\ m # l /\ m + 1 = l - d /\ m + 1 \in (k + 1)..l /\ m + 1 >= k
          /\ m + 1 \in 2..l /\ m + 1 # 2 /\ (m + 1) - 2 = m - 1 /\ (m + 1) - 1 = m
      BY <1>6, <3>1
    <3>3. EndAround(f, child(m + 1)) = position
      BY <2>2, <3>2
    <3>4. st[m + 1].total = 0
      BY <1>5, <3>2 DEF Open
    <3>5. child(m) = q[m - 1] /\ child(m) \in 1..Len(f.boxes)
      BY <1>9, <3>2
    <3>6. st[m + 1].total = EndInside(f, q[m - 1]) - EndAround(f, child(m + 1))
      BY <1>3, <3>2
    <3>7. EndInside(f, child(m)) = position
      <4>1. EndInside(f, child(m)) \in Nat
        BY <3>5, EndsOf
      <4> QED BY <1>4, <3>3, <3>4, <3>5, <3>6, <4>1
    <3>8. f.boxes[child(m)].size # 0
      <4>1. f.boxes[child(m)].size = 0 => EndInside(f, child(m)) > f.full
        BY <3>5, EndsOf
      <4> QED BY <1>4, <1>8, <3>7, <4>1
    <3>9. EndAround(f, child(m)) = position
      BY <3>5, <3>7, <3>8, EndsOf
    <3> QED BY <3>1, <3>8, <3>9
  <2> HIDE DEF P
  <2>3. \A d \in Nat : d \in P
    BY <2>1, <2>2, Induction
  <2>4. ASSUME NEW m \in 2..l, m >= k PROVE Fine(m)
    <3>1. l - m \in Nat /\ l - (l - m) = m /\ m >= k /\ m >= 2
      BY <1>6, <2>4
    <3>2. l - m \in P
      BY <2>3, <3>1
    <3> QED BY <3>1, <3>2 DEF P
  <2> QED BY <2>4
<1>10a. k \in 2..l /\ l \in Nat
  <2> SUFFICES ASSUME k = 1 PROVE FALSE
    BY <1>6
  <2>1. 2 \in 2..l /\ 2 >= k /\ 2 \in (k + 1)..l
    BY <1>6
  <2>2. EndAround(f, child(2)) = position
    BY <1>10, <2>1
  <2>3. st[2].total = 0
    BY <1>5, <2>1 DEF Open
  <2>4. st[2].total = (U32 - 1) - position
    BY <1>3, <2>1, <2>2
  <2> QED BY <1>4, <1>8, <2>3, <2>4
<1>11. PICK r : r = SubSeq(q, 1, k - 2)
  OBVIOUS
<1>12. k - 2 \in 0..Len(q) /\ (k - 2 = 0 <=> k = 2) /\ (k - 2) + 1 = k - 1
       /\ (k - 2 < Len(q) <=> k # l)
  BY <1>2, <1>3, <1>10a
<1>13. /\ Inside(f, r) /\ Len(r) = k - 2 /\ \A i \in 1..(k - 2) : r[i] = q[i]
       /\ Innermost(r) = IF k = 2 THEN 0 ELSE q[k - 2]
       /\ k # l => q[k - 1] \in Children(f, Innermost(r))
  BY <1>11, <1>12, PathAround
<1>14. child(k) \in Children(f, Innermost(r)) /\ child(k) \in 1..Len(f.boxes)
  <2>1. CASE k = l
    <3>1. k - 2 = Len(q)
      BY <1>2, <1>3, <1>10a, <2>1
    <3>2. Innermost(q) = Innermost(r)
      BY <1>12, <1>13, <3>1 DEF Innermost
    <3> QED BY <1>1, <2>1, <3>2
  <2>2. CASE k # l
    BY <1>10a, <1>9, <1>13, <2>2
  <2> QED BY <2>1, <2>2
<1>15. End(f, child(k)) = position
  <2>1. k \in 2..l /\ k >= k
    BY <1>10a
  <2>2. f.boxes[child(k)].size # 0 /\ EndAround(f, child(k)) = position
    BY <1>10, <2>1
  <2> QED BY <1>14, <2>2, EndsOf
<1>16. st[k].total = (IF k = 2 THEN U32 - 1 ELSE EndInside(f, q[k - 2])) - position
  <2>1. EndAround(f, child(k)) = position
    <3>1. k \in 2..l /\ k >= k
      BY <1>10a
    <3> QED BY <1>10, <3>1
  <2> QED BY <1>3, <1>10a, <2>1
<1>17. position # EndIn(f, Innermost(r))
  <2>1. CASE k = 2
    <3>1. EndIn(f, Innermost(r)) = f.full
      BY <1>13, <2>1 DEF EndIn
    <3> QED BY <1>4, <1>8, <3>1
  <2>2. CASE k # 2
    <3>1. k - 2 \in 1..Len(q)
      BY <1>2, <1>12, <2>2
    <3>2. q[k - 2] \in 1..Len(f.boxes) /\ Innermost(r) = q[k - 2]
      BY <1>2, <1>13, <2>2, <3>1
    <3>3. EndIn(f, Innermost(r)) = End(f, q[k - 2])
      BY <3>2 DEF EndIn
    <3>4. st[k].total # 0
      BY <1>5, <1>10a, <1>7 DEF Open
    <3>5. EndInside(f, q[k - 2]) # position
      BY <1>4, <1>16, <2>2, <3>4
    <3>6. CASE f.boxes[q[k - 2]].size = 0
      <4>1. End(f, q[k - 2]) = f.full
        BY <3>2, <3>6, EndsOf
      <4> QED BY <1>4, <1>8, <3>3, <4>1
    <3>7. CASE f.boxes[q[k - 2]].size # 0
      <4>1. EndInside(f, q[k - 2]) = End(f, q[k - 2])
        BY <3>2, <3>7, EndsOf
      <4> QED BY <3>3, <3>5, <4>1
    <3> QED BY <3>6, <3>7
  <2> QED BY <2>1, <2>2
<1>18. \E y \in Children(f, Innermost(r)) : f.boxes[y].at = position
  BY <1>13, <1>14, <1>15, <1>17, InContainer
<1>19. PICK s : s = PopEmpty(st)
  OBVIOUS
<1>20. /\ Len(s) = k /\ \A i \in 1..(k - 1) : s[i] = st[i]
       /\ s[k].kind = st[k].kind /\ s[k].total = st[k].total
  BY <1>5, <1>19
<1>21. StackIs(f, r, s, position)
  <2>1. ASSUME NEW m \in 3..k PROVE s[m].kind = f.boxes[r[m - 2]].type
    <3>1. m \in 3..l /\ m - 2 \in 1..(k - 2) /\ (m = k \/ m \in 1..(k - 1))
      BY <1>10a
    <3> QED BY <1>3, <1>13, <1>20, <3>1
  <2>2. ASSUME NEW m \in 2..k
        PROVE  s[m].total = (IF m = 2 THEN U32 - 1 ELSE EndInside(f, r[m - 2]))
                              - (IF m = k THEN position ELSE EndAround(f, r[m - 1]))
    <3>1. m # 2 => r[m - 2] = q[m - 2]
      <4>1. m # 2 => m - 2 \in 1..(k - 2)
        BY <1>10a
      <4> QED BY <1>13, <4>1
    <3>2. CASE m = k
      BY <1>16, <1>20, <3>1, <3>2
    <3>3. CASE m # k
      <4>1. m \in 2..l /\ m # l /\ m \in 1..(k - 1) /\ m - 1 \in 1..(k - 2)
        BY <1>10a, <3>3
      <4>2. r[m - 1] = q[m - 1]
        BY <1>13, <4>1
      <4> QED BY <1>3, <1>20, <3>1, <3>3, <4>1, <4>2
    <3> QED BY <3>2, <3>3
  <2>3. Len(r) \in Nat /\ Len(s) = Len(r) + 2
    BY <1>10a, <1>13, <1>20
  <2> QED BY <1>20, <2>1, <2>2, <2>3, LeftIs
<1>22. s[Len(s)].kind \in Containers
  BY <1>10a, <1>7, <1>20
<1>23. AtBox(f, r, s, position)
  BY <1>13, <1>18, <1>21 DEF AtBox
<1> QED
  BY <1>10a, <1>19, <1>20, <1>22, <1>23
-----------------------------------------------------------------------------
(* The box around b has room for it, and gives it up. *)
LEMMA Room ==
  ASSUME NEW f, IsFile(f), WellFormed(f), NEW q, Inside(f, q),
         NEW b \in Children(f, Innermost(q)),
         NEW st, IsStack(st), NEW at, StackIs(f, q, st, at), at = f.boxes[b].at
  PROVE  /\ Len(st) = Len(q) + 2
         /\ st[Len(st)].total \in 0..(U32 - 1) /\ f.boxes[b].size \in 0..(U32 - 1)
         /\ f.boxes[b].size <= st[Len(st)].total
         /\ (st[Len(st)].total - f.boxes[b].size) % U32 = st[Len(st)].total - f.boxes[b].size
         /\ st[Len(st)].kind = KindAround(f, b)
<1> DEFINE l == Len(st)
           end == IF l = 2 THEN U32 - 1 ELSE EndInside(f, q[l - 2])
<1>1. b \in 1..Len(f.boxes)
  BY ChildOf
<1>2. Len(q) \in Nat /\ \A i \in 1..Len(q) : q[i] \in 1..Len(f.boxes)
  BY PathOf DEF Inside
<1>3. /\ l = Len(q) + 2
      /\ l # 2 => st[l].kind = f.boxes[q[l - 2]].type
      /\ st[l].total = end - at
  <2>1. /\ Len(st) = Len(q) + 2
        /\ \A m \in 3..Len(st) : st[m].kind = f.boxes[q[m - 2]].type
        /\ \A m \in 2..Len(st) :
             st[m].total = (IF m = 2 THEN U32 - 1 ELSE EndInside(f, q[m - 2]))
                             - (IF m = Len(st) THEN at ELSE EndAround(f, q[m - 1]))
    BY <1>2, LeftOf
  <2>2. Len(st) \in 2..Len(st) /\ (Len(st) # 2 => Len(st) \in 3..Len(st))
    BY <1>2, <2>1
  <2> QED BY <2>1, <2>2
<1>4. st[l].total \in 0..(U32 - 1)
  <2>1. st \in Seq(Entry) /\ Len(st) \in 1..Len(st)
    BY TopOf DEF IsStack
  <2> QED BY <2>1, EntryOf
<1>5. /\ f.boxes[b].size \in 0..(U32 - 1) /\ at \in Nat /\ f.full \in Nat /\ f.full < U32
      /\ U32 \in Nat
  BY <1>1, FileOf, WidthAssumption DEF WellFormed
<1>6. End(f, b) <= EndIn(f, Innermost(q)) /\ EndIn(f, Innermost(q)) \in Nat
      /\ KindAround(f, b) = IF Len(q) = 0 THEN "top" ELSE f.boxes[q[Len(q)]].type
  BY InContainer, TileOf
<1>7. l - 2 = Len(q) /\ (l = 2 <=> Len(q) = 0)
  BY <1>2, <1>3
<1>8. EndIn(f, Innermost(q)) <= end /\ end \in Int
  <2>1. CASE Len(q) = 0
    <3>1. EndIn(f, Innermost(q)) = f.full
      BY <2>1 DEF Innermost, EndIn
    <3> QED BY <1>5, <1>7, <2>1, <3>1
  <2>2. CASE Len(q) # 0
    <3>1. Len(q) \in 1..Len(q) /\ Innermost(q) = q[Len(q)]
      BY <1>2, <2>2 DEF Innermost
    <3>2. q[Len(q)] \in 1..Len(f.boxes)
      BY <1>2, <3>1
    <3>3. EndIn(f, Innermost(q)) = End(f, q[Len(q)])
      <4>1. q[Len(q)] # 0
        BY <3>2
      <4> QED BY <3>1, <4>1 DEF EndIn
    <3>4. end = EndInside(f, q[Len(q)])
      BY <1>7, <2>2
    <3>5. End(f, q[Len(q)]) <= EndInside(f, q[Len(q)]) /\ EndInside(f, q[Len(q)]) \in Nat
      <4>1. CASE f.boxes[q[Len(q)]].size = 0
        <5>1. /\ End(f, q[Len(q)]) = f.full /\ EndInside(f, q[Len(q)]) > f.full
              /\ EndInside(f, q[Len(q)]) \in Nat
          BY <3>2, <4>1, EndsOf
        <5> QED BY <1>5, <5>1
      <4>2. CASE f.boxes[q[Len(q)]].size # 0
        <5>1. End(f, q[Len(q)]) = EndInside(f, q[Len(q)]) /\ EndInside(f, q[Len(q)]) \in Nat
          BY <3>2, <4>2, EndsOf
        <5> QED BY <5>1
      <4> QED BY <4>1, <4>2
    <3> QED BY <3>3, <3>4, <3>5
  <2> QED BY <2>1, <2>2
<1>9. End(f, b) \in Nat /\ at + f.boxes[b].size <= End(f, b)
  <2>1. CASE f.boxes[b].size = 0
    <3>1. End(f, b) \in Nat /\ at + 8 <= End(f, b)
      BY <1>1, EndsOf DEF HeaderSize
    <3> QED BY <1>5, <2>1, <3>1
  <2>2. CASE f.boxes[b].size # 0
    <3>1. End(f, b) \in Nat /\ End(f, b) = at + f.boxes[b].size
      BY <1>1, <2>2, EndsOf
    <3> QED BY <3>1
  <2> QED BY <2>1, <2>2
<1> HIDE DEF end
<1>10. f.boxes[b].size <= st[l].total
  <2>1. at + f.boxes[b].size <= end
    BY <1>5, <1>6, <1>8, <1>9
  <2> QED BY <1>3, <1>5, <1>8, <2>1
<1>11. st[l].kind = KindAround(f, b)
  <2>1. CASE l = 2
    <3>1. st[l].kind = "top"
      BY <2>1 DEF IsStack
    <3> QED BY <1>6, <1>7, <2>1, <3>1
  <2>2. CASE l # 2
    BY <1>3, <1>6, <1>7, <2>2
  <2> QED BY <2>1, <2>2
<1>12. (st[l].total - f.boxes[b].size) % U32 = st[l].total - f.boxes[b].size
  <2>1. /\ st[l].total - f.boxes[b].size \in Int
        /\ st[l].total - f.boxes[b].size \in 0..(U32 - 1)
    BY <1>4, <1>5, <1>10
  <2> QED BY <2>1, Wrapped
<1> QED
  BY <1>3, <1>4, <1>5, <1>10, <1>11, <1>12

LEMMA RoomTaken ==
  ASSUME NEW f, IsFile(f), WellFormed(f), NEW q, Inside(f, q),
         NEW b \in Children(f, Innermost(q)),
         NEW st, IsStack(st), NEW at, StackIs(f, q, st, at), at = f.boxes[b].at
  PROVE  \A r :
           /\ Len(r) = Len(st) /\ \A i \in 1..(Len(st) - 1) : r[i] = st[i]
           /\ r[Len(st)].kind = st[Len(st)].kind
           /\ r[Len(st)].total = st[Len(st)].total - f.boxes[b].size
           => StackIs(f, q, r, EndAround(f, b))
<1> DEFINE l == Len(st)
           end(m) == IF m = 2 THEN U32 - 1 ELSE EndInside(f, q[m - 2])
           size == f.boxes[b].size
<1>1. b \in 1..Len(f.boxes)
  BY ChildOf
<1>2. Len(q) \in Nat /\ \A i \in 1..Len(q) : q[i] \in 1..Len(f.boxes)
  BY PathOf DEF Inside
<1>3. /\ Len(st) = Len(q) + 2
      /\ \A m \in 3..Len(st) : st[m].kind = f.boxes[q[m - 2]].type
      /\ \A m \in 2..Len(st) :
           st[m].total = end(m) - (IF m = Len(st) THEN at ELSE EndAround(f, q[m - 1]))
  BY <1>2, LeftOf
<1>4. st[l].total \in 0..(U32 - 1) /\ size \in 0..(U32 - 1) /\ size <= st[l].total
  BY Room
<1>5. at \in Nat /\ U32 \in Nat /\ EndAround(f, b) = at + size
  BY <1>1, FileOf, WidthAssumption DEF EndAround
<1> SUFFICES ASSUME NEW r, Len(r) = l, \A i \in 1..(l - 1) : r[i] = st[i],
                    r[l].kind = st[l].kind, r[l].total = st[l].total - size
             PROVE  StackIs(f, q, r, EndAround(f, b))
  OBVIOUS
<1>6. r[l].total = st[l].total - size
  OBVIOUS
<1>7. l \in 2..l /\ l \in Nat
  BY <1>2, <1>3
<1>8. end(l) \in Int
  <2>1. l # 2 => l - 2 \in 1..Len(q)
    BY <1>2, <1>3
  <2>2. l # 2 => EndInside(f, q[l - 2]) \in Nat
    BY <1>2, <2>1, EndsOf
  <2> QED BY <1>5, <2>2
<1> HIDE DEF end, size
<1>9. r[l].total = end(l) - EndAround(f, b)
  <2>1. st[l].total = end(l) - at
    BY <1>3, <1>7
  <2>2. size \in Int
    BY <1>4, <1>5
  <2> QED BY <1>5, <1>6, <1>8, <2>1, <2>2
<1>10. ASSUME NEW m \in 3..Len(r) PROVE r[m].kind = f.boxes[q[m - 2]].type
  <2>1. m \in 3..l /\ (m = l \/ m \in 1..(l - 1))
    BY <1>7
  <2>2. r[m].kind = st[m].kind
    BY <2>1
  <2> QED BY <1>3, <2>1, <2>2
<1>11. ASSUME NEW m \in 2..Len(r)
       PROVE  r[m].total = end(m) - (IF m = Len(r) THEN EndAround(f, b) ELSE EndAround(f, q[m - 1]))
  <2>1. CASE m = l
    BY <1>9, <2>1
  <2>2. CASE m # l
    <3>1. m \in 2..l /\ m \in 1..(l - 1)
      BY <1>7, <2>2
    <3>2. r[m] = st[m]
      BY <3>1
    <3> QED BY <1>3, <2>2, <3>1, <3>2
  <2> QED BY <2>1, <2>2
<1>12. Len(r) = Len(q) + 2
  BY <1>3
<1> QED
  BY <1>2, <1>10, <1>11, <1>12, LeftIs DEF end

(* The box b is opened: its own entry is above what is left to the others.  *)
LEMMA Opened ==
  ASSUME NEW f, IsFile(f), WellFormed(f), NEW q, Inside(f, q),
         NEW b \in Children(f, Innermost(q)),
         NEW st, StackIs(f, q, st, EndAround(f, b)),
         NEW r, Len(r) = Len(st) + 1, \A i \in 1..Len(st) : r[i] = st[i],
         r[Len(st) + 1].kind = f.boxes[b].type,
         r[Len(st) + 1].total = (f.boxes[b].size - HeaderSize) % U32
  PROVE  StackIs(f, Append(q, b), r, f.boxes[b].at + HeaderSize)
<1> DEFINE l == Len(st)
           p == Append(q, b)
           next == f.boxes[b].at + HeaderSize
<1>1. b \in 1..Len(f.boxes)
  BY ChildOf
<1>2. Len(q) \in Nat /\ IsPath(f, q)
  BY PathOf DEF Inside
<1>3. /\ l = Len(q) + 2
      /\ \A m \in 3..l : st[m].kind = f.boxes[q[m - 2]].type
      /\ \A m \in 2..l :
           st[m].total = (IF m = 2 THEN U32 - 1 ELSE EndInside(f, q[m - 2]))
                           - (IF m = l THEN EndAround(f, b) ELSE EndAround(f, q[m - 1]))
  BY <1>2, LeftOf
<1>4. Len(p) = Len(q) + 1 /\ (\A i \in 1..Len(q) : p[i] = q[i]) /\ p[Len(q) + 1] = b
  BY <1>2, PathTo
<1> HIDE DEF p
<1>5. r[l + 1].total = EndInside(f, b) - next
  <2>1. /\ f.boxes[b].size \in 0..(U32 - 1) /\ f.boxes[b].at \in Nat
        /\ U32 \in Nat /\ HeaderSize = 8
    BY <1>1, FileOf, WidthAssumption DEF HeaderSize
  <2>2. f.boxes[b].size = 0 \/ f.boxes[b].size >= HeaderSize
    BY <1>1, EndsOf
  <2>3. r[l + 1].total = (IF f.boxes[b].size = 0 THEN U32 ELSE f.boxes[b].size) - HeaderSize
    BY <2>1, <2>2, ContentOf
  <2>4. EndInside(f, b) = f.boxes[b].at + (IF f.boxes[b].size = 0 THEN U32 ELSE f.boxes[b].size)
    BY DEF EndInside
  <2>5. PICK size \in Int : size = IF f.boxes[b].size = 0 THEN U32 ELSE f.boxes[b].size
    BY <2>1
  <2>6. r[l + 1].total = size - 8 /\ EndInside(f, b) = f.boxes[b].at + size
    BY <2>1, <2>3, <2>4, <2>5
  <2>7. next = f.boxes[b].at + 8
    BY <2>1
  <2> HIDE DEF next
  <2> QED BY <2>1, <2>5, <2>6, <2>7
<1> HIDE DEF next
<1>6. ASSUME NEW m \in 3..Len(r) PROVE r[m].kind = f.boxes[p[m - 2]].type
  <2>1. CASE m = l + 1
    <3>1. m - 2 = Len(q) + 1
      BY <1>2, <1>3, <2>1
    <3> QED BY <1>4, <2>1, <3>1
  <2>2. CASE m # l + 1
    <3>1. m \in 3..l /\ m - 2 \in 1..Len(q) /\ m \in 1..l
      BY <1>2, <1>3, <2>2
    <3> QED BY <1>3, <1>4, <3>1
  <2> QED BY <2>1, <2>2
<1>7. ASSUME NEW m \in 2..Len(r)
      PROVE  r[m].total = (IF m = 2 THEN U32 - 1 ELSE EndInside(f, p[m - 2]))
                            - (IF m = Len(r) THEN next ELSE EndAround(f, p[m - 1]))
  <2>1. CASE m = l + 1
    <3>1. m - 2 = Len(q) + 1 /\ m # 2 /\ m = Len(r)
      BY <1>2, <1>3, <2>1
    <3> QED BY <1>4, <1>5, <2>1, <3>1
  <2>2. CASE m # l + 1
    <3>1. m \in 2..l /\ m \in 1..l /\ m # Len(r) /\ (m # 2 => m - 2 \in 1..Len(q))
      BY <1>2, <1>3, <2>2
    <3>2. r[m] = st[m] /\ (m # 2 => p[m - 2] = q[m - 2])
      BY <1>4, <3>1
    <3>3. EndAround(f, p[m - 1]) = IF m = l THEN EndAround(f, b) ELSE EndAround(f, q[m - 1])
      <4>1. CASE m = l
        <5>1. m - 1 = Len(q) + 1
          BY <1>2, <1>3, <4>1
        <5> QED BY <1>4, <4>1, <5>1
      <4>2. CASE m # l
        <5>1. m - 1 \in 1..Len(q)
          BY <1>2, <1>3, <3>1, <4>2
        <5> QED BY <1>4, <4>2, <5>1
      <4> QED BY <4>1, <4>2
    <3> QED BY <1>3, <3>1, <3>2, <3>3
  <2> QED BY <2>1, <2>2
<1>8. Len(p) \in Nat /\ Len(r) = Len(p) + 2
  BY <1>2, <1>3, <1>4
<1>9. StackIs(f, p, r, next)
  BY <1>6, <1>7, <1>8, LeftIs
<1> QED
  BY <1>9 DEF p, next
-----------------------------------------------------------------------------
(* What each step does to a stack that is placed in a well-formed file.      *)
LEMMA Located ==
  ASSUME NEW f, IsFile(f), WellFormed(f), NEW st, IsStack(st), NEW position,
         NEW q, AtBox(f, q, st, position),
         NEW b \in 1..Len(f.boxes), position = f.boxes[b].at
  PROVE  /\ b \in Children(f, Innermost(q)) /\ Inside(f, q) /\ StackIs(f, q, st, position)
         /\ st[Len(st)].kind = KindAround(f, b)
         /\ f.boxes[b].size <= st[Len(st)].total
         /\ (st[Len(st)].total - f.boxes[b].size) % U32 = st[Len(st)].total - f.boxes[b].size
<1>1. Inside(f, q) /\ StackIs(f, q, st, position)
  BY DEF AtBox
<1>2. PICK y \in Children(f, Innermost(q)) : f.boxes[y].at = position
  BY DEF AtBox
<1>3. y \in 1..Len(f.boxes) /\ f.boxes[y].at = f.boxes[b].at
  BY <1>2, ChildOf
<1>4. y = b
  BY <1>3, OneBox
<1>5. b \in Children(f, Innermost(q))
  BY <1>2, <1>4
<1> QED
  BY <1>1, <1>5, Room

(* The box b is descended into ... *)
LEMMA WhenDescended ==
  ASSUME NEW f, IsFile(f), WellFormed(f), NEW st, IsStack(st), NEW position,
         NEW q, AtBox(f, q, st, position),
         NEW b \in 1..Len(f.boxes), position = f.boxes[b].at, IsDescended(f, b),
         NEW s, Len(s) = Len(st), \A i \in 1..(Len(st) - 1) : s[i] = st[i],
         s[Len(st)].kind = st[Len(st)].kind,
         s[Len(st)].total = (st[Len(st)].total - f.boxes[b].size) % U32,
         NEW r, Len(r) = Len(s) + 1, \A i \in 1..Len(s) : r[i] = s[i],
         r[Len(s) + 1].kind = f.boxes[b].type,
         r[Len(s) + 1].total = (f.boxes[b].size - HeaderSize) % U32
  PROVE  AtBox(f, Append(q, b), r, position + HeaderSize)
<1>1. /\ b \in Children(f, Innermost(q)) /\ Inside(f, q) /\ StackIs(f, q, st, position)
      /\ (st[Len(st)].total - f.boxes[b].size) % U32 = st[Len(st)].total - f.boxes[b].size
  BY Located
<1>2. s[Len(st)].total = st[Len(st)].total - f.boxes[b].size
  BY <1>1
<1>3. StackIs(f, q, s, EndAround(f, b))
  BY <1>1, <1>2, RoomTaken
<1>4. StackIs(f, Append(q, b), r, position + HeaderSize)
  BY <1>1, <1>3, Opened
<1>5. /\ Inside(f, Append(q, b))
      /\ \E y \in Children(f, b) : f.boxes[y].at = f.boxes[b].at + HeaderSize
  BY <1>1, Entered
<1>6. Innermost(Append(q, b)) = b
  BY <1>1, PathTo DEF Inside
<1> QED
  BY <1>4, <1>5, <1>6 DEF AtBox

(* ... or opened to be loaded, ... *)
LEMMA WhenOpened ==
  ASSUME NEW f, IsFile(f), WellFormed(f), NEW st, IsStack(st), NEW position,
         NEW q, AtBox(f, q, st, position),
         NEW b \in 1..Len(f.boxes), position = f.boxes[b].at, IsLoaded(f, b),
         NEW s, Len(s) = Len(st), \A i \in 1..(Len(st) - 1) : s[i] = st[i],
         s[Len(st)].kind = st[Len(st)].kind,
         s[Len(st)].total = (st[Len(st)].total - f.boxes[b].size) % U32,
         NEW r, Len(r) = Len(s) + 1, \A i \in 1..Len(s) : r[i] = s[i],
         r[Len(s) + 1].kind = f.boxes[b].type,
         NEW rest, rest = (f.boxes[b].size - HeaderSize) % U32,
         r[Len(s) + 1].total = rest, r[Len(s) + 1].wants = rest
  PROVE  InBox(f, q, b, r, position + HeaderSize)
<1>1. /\ b \in Children(f, Innermost(q)) /\ Inside(f, q) /\ StackIs(f, q, st, position)
      /\ (st[Len(st)].total - f.boxes[b].size) % U32 = st[Len(st)].total - f.boxes[b].size
  BY Located
<1>2. s[Len(st)].total = st[Len(st)].total - f.boxes[b].size
  BY <1>1
<1>3. StackIs(f, q, s, EndAround(f, b))
  BY <1>1, <1>2, RoomTaken
<1>4. StackIs(f, Append(q, b), r, position + HeaderSize)
  BY <1>1, <1>3, Opened
<1>5. End(f, b) <= f.full
  BY <1>1, InContainer
<1>6. r[Len(r)].wants = (f.boxes[b].size - HeaderSize) % U32
  OBVIOUS
<1> QED
  BY <1>1, <1>4, <1>5, <1>6 DEF InBox

(* ... or skipped: the bytes to skip lead to its end. *)
LEMMA WhenSkipped ==
  ASSUME NEW f, IsFile(f), WellFormed(f), NEW st, IsStack(st), NEW position,
         NEW q, AtBox(f, q, st, position), st[Len(st)].kind \in Containers,
         NEW b \in 1..Len(f.boxes), position = f.boxes[b].at,
         NEW s, IsStack(s), Len(s) = Len(st), \A i \in 1..(Len(st) - 1) : s[i] = st[i],
         s[Len(st)].kind = st[Len(st)].kind,
         s[Len(st)].total = (st[Len(st)].total - f.boxes[b].size) % U32,
         NEW rest, rest = (f.boxes[b].size - HeaderSize) % U32,
         NEW end, end = position + HeaderSize + rest
  PROVE  PlacedIn(f, PopEmpty(s), end)
<1>1. /\ b \in Children(f, Innermost(q)) /\ Inside(f, q) /\ StackIs(f, q, st, position)
      /\ (st[Len(st)].total - f.boxes[b].size) % U32 = st[Len(st)].total - f.boxes[b].size
  BY Located
<1>2. s[Len(st)].total = st[Len(st)].total - f.boxes[b].size
  BY <1>1
<1>3. StackIs(f, q, s, EndAround(f, b))
  BY <1>1, <1>2, RoomTaken
<1>4. end = EndInside(f, b)
  BY ContentEnd
<1>5. ASSUME end < f.full
      PROVE  /\ Len(PopEmpty(s)) >= 2
             /\ PopEmpty(s)[Len(PopEmpty(s))].kind \in Containers
             /\ \E r : AtBox(f, r, PopEmpty(s), end)
  <2>1. s[Len(s)].kind \in Containers
    OBVIOUS
  <2> QED BY <1>1, <1>3, <1>4, <1>5, <2>1, AfterBox
<1> QED
  BY <1>5 DEF PlacedIn

(* Without the entry of its last box, a stack is left after that box. *)
LEMMA Closed ==
  ASSUME NEW f, NEW q, Len(q) \in Nat, NEW b, NEW p,
         Len(p) = Len(q) + 1, \A i \in 1..Len(q) : p[i] = q[i], p[Len(q) + 1] = b,
         NEW st, NEW position, StackIs(f, p, st, position),
         NEW s, Len(s) = Len(st) - 1, \A i \in 1..Len(s) : s[i] = st[i]
  PROVE  StackIs(f, q, s, EndAround(f, b))
<1> DEFINE n == Len(q)
<1>1. /\ Len(st) = n + 3
      /\ \A i \in 1..(n + 1) : st[i + 2].kind = f.boxes[p[i]].type
      /\ \A i \in 0..(n + 1) :
           st[i + 2].total = (IF i = 0 THEN U32 - 1 ELSE EndInside(f, p[i]))
                               - (IF i = n + 1 THEN position ELSE EndAround(f, p[i + 1]))
  BY DEF StackIs
<1>2. n \in Nat /\ Len(s) = n + 2
  BY <1>1
<1>3. ASSUME NEW i \in 1..n PROVE s[i + 2].kind = f.boxes[q[i]].type
  <2>1. i \in 1..(n + 1) /\ i + 2 \in 1..Len(s)
    BY <1>2
  <2> QED BY <1>1, <2>1
<1>4. ASSUME NEW i \in 0..n
      PROVE  s[i + 2].total = (IF i = 0 THEN U32 - 1 ELSE EndInside(f, q[i]))
                                - (IF i = n THEN EndAround(f, b) ELSE EndAround(f, q[i + 1]))
  <2>1. /\ i \in 0..(n + 1) /\ i # n + 1 /\ i + 2 \in 1..Len(s)
        /\ i # 0 => i \in 1..n
        /\ i # n => i + 1 \in 1..n
    BY <1>2
  <2>2. s[i + 2].total = (IF i = 0 THEN U32 - 1 ELSE EndInside(f, p[i])) - EndAround(f, p[i + 1])
    BY <1>1, <2>1
  <2>3. i # 0 => p[i] = q[i]
    BY <2>1
  <2>4. p[i + 1] = IF i = n THEN b ELSE q[i + 1]
    BY <2>1
  <2> QED BY <2>2, <2>3, <2>4
<1> QED
  BY <1>2, <1>3, <1>4 DEF StackIs

(* A box is loaded: its entry goes, and its content leads to its end. *)
LEMMA WhenLoaded ==
  ASSUME NEW f, IsFile(f), WellFormed(f), NEW st, IsStack(st), Len(st) >= 2,
         NEW q, NEW b, NEW position, InBox(f, q, b, st, position),
         NEW s, IsStack(s), Len(s) = Len(st) - 1, \A i \in 1..Len(s) : s[i] = st[i],
         NEW end, end = position + st[Len(st)].wants
  PROVE  PlacedIn(f, PopEmpty(s), end)
<1>1. /\ Inside(f, q) /\ b \in Children(f, Innermost(q))
      /\ StackIs(f, Append(q, b), st, position)
      /\ f.boxes[b].at + HeaderSize = position
      /\ st[Len(st)].wants = (f.boxes[b].size - HeaderSize) % U32
  BY DEF InBox
<1>2. b \in 1..Len(f.boxes)
  BY <1>1, ChildOf
<1>3. end = EndInside(f, b)
  <2>1. PICK at : at = f.boxes[b].at
    OBVIOUS
  <2>2. at + HeaderSize + st[Len(st)].wants = EndInside(f, b)
    BY <1>1, <1>2, <2>1, ContentEnd
  <2>3. end = at + HeaderSize + st[Len(st)].wants
    BY <1>1, <2>1, Zenon
  <2> QED BY <2>2, <2>3
<1>4. StackIs(f, q, s, EndAround(f, b))
  <2>1. IsPath(f, q) /\ Len(q) \in Nat
    BY <1>1, PathOf DEF Inside
  <2>2. PICK p : p = Append(q, b)
    OBVIOUS
  <2>3. Len(p) = Len(q) + 1 /\ (\A i \in 1..Len(q) : p[i] = q[i]) /\ p[Len(q) + 1] = b
    BY <1>1, <2>1, <2>2, PathTo
  <2>4. Len(p) \in Nat /\ StackIs(f, p, st, position)
    BY <1>1, <2>1, <2>2, <2>3
  <2> QED BY <2>1, <2>3, <2>4, Closed
<1>5. s[Len(s)].kind \in Containers
  <2>1. PICK l \in Nat : l = Len(st)
    BY TopOf
  <2>2. PICK p : p = Append(q, b)
    OBVIOUS
  <2>3. Len(q) \in Nat /\ IsPath(f, q)
    BY <1>1, PathOf DEF Inside
  <2>4. Len(p) = Len(q) + 1
    BY <1>1, <2>2, <2>3, PathTo
  <2>5. Len(st) = Len(p) + 2
    <3>1. StackIs(f, p, st, position)
      BY <1>1, <2>2
    <3> QED BY <3>1 DEF StackIs
  <2>6. l - 1 \in 2..l /\ l - 1 < l /\ Len(s) = l - 1 /\ Len(s) \in 1..Len(s)
    BY <2>1, <2>3, <2>4, <2>5
  <2>7. st[l - 1].kind \in Containers
    BY <2>1, <2>6 DEF IsStack
  <2> QED BY <2>6, <2>7
<1>6. ASSUME end < f.full
      PROVE  /\ Len(PopEmpty(s)) >= 2
             /\ PopEmpty(s)[Len(PopEmpty(s))].kind \in Containers
             /\ \E r : AtBox(f, r, PopEmpty(s), end)
  BY <1>1, <1>3, <1>4, <1>5, <1>6, AfterBox
<1> QED
  BY <1>6 DEF PlacedIn
-----------------------------------------------------------------------------
(* The path of a box is the path that leads to it. *)
LEMMA PathExists ==
  ASSUME NEW f, IsFile(f)
  PROVE  \E g : g = [c \in 0..Len(f.boxes) |->
                       IF c = 0 THEN <<>> ELSE Append(g[f.boxes[c].parent], c)]
<1> DEFINE Right(n, g) ==
             /\ g \in [0..n -> Seq(Nat)]
             /\ \A c \in 0..n :
                  g[c] = IF c = 0 THEN <<>> ELSE Append(g[f.boxes[c].parent], c)
           P == {n \in Nat : n <= Len(f.boxes) => \E g : Right(n, g)}
<1>1. 0 \in P
  <2>1. Right(0, [c \in 0..0 |-> <<>>])
    OBVIOUS
  <2> QED BY <2>1
<1>2. ASSUME NEW n \in Nat, n \in P PROVE n + 1 \in P
  <2> SUFFICES ASSUME n + 1 <= Len(f.boxes) PROVE \E g : Right(n + 1, g)
    <3> HIDE DEF Right
    <3>1. n + 1 \in Nat
      OBVIOUS
    <3> QED BY <3>1
  <2>1. Len(f.boxes) \in Nat
    BY FileOf
  <2>2. PICK g : Right(n, g)
    BY <1>2, <2>1
  <2> DEFINE x == Append(g[f.boxes[n + 1].parent], n + 1)
             h == [c \in 0..(n + 1) |-> IF c = n + 1 THEN x ELSE g[c]]
  <2> HIDE DEF x
  <2>3. ASSUME NEW c \in 0..n PROVE h[c] = g[c] /\ c \in 0..(n + 1)
    OBVIOUS
  <2>4. h[n + 1] = x
    <3>1. n + 1 \in 0..(n + 1)
      OBVIOUS
    <3> QED BY <3>1
  <2>5. h \in [0..(n + 1) -> Seq(Nat)]
    <3>1. f.boxes[n + 1].parent \in 0..n
      <4>1. n + 1 \in 1..Len(f.boxes)
        BY <2>1
      <4>2. f.boxes[n + 1].parent \in Nat /\ f.boxes[n + 1].parent < n + 1
        BY <4>1, FileOf
      <4> QED BY <4>2
    <3>2. g[f.boxes[n + 1].parent] \in Seq(Nat)
      BY <2>2, <3>1
    <3>3. x \in Seq(Nat)
      BY <3>2 DEF x
    <3>4. \A c \in 0..(n + 1) : c # n + 1 => g[c] \in Seq(Nat)
      BY <2>2
    <3> QED BY <3>3, <3>4
  <2> HIDE DEF h
  <2>6. ASSUME NEW c \in 0..(n + 1)
        PROVE  h[c] = IF c = 0 THEN <<>> ELSE Append(h[f.boxes[c].parent], c)
    <3>1. CASE c = 0
      <4>1. 0 \in 0..n /\ h[c] = g[0]
        BY <2>3, <3>1
      <4> QED BY <2>2, <3>1, <4>1
    <3>2. CASE c # 0
      <4>1. c \in 1..Len(f.boxes)
        BY <2>1, <3>2
      <4>2. f.boxes[c].parent \in Nat /\ f.boxes[c].parent < c
        BY <4>1, FileOf
      <4>3. f.boxes[c].parent \in 0..n
        BY <4>2
      <4>4. h[f.boxes[c].parent] = g[f.boxes[c].parent]
        BY <2>3, <4>3
      <4>5. CASE c = n + 1
        BY <2>4, <3>2, <4>4, <4>5 DEF x
      <4>6. CASE c # n + 1
        <5>1. c \in 0..n
          BY <4>6
        <5>2. g[c] = Append(g[f.boxes[c].parent], c)
          BY <2>2, <3>2, <5>1
        <5> QED BY <2>3, <3>2, <4>4, <5>1, <5>2
      <4> QED BY <4>5, <4>6
    <3> QED BY <3>1, <3>2
  <2>7. Right(n + 1, h)
    BY <2>5, <2>6
  <2> QED BY <2>7
<1> HIDE DEF P
<1>3. Len(f.boxes) \in P
  <2>1. \A n \in Nat : n \in P
    BY <1>1, <1>2, Induction
  <2> QED BY <2>1, FileOf
<1>4. PICK g : Right(Len(f.boxes), g)
  <2>1. Len(f.boxes) \in Nat /\ Len(f.boxes) <= Len(f.boxes)
    BY FileOf
  <2> QED BY <1>3, <2>1 DEF P
<1>5. g = [c \in 0..Len(f.boxes) |-> IF c = 0 THEN <<>> ELSE Append(g[f.boxes[c].parent], c)]
  BY <1>4
<1> QED
  BY <1>5

LEMMA PathIs ==
  ASSUME NEW f, IsFile(f), NEW q, IsPath(f, q)
  PROVE  q = Path(f, Innermost(q))
<1> DEFINE path == CHOOSE g : g = [c \in 0..Len(f.boxes) |->
                       IF c = 0 THEN <<>> ELSE Append(g[f.boxes[c].parent], c)]
<1>1. path = [c \in 0..Len(f.boxes) |->
                       IF c = 0 THEN <<>> ELSE Append(path[f.boxes[c].parent], c)]
  BY PathExists
<1>2. \A b : Path(f, b) = path[b]
  BY DEF Path
<1> HIDE DEF path
<1>3. \A c \in 0..Len(f.boxes) :
        path[c] = IF c = 0 THEN <<>> ELSE Append(path[f.boxes[c].parent], c)
  BY <1>1
<1>4. /\ q \in Seq(1..Len(f.boxes)) /\ Len(q) \in Nat /\ Len(f.boxes) \in Nat
      /\ \A i \in 1..Len(q) : q[i] \in 1..Len(f.boxes)
      /\ \A i \in 1..Len(q) : f.boxes[q[i]].parent = IF i = 1 THEN 0 ELSE q[i - 1]
  BY PathOf, FileOf DEF IsPath
<1> DEFINE last(n) == IF n = 0 THEN 0 ELSE q[n]
           P == {n \in Nat : n <= Len(q) => path[last(n)] = SubSeq(q, 1, n)}
<1>5. 0 \in P
  <2>1. path[0] = <<>> /\ SubSeq(q, 1, 0) = <<>>
    BY <1>3, <1>4
  <2> QED BY <2>1
<1>6. ASSUME NEW n \in Nat, n \in P PROVE n + 1 \in P
  <2> SUFFICES ASSUME n + 1 <= Len(q) PROVE path[last(n + 1)] = SubSeq(q, 1, n + 1)
    OBVIOUS
  <2>1. path[last(n)] = SubSeq(q, 1, n)
    BY <1>4, <1>6
  <2>2. n + 1 \in 1..Len(q) /\ (n + 1 = 1 <=> n = 0) /\ (n + 1) - 1 = n /\ n + 1 # 0
    BY <1>4
  <2>3. q[n + 1] \in 1..Len(f.boxes) /\ f.boxes[q[n + 1]].parent = last(n)
    BY <1>4, <2>2
  <2>4. path[q[n + 1]] = Append(path[last(n)], q[n + 1])
    <3>1. q[n + 1] \in 0..Len(f.boxes) /\ q[n + 1] # 0
      BY <2>3
    <3> QED BY <1>3, <2>3, <3>1
  <2>5. Append(SubSeq(q, 1, n), q[n + 1]) = SubSeq(q, 1, n + 1)
    BY <1>4, <2>2
  <2> QED BY <2>1, <2>2, <2>4, <2>5
<1> HIDE DEF P
<1>7. Len(q) \in P
  BY <1>4, <1>5, <1>6, Induction
<1>8. path[last(Len(q))] = SubSeq(q, 1, Len(q))
  BY <1>4, <1>7 DEF P
<1>9. last(Len(q)) = Innermost(q) /\ SubSeq(q, 1, Len(q)) = q
  BY <1>4 DEF Innermost
<1> QED
  BY <1>2, <1>8, <1>9
-----------------------------------------------------------------------------
(* Where boxes lie. *)
LEMMA BoxOf ==
  ASSUME NEW f, IsFile(f), WellFormed(f), NEW b \in 1..Len(f.boxes)
  PROVE  /\ f.boxes[b].at \in Nat /\ End(f, b) \in Nat /\ f.boxes[b].at + 8 <= End(f, b)
         /\ f.full \in Nat /\ Len(f.boxes) \in Nat
         /\ \A c \in 1..Len(f.boxes) : c < b => f.boxes[c].at < f.boxes[b].at
BY EndsOf, FileOf DEF HeaderSize, IsFile

(* A box among those of its parent, ... *)
LEMMA AmongOthers ==
  ASSUME NEW f, IsFile(f), WellFormed(f), NEW b \in 1..Len(f.boxes),
         NEW e, e = f.boxes[b].parent
  PROVE  /\ e \in Nat /\ e < b /\ b \in Children(f, e)
         /\ e # 0 => e \in 1..Len(f.boxes) /\ IsDescended(f, e)
         /\ Tile(f, e, FirstIn(f, e), EndIn(f, e))
         /\ FirstIn(f, e) \in Nat /\ EndIn(f, e) \in Nat
         /\ FirstIn(f, e) <= f.boxes[b].at /\ End(f, b) <= EndIn(f, e)
<1>1. e \in Nat /\ e < b /\ b \in Children(f, e) /\ Len(f.boxes) \in Nat
  BY FileOf DEF Children
<1>2. e # 0 => e \in 1..Len(f.boxes) /\ IsDescended(f, e)
  BY <1>1 DEF WellFormed
<1>3. Tile(f, e, FirstIn(f, e), EndIn(f, e))
  <2>1. CASE e = 0
    BY <2>1 DEF WellFormed, FirstIn, EndIn
  <2>2. CASE e # 0
    BY <1>2, <2>2 DEF WellFormed, FirstIn, EndIn
  <2> QED BY <2>1, <2>2
<1>4. FirstIn(f, e) \in Nat /\ EndIn(f, e) \in Nat
  <2>1. CASE e = 0
    BY <2>1, FileOf DEF FirstIn, EndIn
  <2>2. CASE e # 0
    BY <1>2, <2>2, BoxOf DEF FirstIn, EndIn, HeaderSize
  <2> QED BY <2>1, <2>2
<1>5. End(f, b) <= EndIn(f, e)
  BY <1>1, <1>3, <1>4, ChildFits
<1>6. FirstIn(f, e) <= f.boxes[b].at
  <2>1. CASE e = 0
    BY <2>1, BoxOf DEF FirstIn
  <2>2. CASE e # 0
    <3>1. PICK at \in Nat, end \in Nat : at = f.boxes[b].at /\ end = End(f, b) /\ at + 8 <= end
      BY BoxOf
    <3>2. PICK first \in Nat, last \in Nat : first = FirstIn(f, e) /\ last = EndIn(f, e)
      BY <1>4
    <3>3. first < at + 8 /\ end <= last
      <4>1. f.boxes[e].at < f.boxes[b].at /\ f.boxes[e].at \in Nat
        BY <1>1, <1>2, <2>2, BoxOf
      <4>2. first = f.boxes[e].at + 8
        BY <2>2, <3>2 DEF FirstIn, HeaderSize
      <4> QED BY <1>5, <3>1, <3>2, <4>1, <4>2, SMTT(60)
    <3>4. PICK y \in Children(f, e) : f.boxes[y].at = first
      <4>1. first # last
        BY <3>1, <3>3
      <4> QED BY <1>3, <3>2, <4>1 DEF Tile
    <3>5. y \in 1..Len(f.boxes)
      BY <3>4, ChildOf
    <3>6. ~(b < y)
      <4>1. b < y => end <= first
        BY <1>1, <1>3, <3>1, <3>4 DEF Tile
      <4> QED BY <3>1, <3>3, <4>1
    <3>7. y = b \/ y < b
      BY <3>5, <3>6
    <3> QED BY <3>1, <3>2, <3>4, <3>5, <3>7, BoxOf
  <2> QED BY <2>1, <2>2
<1> QED
  BY <1>1, <1>2, <1>3, <1>4, <1>5, <1>6

(* ... all of them in the file. *)
LEMMA WithinFile ==
  ASSUME NEW f, IsFile(f), WellFormed(f), NEW b \in 1..Len(f.boxes)
  PROVE  End(f, b) <= f.full
<1> DEFINE T == {x \in 1..Len(f.boxes) : ~(End(f, x) <= f.full)}
<1> SUFFICES ASSUME T # {} PROVE FALSE
  OBVIOUS
<1>1. PICK x \in T : \A y \in T : x <= y
  <2>1. T \subseteq Nat
    OBVIOUS
  <2> HIDE DEF T
  <2> QED BY <2>1, LeastElement
<1>2. x \in 1..Len(f.boxes) /\ ~(End(f, x) <= f.full)
  OBVIOUS
<1>3. PICK e : e = f.boxes[x].parent
  OBVIOUS
<1>4. /\ e \in Nat /\ e < x /\ (e # 0 => e \in 1..Len(f.boxes))
      /\ End(f, x) <= EndIn(f, e) /\ EndIn(f, e) \in Nat
  BY <1>2, <1>3, AmongOthers
<1>5. EndIn(f, e) <= f.full
  <2>1. CASE e = 0
    BY <1>4, <2>1 DEF EndIn
  <2>2. CASE e # 0
    <3>1. e \notin T
      BY <1>1, <1>2, <1>4
    <3> QED BY <1>4, <2>2, <3>1 DEF EndIn
  <2> QED BY <2>1, <2>2
<1>6. End(f, x) \in Nat /\ f.full \in Nat
  BY <1>2, BoxOf
<1> QED
  BY <1>2, <1>4, <1>5, <1>6

(* Of two boxes, the one that begins later begins after the other one, or    *)
(* in it, after its header, and then the other one is descended into.        *)
After(f, c, d) == End(f, c) <= f.boxes[d].at
In(f, c, d) == IsDescended(f, c) /\ f.boxes[c].at + 8 <= f.boxes[d].at /\ End(f, d) <= End(f, c)

LEMMA Apart ==
  ASSUME NEW f, IsFile(f), WellFormed(f),
         NEW d \in 1..Len(f.boxes), NEW c \in 1..Len(f.boxes), c < d
  PROVE  After(f, c, d) \/ In(f, c, d)
<1> DEFINE T == {y \in 1..Len(f.boxes) :
                   \E x \in 1..Len(f.boxes) : x < y /\ ~After(f, x, y) /\ ~In(f, x, y)}
<1> SUFFICES ASSUME T # {} PROVE FALSE
  OBVIOUS
<1>1. PICK y \in T : \A z \in T : y <= z
  <2>1. T \subseteq Nat
    OBVIOUS
  <2> HIDE DEF T
  <2> QED BY <2>1, LeastElement
<1>2. y \in 1..Len(f.boxes)
  OBVIOUS
<1>3. PICK x \in 1..Len(f.boxes) : x < y /\ ~After(f, x, y) /\ ~In(f, x, y)
  OBVIOUS
<1>4. ASSUME NEW v \in 1..Len(f.boxes), NEW u \in 1..Len(f.boxes), u < v, v < y
      PROVE  After(f, u, v) \/ In(f, u, v)
  <2>1. v \notin T
    BY <1>1, <1>2, <1>4
  <2> QED BY <1>4, <2>1
<1> HIDE DEF T
<1>5. PICK e : e = f.boxes[y].parent
  OBVIOUS
<1>6. /\ e \in Nat /\ e < y /\ y \in Children(f, e)
      /\ e # 0 => e \in 1..Len(f.boxes) /\ IsDescended(f, e)
      /\ Tile(f, e, FirstIn(f, e), EndIn(f, e))
      /\ FirstIn(f, e) \in Nat /\ EndIn(f, e) \in Nat
      /\ FirstIn(f, e) <= f.boxes[y].at /\ End(f, y) <= EndIn(f, e)
  BY <1>2, <1>5, AmongOthers
<1>7. /\ f.boxes[x].at \in Nat /\ End(f, x) \in Nat /\ f.boxes[x].at + 8 <= End(f, x)
      /\ f.boxes[y].at \in Nat /\ End(f, y) \in Nat /\ f.boxes[y].at + 8 <= End(f, y)
      /\ f.boxes[x].at < f.boxes[y].at /\ End(f, x) > f.boxes[y].at
  BY <1>2, <1>3, BoxOf DEF After
<1>8. CASE x = e
  <2>1. x # 0 /\ IsDescended(f, x)
    BY <1>3, <1>6, <1>8
  <2>2. FirstIn(f, e) = f.boxes[x].at + 8 /\ EndIn(f, e) = End(f, x)
    BY <1>8, <2>1 DEF FirstIn, EndIn, HeaderSize
  <2> QED BY <1>3, <1>6, <2>1, <2>2 DEF In
<1>9. CASE x < e
  <2>1. e # 0 /\ e \in 1..Len(f.boxes)
    BY <1>3, <1>6, <1>9
  <2>2. After(f, x, e) \/ In(f, x, e)
    BY <1>4, <1>6, <1>9, <2>1
  <2>3. FirstIn(f, e) = f.boxes[e].at + 8 /\ EndIn(f, e) = End(f, e)
    BY <2>1 DEF FirstIn, EndIn, HeaderSize
  <2>4. f.boxes[e].at \in Nat /\ End(f, e) \in Nat
    BY <2>1, BoxOf
  <2>5. f.boxes[e].at + 8 <= f.boxes[y].at /\ End(f, y) <= End(f, e)
    BY <1>6, <2>3
  <2>6. In(f, x, e)
    <3>1. ~(End(f, x) <= f.boxes[e].at)
      BY <1>7, <2>4, <2>5, SMTT(60)
    <3> QED BY <2>2, <3>1 DEF After
  <2>7. f.boxes[x].at + 8 <= f.boxes[y].at /\ End(f, y) <= End(f, x) /\ IsDescended(f, x)
    <3>1. /\ IsDescended(f, x) /\ f.boxes[x].at + 8 <= f.boxes[e].at
          /\ End(f, e) <= End(f, x)
      BY <2>6 DEF In
    <3>2. \A i, j, k \in Nat : i + 8 <= j /\ j + 8 <= k => i + 8 <= k
      OBVIOUS
    <3>3. \A i, j, k \in Nat : i <= j /\ j <= k => i <= k
      OBVIOUS
    <3>4. f.boxes[x].at + 8 <= f.boxes[y].at
      BY <1>7, <2>4, <2>5, <3>1, <3>2, ZenonT(60)
    <3>5. End(f, y) <= End(f, x)
      BY <1>7, <2>4, <2>5, <3>1, <3>3, ZenonT(60)
    <3> QED BY <3>1, <3>4, <3>5
  <2> QED BY <1>3, <2>7 DEF In
<1>10. CASE e < x
  <2>1. FirstIn(f, e) <= f.boxes[x].at
    <3>1. CASE e = 0
      BY <1>7, <3>1 DEF FirstIn
    <3>2. CASE e # 0
      <4>1. After(f, e, x) \/ In(f, e, x)
        BY <1>3, <1>4, <1>6, <1>10, <3>2
      <4>2. FirstIn(f, e) = f.boxes[e].at + 8 /\ EndIn(f, e) = End(f, e)
        BY <3>2 DEF FirstIn, EndIn, HeaderSize
      <4>3. ~After(f, e, x)
        BY <1>6, <1>7, <4>2, SMTT(60) DEF After
      <4> QED BY <4>1, <4>2, <4>3 DEF In
    <3> QED BY <3>1, <3>2
  <2> DEFINE K == {k \in Children(f, e) : k <= x}
  <2>2. K # {}
    <3>1. FirstIn(f, e) # EndIn(f, e)
      BY <1>6, <1>7, <2>1
    <3>2. PICK k \in Children(f, e) : f.boxes[k].at = FirstIn(f, e)
      BY <1>6, <3>1 DEF Tile
    <3>3. k \in 1..Len(f.boxes)
      BY <3>2, ChildOf
    <3>4. ~(x < k)
      <4>1. x < k => f.boxes[x].at < f.boxes[k].at
        BY <1>3, <3>3, BoxOf
      <4> QED BY <1>6, <1>7, <2>1, <3>2, <4>1
    <3>5. k <= x
      BY <3>3, <3>4
    <3> QED BY <3>2, <3>5
  <2>3. PICK k \in K : \A z \in K : z <= k
    <3>1. K \subseteq Nat /\ (\A z \in K : z <= x) /\ x \in Nat
      BY DEF Children
    <3> HIDE DEF K
    <3> QED BY <2>2, <3>1, GreatestElement
  <2>4. k \in Children(f, e) /\ k <= x /\ k \in 1..Len(f.boxes)
    BY ChildOf
  <2>5. f.boxes[k].at \in Nat /\ End(f, k) \in Nat /\ f.boxes[k].at + 8 <= End(f, k)
    BY <2>4, BoxOf
  <2>6. End(f, k) <= f.boxes[y].at
    <3>1. k < y
      BY <1>2, <1>3, <2>4
    <3> QED BY <1>6, <2>4, <3>1 DEF Tile
  <2>7. End(f, k) > f.boxes[x].at
    <3> SUFFICES ASSUME End(f, k) <= f.boxes[x].at PROVE FALSE
      BY <1>7, <2>5
    <3>1. End(f, k) # EndIn(f, e)
      BY <1>6, <1>7, <2>5, <2>6, SMTT(60)
    <3>2. PICK z \in Children(f, e) : f.boxes[z].at = End(f, k)
      <4>1. End(f, k) \in {End(f, b) : b \in Children(f, e)}
        BY <2>4
      <4> QED BY <1>6, <3>1, <4>1 DEF Tile
    <3>3. z \in 1..Len(f.boxes)
      BY <3>2, ChildOf
    <3>4. ~(x < z)
      <4>1. x < z => f.boxes[x].at < f.boxes[z].at
        BY <1>3, <3>3, BoxOf
      <4> QED BY <1>7, <2>5, <3>2, <4>1
    <3>5. z \in K
      BY <3>2, <3>3, <3>4
    <3>6. z <= k
      BY <2>3, <3>5
    <3>7. ~(z < k) /\ z # k
      <4>1. z < k => f.boxes[z].at < f.boxes[k].at
        BY <2>4, <3>3, BoxOf
      <4> QED BY <2>5, <3>2, <4>1
    <3> QED BY <2>4, <3>3, <3>6, <3>7
  <2> HIDE DEF K
  <2>8. CASE k = x
    BY <1>7, <2>6, <2>8
  <2>9. CASE k # x
    <3>1. k < x
      BY <2>4, <2>9
    <3>2. After(f, k, x) \/ In(f, k, x)
      BY <1>3, <1>4, <2>4, <3>1
    <3>3. ~After(f, k, x)
      BY <1>7, <2>5, <2>7 DEF After
    <3>4. End(f, x) <= End(f, k)
      BY <3>2, <3>3 DEF In
    <3> QED BY <1>7, <2>5, <2>6, <3>4
  <2> QED BY <2>8, <2>9
<1> QED
  BY <1>3, <1>6, <1>8, <1>9, <1>10
-----------------------------------------------------------------------------
(* Tracks. *)
LEMMA TrakInMoov ==
  ASSUME NEW f, IsFile(f), WellFormed(f), NEW d \in 1..Len(f.boxes), IsTrak(f, d)
  PROVE  \E m \in 1..Len(f.boxes) :
           d \in Children(f, m) /\ m < d /\ m \in Children(f, 0) /\ End(f, d) <= End(f, m)
<1>1. f.boxes[d].type = "trak" /\ Descends(KindAround(f, d), "trak")
  BY DEF IsTrak, IsDescended
<1>2. KindAround(f, d) = "moov"
  BY <1>1 DEF Descends
<1>3. PICK m : m = f.boxes[d].parent
  OBVIOUS
<1>4. m # 0 /\ f.boxes[m].type = "moov"
  BY <1>2, <1>3 DEF KindAround
<1>5. /\ m \in 1..Len(f.boxes) /\ m < d /\ d \in Children(f, m) /\ IsDescended(f, m)
      /\ End(f, d) <= EndIn(f, m)
  BY <1>3, <1>4, AmongOthers
<1>6. EndIn(f, m) = End(f, m)
  BY <1>4 DEF EndIn
<1>7. KindAround(f, m) = "top"
  BY <1>4, <1>5 DEF IsDescended, Descends
<1>8. f.boxes[m].parent = 0
  <2> SUFFICES ASSUME f.boxes[m].parent # 0 PROVE FALSE
    OBVIOUS
  <2>1. PICK e : e = f.boxes[m].parent
    OBVIOUS
  <2>2. IsDescended(f, e) /\ f.boxes[e].type = "top"
    BY <1>5, <1>7, <2>1, AmongOthers DEF KindAround
  <2> QED BY <2>2 DEF IsDescended, Descends
<1> QED
  BY <1>5, <1>6, <1>8 DEF Children

(* Traks are one after the other. *)
LEMMA TraksApart ==
  ASSUME NEW f, IsFile(f), WellFormed(f), NEW c \in 1..Len(f.boxes), NEW d \in 1..Len(f.boxes),
         IsTrak(f, c), IsTrak(f, d), c < d
  PROVE  End(f, c) <= f.boxes[d].at
<1>1. PICK n \in 1..Len(f.boxes) :
        c \in Children(f, n) /\ n < c /\ n \in Children(f, 0) /\ End(f, c) <= End(f, n)
  BY TrakInMoov
<1>2. PICK m \in 1..Len(f.boxes) :
        d \in Children(f, m) /\ m < d /\ m \in Children(f, 0) /\ End(f, d) <= End(f, m)
  BY TrakInMoov
<1>3. /\ f.boxes[c].at \in Nat /\ f.boxes[d].at \in Nat /\ f.boxes[c].at < f.boxes[d].at
      /\ End(f, c) \in Nat /\ End(f, d) \in Nat /\ f.boxes[d].at + 8 <= End(f, d)
  BY BoxOf
<1>4. /\ f.boxes[n].at \in Nat /\ f.boxes[n].at < f.boxes[c].at /\ End(f, n) \in Nat
      /\ f.boxes[m].at \in Nat /\ f.boxes[m].at < f.boxes[d].at /\ End(f, m) \in Nat
  BY <1>1, <1>2, BoxOf
<1>5. CASE n = m
  <2>1. Tile(f, n, FirstIn(f, n), EndIn(f, n))
    <3>1. n = f.boxes[c].parent
      BY <1>1, ChildOf
    <3> QED BY <3>1, AmongOthers
  <2> QED BY <1>1, <1>2, <1>5, <2>1 DEF Tile
<1>6. Tile(f, 0, 0, f.full)
  BY DEF WellFormed
<1>7. CASE n < m
  <2>1. End(f, n) <= f.boxes[m].at
    BY <1>1, <1>2, <1>6, <1>7 DEF Tile
  <2> QED BY <1>1, <1>3, <1>4, <2>1, SMTT(60)
<1>8. CASE m < n
  <2>1. End(f, m) <= f.boxes[n].at
    BY <1>1, <1>2, <1>6, <1>8 DEF Tile
  <2> QED BY <1>2, <1>3, <1>4, <2>1, SMTT(60)
<1> QED
  BY <1>5, <1>7, <1>8

(* The boxes of a path are around the next one. *)
LEMMA Around ==
  ASSUME NEW f, IsFile(f), WellFormed(f), NEW q, IsPath(f, q),
         NEW b \in Children(f, Innermost(q)), NEW i \in 1..Len(q)
  PROVE  q[i] \in 1..Len(f.boxes) /\ q[i] < b /\ End(f, b) <= End(f, q[i])
<1>1. /\ Len(q) \in Nat /\ \A j \in 1..Len(q) : q[j] \in 1..Len(f.boxes)
      /\ Len(q) # 0 => Innermost(q) = q[Len(q)]
      /\ \A j \in 1..Len(q) : f.boxes[q[j]].parent = IF j = 1 THEN 0 ELSE q[j - 1]
  BY PathOf DEF IsPath
<1>2. b \in 1..Len(f.boxes) /\ f.boxes[b].parent = Innermost(q)
  BY ChildOf
<1> DEFINE l == Len(q)
           Fine(j) == q[j] < b /\ End(f, b) <= End(f, q[j])
           P == {d \in Nat : l - d >= 1 => Fine(l - d)}
<1>3. ASSUME NEW x \in 1..Len(f.boxes), NEW e, e = f.boxes[x].parent, e # 0
      PROVE  e < x /\ End(f, x) <= End(f, e)
  <2>1. e < x /\ End(f, x) <= EndIn(f, e)
    BY <1>3, AmongOthers
  <2> QED BY <1>3, <2>1 DEF EndIn
<1>4. 0 \in P
  <2> SUFFICES ASSUME l >= 1 PROVE Fine(l)
    BY <1>1
  <2>1. l \in 1..l /\ l # 0
    BY <1>1
  <2>2. q[l] \in 1..Len(f.boxes) /\ q[l] = f.boxes[b].parent /\ q[l] # 0
    BY <1>1, <1>2, <2>1
  <2> QED BY <1>2, <1>3, <2>2
<1>5. ASSUME NEW d \in Nat, d \in P PROVE d + 1 \in P
  <2> SUFFICES ASSUME l - (d + 1) >= 1 PROVE Fine(l - (d + 1))
    OBVIOUS
  <2>1. PICK j \in Int : j = l - (d + 1)
    <3> HIDE DEF P, Fine
    <3>1. PICK n \in Nat : n = l
      BY <1>1
    <3>2. n - (d + 1) \in Int
      OBVIOUS
    <3> QED BY <3>1, <3>2
  <2>2. j \in 1..l /\ j + 1 \in 1..l /\ j + 1 = l - d /\ j + 1 >= 1 /\ j + 1 # 1 /\ (j + 1) - 1 = j
    BY <1>1, <2>1
  <2>3. Fine(j + 1)
    BY <1>5, <2>2
  <2>4. q[j] \in 1..Len(f.boxes) /\ q[j + 1] \in 1..Len(f.boxes)
    BY <1>1, <2>2
  <2>5. q[j] = f.boxes[q[j + 1]].parent /\ q[j] # 0
    BY <1>1, <2>2, <2>4
  <2>6. q[j] < q[j + 1] /\ End(f, q[j + 1]) <= End(f, q[j])
    BY <1>3, <2>4, <2>5
  <2>7. End(f, b) \in Nat /\ End(f, q[j]) \in Nat /\ End(f, q[j + 1]) \in Nat
    BY <1>2, <2>4, BoxOf
  <2>8. q[j] < b
    BY <1>2, <2>3, <2>4, <2>6
  <2>9. End(f, b) <= End(f, q[j])
    BY <2>3, <2>6, <2>7
  <2> QED BY <2>1, <2>8, <2>9
<1> HIDE DEF P
<1>6. \A d \in Nat : d \in P
  BY <1>4, <1>5, Induction
<1>7. l - i \in Nat /\ l - (l - i) = i /\ i >= 1
  <2>1. l \in Nat
    BY <1>1
  <2> HIDE DEF l
  <2>2. i \in 1..l
    BY DEF l
  <2> QED BY <2>1, <2>2
<1>8. Fine(i)
  <2>1. l - i \in P
    BY <1>6, <1>7
  <2> QED BY <1>7, <2>1 DEF P
<1> QED
  BY <1>1, <1>8

(* A box to load is in one trak, the second box of its path. *)
LEMMA TrackOnPath ==
  ASSUME NEW f, IsFile(f), WellFormed(f), NEW q, Inside(f, q),
         NEW b \in Children(f, Innermost(q)), IsLoaded(f, b)
  PROVE  /\ 2 \in 1..Len(q) /\ IsTrak(f, q[2])
         /\ TrackOf(f, b) = Cardinality(TraksTo(f, q[2]))
<1>1. /\ IsPath(f, q) /\ Len(q) \in Nat /\ \A i \in 1..Len(q) : q[i] \in 1..Len(f.boxes)
      /\ \A i \in 1..Len(q) : IsDescended(f, q[i])
      /\ \A i \in 1..Len(q) : f.boxes[q[i]].parent = IF i = 1 THEN 0 ELSE q[i - 1]
  BY PathOf DEF Inside, IsPath
<1>2. b \in 1..Len(f.boxes) /\ f.boxes[b].type # "trak"
  BY ChildOf DEF IsLoaded, Loads
<1>3. KindAround(f, b) = IF Len(q) = 0 THEN "top" ELSE f.boxes[q[Len(q)]].type
  BY InContainer
<1>4. ASSUME NEW i \in 1..Len(q)
      PROVE  Descends(IF i = 1 THEN "top" ELSE f.boxes[q[i - 1]].type, f.boxes[q[i]].type)
  <2>1. KindAround(f, q[i]) = IF i = 1 THEN "top" ELSE f.boxes[q[i - 1]].type
    <3>1. i # 1 => q[i - 1] # 0
      <4>1. i # 1 => i - 1 \in 1..Len(q)
        BY <1>1
      <4> QED BY <1>1, <4>1
    <3> QED BY <1>1, <3>1 DEF KindAround
  <2> QED BY <1>1, <2>1 DEF IsDescended
<1>5. 1 \in 1..Len(q) => f.boxes[q[1]].type = "moov"
  BY <1>4 DEF Descends
<1>6. 2 \in 1..Len(q)
  <2>1. Len(q) # 0
    BY <1>3 DEF IsLoaded, Loads
  <2>2. Len(q) # 1
    BY <1>3, <1>5, <2>1 DEF IsLoaded, Loads
  <2>3. PICK n \in Nat : n = Len(q)
    BY <1>1
  <2> QED BY <2>1, <2>2, <2>3
<1>7. f.boxes[q[2]].type = "trak"
  <2>1. 1 \in 1..Len(q) /\ 2 # 1 /\ 2 - 1 = 1
    BY <1>1, <1>6
  <2>2. Descends("moov", f.boxes[q[2]].type)
    BY <1>4, <1>5, <1>6, <2>1
  <2> QED BY <2>2 DEF Descends
<1>8. IsTrak(f, q[2])
  BY <1>1, <1>6, <1>7 DEF IsTrak
<1>9. ASSUME NEW i \in 1..Len(q), f.boxes[q[i]].type = "trak" PROVE i = 2
  <2>1. i # 1
    BY <1>5, <1>9
  <2>2. i - 1 \in 1..Len(q) /\ f.boxes[q[i - 1]].type = "moov"
    <3>1. i - 1 \in 1..Len(q)
      BY <1>1, <2>1
    <3>2. Descends(f.boxes[q[i - 1]].type, "trak")
      BY <1>4, <1>9, <2>1
    <3> QED BY <3>1, <3>2 DEF Descends
  <2>3. i - 1 = 1
    <3> SUFFICES ASSUME i - 1 # 1 PROVE FALSE
      OBVIOUS
    <3>1. PICK j \in 1..Len(q) : j = i - 1
      BY <2>2
    <3>2. j # 1 /\ f.boxes[q[j]].type = "moov" /\ j - 1 \in 1..Len(q)
      BY <1>1, <2>2, <3>1
    <3>3. Descends(f.boxes[q[j - 1]].type, "moov")
      BY <1>4, <3>2
    <3>4. f.boxes[q[j - 1]].type = "top"
      BY <3>3 DEF Descends
    <3>5. IsDescended(f, q[j - 1])
      BY <1>1, <3>2
    <3> QED BY <3>4, <3>5 DEF IsDescended, Descends
  <2> QED BY <1>1, <2>3
<1>10. PICK p : p = Append(q, b)
  OBVIOUS
<1>11. /\ Len(p) = Len(q) + 1 /\ \A i \in 1..Len(q) : p[i] = q[i]
       /\ p[Len(q) + 1] = b /\ IsPath(f, p) /\ Innermost(p) = b
  BY <1>1, <1>10, PathTo
<1>12. Path(f, b) = p
  BY <1>11, PathIs
<1> DEFINE S == {c \in 1..Len(f.boxes) : IsTrak(f, c) /\ \E i \in 1..Len(Path(f, b)) : Path(f, b)[i] = c}
<1>13. S = {q[2]}
  <2>1. q[2] \in S
    <3>1. 2 \in 1..Len(p) /\ p[2] = q[2]
      BY <1>1, <1>6, <1>11
    <3> QED BY <1>1, <1>6, <1>8, <1>12, <3>1
  <2>2. ASSUME NEW c \in S PROVE c = q[2]
    <3>1. PICK i \in 1..Len(p) : p[i] = c
      BY <1>12
    <3>2. f.boxes[c].type = "trak"
      BY DEF IsTrak
    <3>3. i # Len(q) + 1
      BY <1>2, <1>11, <3>1, <3>2
    <3>4. i \in 1..Len(q) /\ q[i] = c
      BY <1>1, <1>11, <3>1, <3>3
    <3> QED BY <1>9, <3>2, <3>4
  <2> QED BY <2>1, <2>2
<1>14. TrackOf(f, b) = IF S = {} THEN 0 ELSE Cardinality(TraksTo(f, CHOOSE c \in S : TRUE))
  BY DEF TrackOf
<1> HIDE DEF S
<1>15. S # {} /\ (CHOOSE c \in S : TRUE) = q[2]
  BY <1>13
<1> QED
  BY <1>6, <1>8, <1>14, <1>15
-----------------------------------------------------------------------------
(* What a step passes: boxes to load that end, and traks that begin. *)
LEMMA Passes ==
  ASSUME NEW f, IsFile(f), WellFormed(f), NEW b \in 1..Len(f.boxes),
         NEW from, NEW to, from \in Nat, to \in Nat, from <= to,
         NEW x \in 1..Len(f.boxes)
  PROVE  /\ (x \in Due(f, to) <=> x \in Due(f, from) \/ (IsLoaded(f, x) /\ from < End(f, x) /\ End(f, x) <= to))
         /\ (x \in Begun(f, to) <=>
               x \in Begun(f, from) \/ (IsTrak(f, x) /\ from <= f.boxes[x].at /\ f.boxes[x].at < to))
<1>1. f.boxes[x].at \in Nat /\ End(f, x) \in Nat
  BY BoxOf
<1>2. x \in Due(f, to) <=> IsLoaded(f, x) /\ End(f, x) <= to
  BY DEF Due
<1>3. x \in Due(f, from) <=> IsLoaded(f, x) /\ End(f, x) <= from
  BY DEF Due
<1>4. x \in Begun(f, to) <=> IsTrak(f, x) /\ f.boxes[x].at < to
  BY DEF Begun
<1>5. x \in Begun(f, from) <=> IsTrak(f, x) /\ f.boxes[x].at < from
  BY DEF Begun
<1> QED
  BY <1>1, <1>2, <1>3, <1>4, <1>5

LEMMA LoadedIsLeaf ==
  ASSUME NEW f, NEW b, IsLoaded(f, b)
  PROVE  ~IsDescended(f, b)
BY DEF IsLoaded, IsDescended, Loads, Descends

(* A box to load is larger than its header. *)
LEMMA LoadedIsLarge ==
  ASSUME NEW f, IsFile(f), WellFormed(f), NEW b \in 1..Len(f.boxes), IsLoaded(f, b)
  PROVE  f.boxes[b].at + 8 < End(f, b)
<1>1. Extent(f, b) > 8 /\ End(f, b) = f.boxes[b].at + Extent(f, b)
  BY DEF WellFormed, End, HeaderSize
<1>2. f.boxes[b].at \in Nat /\ End(f, b) \in Nat
  BY BoxOf
<1>3. Extent(f, b) \in Int
  BY FileOf, WidthAssumption DEF Extent
<1> QED
  BY <1>1, <1>2, <1>3

(* No box to load ends in the header of b, or before it without ending       *)
(* before b; one that ends in b, b not being descended into, is b.           *)
LEMMA EndsIn ==
  ASSUME NEW f, IsFile(f), WellFormed(f), NEW b \in 1..Len(f.boxes),
         NEW x \in 1..Len(f.boxes), IsLoaded(f, x), f.boxes[b].at < End(f, x)
  PROVE  /\ f.boxes[b].at + 8 < End(f, x)
         /\ ~IsDescended(f, b) /\ x # b => End(f, b) < End(f, x)
<1>1. PICK ab \in Nat, ax \in Nat, eb \in Nat, ex \in Nat :
        /\ ab = f.boxes[b].at /\ ax = f.boxes[x].at /\ eb = End(f, b) /\ ex = End(f, x)
        /\ ab + 8 <= eb /\ (x < b => ax < ab) /\ (b < x => ab < ax)
  BY BoxOf
<1>2. ax + 8 < ex /\ ab < ex
  BY <1>1, LoadedIsLarge
<1>3. CASE x = b
  BY <1>1, <1>2, <1>3
<1>4. CASE x < b
  <2>1. After(f, x, b)
    BY <1>4, Apart, LoadedIsLeaf DEF In
  <2> QED BY <1>1, <1>2, <2>1 DEF After
<1>5. CASE b < x
  <2>1. After(f, b, x) \/ In(f, b, x)
    BY <1>5, Apart
  <2>2. ab + 8 <= ax
    BY <1>1, <2>1 DEF After, In
  <2>3. ~IsDescended(f, b) => eb <= ax
    BY <1>1, <2>1 DEF After, In
  <2> QED BY <1>1, <1>2, <2>2, <2>3, SMTT(60)
<1> QED
  BY <1>3, <1>4, <1>5

(* No trak begins in the header of b, or in b, unless it is b or b is       *)
(* descended into.                                                          *)
LEMMA BeginsIn ==
  ASSUME NEW f, IsFile(f), WellFormed(f), NEW b \in 1..Len(f.boxes),
         NEW x \in 1..Len(f.boxes), x # b, f.boxes[b].at <= f.boxes[x].at
  PROVE  /\ f.boxes[b].at + 8 <= f.boxes[x].at
         /\ ~IsDescended(f, b) => End(f, b) <= f.boxes[x].at
<1>1. PICK ab \in Nat, ax \in Nat, eb \in Nat :
        /\ ab = f.boxes[b].at /\ ax = f.boxes[x].at /\ eb = End(f, b)
        /\ ab + 8 <= eb /\ (x < b => ax < ab) /\ ab <= ax
  BY BoxOf
<1>2. b < x
  BY <1>1
<1>3. After(f, b, x) \/ In(f, b, x)
  BY <1>2, Apart
<1> QED
  BY <1>1, <1>3 DEF After, In

(* The header of b is read, ... *)
LEMMA HeaderPasses ==
  ASSUME NEW f, IsFile(f), WellFormed(f), NEW b \in 1..Len(f.boxes), NEW at, at = f.boxes[b].at
  PROVE  /\ Due(f, at + 8) = Due(f, at)
         /\ Begun(f, at + 8) = Begun(f, at) \cup (IF IsTrak(f, b) THEN {b} ELSE {})
         /\ b \notin Begun(f, at)
<1>1. at \in Nat /\ at + 8 \in Nat /\ at <= at + 8
  BY BoxOf
<1>2. ASSUME NEW x \in 1..Len(f.boxes)
      PROVE  /\ x \in Due(f, at + 8) <=> x \in Due(f, at)
             /\ x \in Begun(f, at + 8) <=> x \in Begun(f, at) \/ (x = b /\ IsTrak(f, b))
  <2>1. f.boxes[x].at \in Nat /\ End(f, x) \in Nat
    BY BoxOf
  <2>2. ~(IsLoaded(f, x) /\ at < End(f, x) /\ End(f, x) <= at + 8)
    <3>1. IsLoaded(f, x) /\ at < End(f, x) => at + 8 < End(f, x)
      BY EndsIn
    <3> QED BY <1>1, <2>1, <3>1
  <2>3. x # b => ~(IsTrak(f, x) /\ at <= f.boxes[x].at /\ f.boxes[x].at < at + 8)
    <3>1. x # b /\ at <= f.boxes[x].at => at + 8 <= f.boxes[x].at
      BY BeginsIn
    <3> QED BY <1>1, <2>1, <3>1
  <2>4. x = b => at <= f.boxes[x].at /\ f.boxes[x].at < at + 8
    BY <1>1
  <2>5. /\ (x \in Due(f, at + 8) <=> x \in Due(f, at) \/ (IsLoaded(f, x) /\ at < End(f, x) /\ End(f, x) <= at + 8))
        /\ (x \in Begun(f, at + 8) <=>
              x \in Begun(f, at) \/ (IsTrak(f, x) /\ at <= f.boxes[x].at /\ f.boxes[x].at < at + 8))
    BY <1>1, Passes
  <2> QED BY <2>2, <2>3, <2>4, <2>5
<1>3. /\ Due(f, at + 8) \subseteq 1..Len(f.boxes) /\ Due(f, at) \subseteq 1..Len(f.boxes)
      /\ Begun(f, at + 8) \subseteq 1..Len(f.boxes) /\ Begun(f, at) \subseteq 1..Len(f.boxes)
  BY DEF Due, Begun
<1>4. b \notin Begun(f, at)
  BY <1>1 DEF Begun
<1> QED
  BY <1>2, <1>3, <1>4

(* ... b is skipped, ... *)
LEMMA SkipPasses ==
  ASSUME NEW f, IsFile(f), WellFormed(f), NEW b \in 1..Len(f.boxes), NEW at, at = f.boxes[b].at,
         ~IsDescended(f, b), ~IsLoaded(f, b)
  PROVE  Due(f, EndInside(f, b)) = Due(f, at) /\ Begun(f, EndInside(f, b)) = Begun(f, at)
<1>1. PICK to \in Nat : to = EndInside(f, b)
  BY EndsOf
<1>2. at \in Nat /\ at <= to /\ End(f, b) \in Nat /\ f.full \in Nat
      /\ (to = End(f, b) \/ (End(f, b) = f.full))
  <2>1. at \in Nat /\ at + 8 <= End(f, b) /\ End(f, b) \in Nat /\ f.full \in Nat
    BY BoxOf
  <2>2. CASE f.boxes[b].size = 0
    <3>1. to = at + U32 /\ End(f, b) = f.full /\ U32 \in Nat
      BY <1>1, <2>2, EndsOf, WidthAssumption
    <3> QED BY <2>1, <3>1
  <2>3. CASE f.boxes[b].size # 0
    <3>1. to = End(f, b)
      BY <1>1, <2>3, EndsOf
    <3> QED BY <2>1, <3>1
  <2> QED BY <2>2, <2>3
<1>3. ASSUME NEW x \in 1..Len(f.boxes)
      PROVE  (x \in Due(f, to) <=> x \in Due(f, at)) /\ (x \in Begun(f, to) <=> x \in Begun(f, at))
  <2>1. /\ f.boxes[x].at \in Nat /\ End(f, x) \in Nat /\ f.boxes[x].at + 8 <= End(f, x)
        /\ End(f, x) <= f.full
    BY BoxOf, WithinFile
  <2>2. ~(IsLoaded(f, x) /\ at < End(f, x) /\ End(f, x) <= to)
    <3>1. IsLoaded(f, x) /\ at < End(f, x) => End(f, b) < End(f, x)
      BY EndsIn
    <3> QED BY <1>2, <2>1, <3>1
  <2>3. ~(IsTrak(f, x) /\ at <= f.boxes[x].at /\ f.boxes[x].at < to)
    <3>1. x # b /\ at <= f.boxes[x].at => End(f, b) <= f.boxes[x].at
      BY BeginsIn
    <3>2. ~IsTrak(f, b)
      BY DEF IsTrak
    <3> QED BY <1>2, <2>1, <3>1, <3>2
  <2>4. /\ (x \in Due(f, to) <=> x \in Due(f, at) \/ (IsLoaded(f, x) /\ at < End(f, x) /\ End(f, x) <= to))
        /\ (x \in Begun(f, to) <=>
              x \in Begun(f, at) \/ (IsTrak(f, x) /\ at <= f.boxes[x].at /\ f.boxes[x].at < to))
    BY <1>2, Passes
  <2> QED BY <2>2, <2>3, <2>4
<1>4. /\ Due(f, to) \subseteq 1..Len(f.boxes) /\ Due(f, at) \subseteq 1..Len(f.boxes)
      /\ Begun(f, to) \subseteq 1..Len(f.boxes) /\ Begun(f, at) \subseteq 1..Len(f.boxes)
  BY DEF Due, Begun
<1> QED
  BY <1>1, <1>3, <1>4

(* ... or its content is loaded. *)
LEMMA LoadPasses ==
  ASSUME NEW f, IsFile(f), WellFormed(f), NEW b \in 1..Len(f.boxes), IsLoaded(f, b),
         NEW from, from = f.boxes[b].at + 8
  PROVE  /\ Due(f, End(f, b)) = Due(f, from) \cup {b} /\ b \notin Due(f, from)
         /\ Begun(f, End(f, b)) = Begun(f, from)
         /\ \A x \in Due(f, from) : x < b
<1>1. PICK to \in Nat, at \in Nat : to = End(f, b) /\ at = f.boxes[b].at
  BY BoxOf
<1>2. from = at + 8 /\ from < to /\ from \in Nat /\ from <= to /\ ~IsDescended(f, b)
  <2>1. from < to
    BY <1>1, LoadedIsLarge
  <2> QED BY <1>1, <2>1, LoadedIsLeaf
<1>3. ASSUME NEW x \in 1..Len(f.boxes)
      PROVE  /\ x \in Due(f, to) <=> x \in Due(f, from) \/ x = b
             /\ x \in Begun(f, to) <=> x \in Begun(f, from)
  <2>1. f.boxes[x].at \in Nat /\ End(f, x) \in Nat
    BY BoxOf
  <2>2. x # b => ~(IsLoaded(f, x) /\ from < End(f, x) /\ End(f, x) <= to)
    <3>1. IsLoaded(f, x) /\ at < End(f, x) /\ x # b => to < End(f, x)
      BY <1>1, <1>2, EndsIn
    <3> QED BY <1>2, <2>1, <3>1
  <2>3. ~(IsTrak(f, x) /\ from <= f.boxes[x].at /\ f.boxes[x].at < to)
    <3>1. x # b /\ at <= f.boxes[x].at => to <= f.boxes[x].at
      BY <1>1, <1>2, BeginsIn
    <3>2. x = b => f.boxes[x].at = at
      BY <1>1
    <3> QED BY <1>2, <2>1, <3>1, <3>2
  <2>4. x = b => IsLoaded(f, x) /\ from < End(f, x) /\ End(f, x) <= to
    BY <1>1, <1>2
  <2>5. /\ (x \in Due(f, to) <=> x \in Due(f, from) \/ (IsLoaded(f, x) /\ from < End(f, x) /\ End(f, x) <= to))
        /\ (x \in Begun(f, to) <=>
              x \in Begun(f, from) \/ (IsTrak(f, x) /\ from <= f.boxes[x].at /\ f.boxes[x].at < to))
    BY <1>2, Passes
  <2> QED BY <2>2, <2>3, <2>4, <2>5
<1>4. /\ Due(f, to) \subseteq 1..Len(f.boxes) /\ Due(f, from) \subseteq 1..Len(f.boxes)
      /\ Begun(f, to) \subseteq 1..Len(f.boxes) /\ Begun(f, from) \subseteq 1..Len(f.boxes)
  BY DEF Due, Begun
<1>5. ASSUME NEW x \in Due(f, from) PROVE x < b
  <2>1. x \in 1..Len(f.boxes) /\ IsLoaded(f, x) /\ End(f, x) <= from
    BY DEF Due
  <2>2. f.boxes[x].at \in Nat /\ End(f, x) \in Nat /\ f.boxes[x].at + 8 < End(f, x)
    BY <2>1, BoxOf, LoadedIsLarge
  <2>3. f.boxes[x].at < at
    BY <1>2, <2>1, <2>2
  <2>4. ~(b < x) /\ b # x
    <3>1. b < x => at < f.boxes[x].at
      BY <1>1, <2>1, BoxOf
    <3> QED BY <1>1, <2>2, <2>3, <3>1
  <2> QED BY <2>1, <2>4
<1>6. b \notin Due(f, from)
  BY <1>1, <1>2 DEF Due
<1> QED
  BY <1>1, <1>3, <1>4, <1>5, <1>6

(* No header is passed but that of b. *)
LEMMA HeadersPass ==
  ASSUME NEW f, IsFile(f), WellFormed(f), NEW b \in 1..Len(f.boxes),
         NEW from \in Nat, f.boxes[b].at <= from, f.boxes[b].at + 8 <= f.size, HeadersRead(f, from),
         NEW to,
         \/ to = f.boxes[b].at + 8
         \/ ~IsDescended(f, b) /\ to \in {End(f, b), EndInside(f, b)}
  PROVE  HeadersRead(f, to)
<1> SUFFICES ASSUME NEW x \in 1..Len(f.boxes), f.boxes[x].at < to
             PROVE  f.boxes[x].at + 8 <= f.size
  BY DEF HeadersRead, HeaderSize
<1>1. /\ f.boxes[x].at \in Nat /\ f.boxes[b].at \in Nat /\ End(f, b) \in Nat
      /\ f.boxes[x].at + 8 <= End(f, x) /\ End(f, x) \in Nat /\ End(f, x) <= f.full
      /\ f.full \in Nat
  BY BoxOf, WithinFile
<1>2. CASE f.boxes[x].at < from
  BY <1>2 DEF HeadersRead, HeaderSize
<1>3. CASE x = b
  BY <1>3
<1>4. CASE x # b /\ ~(f.boxes[x].at < from)
  <2>1. f.boxes[b].at <= f.boxes[x].at
    BY <1>1, <1>4
  <2>2. /\ f.boxes[b].at + 8 <= f.boxes[x].at
        /\ ~IsDescended(f, b) => End(f, b) <= f.boxes[x].at
    BY <1>4, <2>1, BeginsIn
  <2>3. ~IsDescended(f, b) /\ to = EndInside(f, b) /\ End(f, b) <= f.boxes[x].at
    BY <1>1, <2>2
  <2>4. EndInside(f, b) = End(f, b) \/ End(f, b) = f.full
    BY EndsOf
  <2> QED BY <1>1, <2>3, <2>4
<1> QED
  BY <1>2, <1>3, <1>4
-----------------------------------------------------------------------------
(* What a step makes of the tables. *)
TrackIn(f) == [loaded : SUBSET (1..Len(f.boxes)), extradata : 0..Len(f.boxes)]

LEMMA StillGathered ==
  ASSUME NEW f, NEW T, NEW known, NEW p, NEW q, Gathered(f, T, known, p),
         Due(f, q) = Due(f, p), Begun(f, q) = Begun(f, p), HeadersRead(f, q)
  PROVE  Gathered(f, T, known, q)
<1>1. /\ Len(T) = Cardinality(Begun(f, p)) /\ Told(f, T, known)
      /\ LoadedTo(f, T, p) /\ ConfiguredTo(f, T, p) /\ KindKnown(f, T, known, p)
  BY DEF Gathered
<1>2. LoadedTo(f, T, q)
  BY <1>1 DEF LoadedTo
<1>3. ConfiguredTo(f, T, q)
  BY <1>1 DEF ConfiguredTo
<1>4. KindKnown(f, T, known, q)
  BY <1>1 DEF KindKnown
<1> QED
  BY <1>1, <1>2, <1>3, <1>4 DEF Gathered

(* A trak begins: its track has no tables yet. *)
LEMMA TrackStarted ==
  ASSUME NEW f, IsFile(f), NEW T \in Seq(TrackIn(f)), NEW known, NEW p, NEW q,
         Gathered(f, T, known, p),
         NEW b, Due(f, q) = Due(f, p), Begun(f, q) = Begun(f, p) \cup {b}, b \notin Begun(f, p),
         HeadersRead(f, q), NEW U, U = Append(T, NewTrack)
  PROVE  Gathered(f, U, known, q)
<1>1. /\ Len(T) = Cardinality(Begun(f, p)) /\ Len(T) \in Nat /\ Told(f, T, known)
      /\ LoadedTo(f, T, p) /\ ConfiguredTo(f, T, p) /\ KindKnown(f, T, known, p)
  BY DEF Gathered
<1>2. /\ Len(U) = Len(T) + 1 /\ \A t \in 1..Len(T) : U[t] = T[t]
      /\ U[Len(T) + 1].loaded = {} /\ U[Len(T) + 1].extradata = 0
  <2>1. Len(U) = Len(T) + 1 /\ (\A t \in 1..Len(T) : U[t] = T[t]) /\ U[Len(T) + 1] = NewTrack
    OBVIOUS
  <2> QED BY <2>1 DEF NewTrack
<1>3. Cardinality(Begun(f, q)) = Len(U)
  <2>1. Begun(f, p) \subseteq 1..Len(f.boxes) /\ Len(f.boxes) \in Nat
    BY FileOf DEF Begun
  <2>2. IsFiniteSet(Begun(f, p))
    <3>1. PICK n \in Int : n = Len(f.boxes)
      BY <2>1
    <3>2. IsFiniteSet(1..n)
      BY FS_Interval
    <3> QED BY <2>1, <3>1, <3>2, FS_Subset
  <2>3. Cardinality(Begun(f, p) \cup {b}) = Cardinality(Begun(f, p)) + 1
    BY <2>2, FS_AddElement
  <2> QED BY <1>1, <1>2, <2>3
<1>4. \A t \in 1..Len(U) : t \in 1..Len(T) \/ t = Len(T) + 1
  BY <1>1, <1>2
<1>5. \A x \in Due(f, p) : TrackOf(f, x) \in 1..Len(T)
  BY <1>1 DEF LoadedTo
<1>6. LoadedTo(f, U, q)
  <2>1. ASSUME NEW x \in Due(f, q)
        PROVE  TrackOf(f, x) \in 1..Len(U) /\ x \in U[TrackOf(f, x)].loaded
    <3>1. TrackOf(f, x) \in 1..Len(T) /\ x \in T[TrackOf(f, x)].loaded
      BY <1>1 DEF LoadedTo
    <3> QED BY <1>1, <1>2, <3>1
  <2>2. ASSUME NEW t \in 1..Len(U), NEW x \in U[t].loaded
        PROVE  x \in Due(f, q) /\ End(f, x) <= f.size /\ t = TrackOf(f, x)
    <3>1. t \in 1..Len(T) /\ x \in T[t].loaded
      BY <1>2, <1>4
    <3> QED BY <1>1, <3>1 DEF LoadedTo
  <2> QED BY <2>1, <2>2 DEF LoadedTo
<1>7. ConfiguredTo(f, U, q)
  <2>1. ASSUME NEW h \in Due(f, q), NEW s \in Due(f, q),
               h < s, TellsKind(f, h), Configures(f, s), TrackOf(f, h) = TrackOf(f, s)
        PROVE  U[TrackOf(f, s)].extradata >= s
    <3>1. T[TrackOf(f, s)].extradata >= s
      BY <1>1, <2>1 DEF ConfiguredTo
    <3>2. U[TrackOf(f, s)] = T[TrackOf(f, s)]
      BY <1>2, <1>5
    <3> QED BY <3>1, <3>2
  <2>2. ASSUME NEW t \in 1..Len(U), U[t].extradata # 0
        PROVE  U[t].extradata \in U[t].loaded /\ MayConfigure(f, U[t].extradata)
    <3>1. t \in 1..Len(T) /\ U[t] = T[t]
      BY <1>2, <1>4, <2>2
    <3> QED BY <1>1, <2>2, <3>1 DEF ConfiguredTo
  <2> QED BY <2>1, <2>2 DEF ConfiguredTo
<1>8. KindKnown(f, U, known, q)
  <2>1. ASSUME NEW h \in Due(f, q) PROVE TrackOf(f, h) # Len(U)
    <3>1. TrackOf(f, h) \in 1..Len(T)
      BY <1>5
    <3> QED BY <1>1, <1>2, <3>1
  <2> QED BY <2>1 DEF KindKnown
<1>9. Told(f, U, known)
  <2>1. ASSUME NEW k \in {"vide", "soun"}, known[k] # 0
        PROVE  /\ known[k] \in 1..Len(U)
               /\ \E h \in U[known[k]].loaded : TellsKind(f, h) /\ f.boxes[h].says = k
    <3>1. /\ known[k] \in 1..Len(T)
          /\ \E h \in T[known[k]].loaded : TellsKind(f, h) /\ f.boxes[h].says = k
      BY <1>1, <2>1 DEF Told
    <3>2. known[k] \in 1..Len(U) /\ U[known[k]] = T[known[k]]
      BY <1>1, <1>2, <3>1
    <3> QED BY <3>1, <3>2
  <2> QED BY <2>1 DEF Told
<1> QED
  BY <1>3, <1>6, <1>7, <1>8, <1>9 DEF Gathered

(* b is loaded into the last track. *)
LoadedIn(T, b, c) ==
  [T EXCEPT ![Len(T)].loaded = @ \cup {b}, ![Len(T)].extradata = IF c THEN b ELSE @]

LEMMA LastTrack ==
  ASSUME NEW f, NEW T \in Seq(TrackIn(f)), NEW b, NEW c \in BOOLEAN,
         Len(T) \in 1..Len(T), NEW U, U = LoadedIn(T, b, c)
  PROVE  /\ Len(U) = Len(T) /\ \A t \in 1..Len(T) : t # Len(T) => U[t] = T[t]
         /\ U[Len(T)].loaded = T[Len(T)].loaded \cup {b}
         /\ U[Len(T)].extradata = IF c THEN b ELSE T[Len(T)].extradata
<1> DEFINE l == Len(T)
           e == [T[l] EXCEPT !.loaded = @ \cup {b}, !.extradata = IF c THEN b ELSE @]
<1>1. T[l] \in TrackIn(f)
  BY ElementOf, Zenon
<1>2. e.loaded = T[l].loaded \cup {b} /\ e.extradata = IF c THEN b ELSE T[l].extradata
  BY <1>1 DEF TrackIn
<1>3. U = [T EXCEPT ![l] = e]
  BY <1>1 DEF LoadedIn, TrackIn
<1> HIDE DEF e
<1>4. Len(U) = l /\ (\A t \in 1..l : t # l => U[t] = T[t]) /\ U[l] = e
  BY <1>3
<1> QED
  BY <1>2, <1>4

LEMMA TableLoaded ==
  ASSUME NEW f, IsFile(f), NEW T \in Seq(TrackIn(f)), NEW known, NEW p, NEW q,
         Gathered(f, T, known, p),
         NEW b \in 1..Len(f.boxes), Due(f, q) = Due(f, p) \cup {b}, Begun(f, q) = Begun(f, p),
         \A x \in Due(f, p) : x < b,
         End(f, b) <= f.size, TrackOf(f, b) = Len(T), Len(T) \in 1..Len(T),
         NEW c \in BOOLEAN, c => MayConfigure(f, b),
         Configures(f, b) /\ IsKnown(known, Len(T)) => c,
         NEW after, TellsKind(f, b) \/ IsKnown(known, Len(T)) => IsKnown(after, Len(T)),
         \A k \in {"vide", "soun"} :
           \/ after[k] = known[k]
           \/ after[k] = Len(T) /\ TellsKind(f, b) /\ f.boxes[b].says = k,
         HeadersRead(f, q),
         NEW U, U = LoadedIn(T, b, c)
  PROVE  Gathered(f, U, after, q)
<1>1. /\ Len(T) = Cardinality(Begun(f, p)) /\ Len(T) \in Nat /\ Told(f, T, known)
      /\ LoadedTo(f, T, p) /\ ConfiguredTo(f, T, p) /\ KindKnown(f, T, known, p)
  BY DEF Gathered
<1> DEFINE l == Len(T)
<1>2. /\ Len(U) = l /\ \A t \in 1..l : t # l => U[t] = T[t]
      /\ U[l].loaded = T[l].loaded \cup {b}
      /\ U[l].extradata = IF c THEN b ELSE T[l].extradata
  BY LastTrack
<1>3. /\ \A x \in Due(f, p) : TrackOf(f, x) \in 1..l /\ x \in T[TrackOf(f, x)].loaded
      /\ \A t \in 1..l : \A x \in T[t].loaded :
           x \in Due(f, p) /\ End(f, x) <= f.size /\ t = TrackOf(f, x)
  BY <1>1 DEF LoadedTo
<1>4. l \in 1..l /\ TrackOf(f, b) = l /\ l \in Nat
  BY <1>1
<1> HIDE DEF l
<1>5. LoadedTo(f, U, q)
  <2>1. ASSUME NEW x \in Due(f, q)
        PROVE  TrackOf(f, x) \in 1..l /\ x \in U[TrackOf(f, x)].loaded
    <3>1. CASE x = b
      BY <1>2, <1>4, <3>1
    <3>2. CASE x # b
      <4>1. TrackOf(f, x) \in 1..l /\ x \in T[TrackOf(f, x)].loaded
        BY <1>3, <3>2
      <4> QED BY <1>2, <4>1
    <3> QED BY <3>1, <3>2
  <2>2. ASSUME NEW t \in 1..l, NEW x \in U[t].loaded
        PROVE  x \in Due(f, q) /\ End(f, x) <= f.size /\ t = TrackOf(f, x)
    <3>1. x \in T[t].loaded \/ (t = l /\ x = b)
      BY <1>2
    <3>2. CASE x \in T[t].loaded
      BY <1>3, <3>2
    <3>3. CASE t = l /\ x = b
      BY <1>4, <3>3
    <3> QED BY <3>1, <3>2, <3>3
  <2> QED BY <1>2, <2>1, <2>2 DEF LoadedTo
<1>6. ASSUME NEW t \in 1..l, T[t].extradata # 0
      PROVE  T[t].extradata \in T[t].loaded /\ MayConfigure(f, T[t].extradata) /\ T[t].extradata < b
  <2>1. T[t].extradata \in T[t].loaded /\ MayConfigure(f, T[t].extradata)
    BY <1>1, <1>6 DEF ConfiguredTo, l
  <2>2. T[t].extradata \in Due(f, p)
    BY <1>3, <2>1
  <2> QED BY <2>1, <2>2
<1>7. ConfiguredTo(f, U, q)
  <2>1. ASSUME NEW h \in Due(f, q), NEW s \in Due(f, q),
               h < s, TellsKind(f, h), Configures(f, s), TrackOf(f, h) = TrackOf(f, s)
        PROVE  U[TrackOf(f, s)].extradata >= s
    <3>1. h \in Due(f, p) /\ h \in Nat /\ s \in 1..Len(f.boxes)
      <4>1. h \in 1..Len(f.boxes) /\ s \in 1..Len(f.boxes)
        BY DEF Due
      <4>2. h # b
        <5>1. s = b \/ s < b
          OBVIOUS
        <5> QED BY <2>1, <4>1, <5>1
      <4> QED BY <4>1, <4>2
    <3>2. CASE s = b
      <4>1. IsKnown(known, l)
        <5>1. TrackOf(f, h) = l
          BY <1>4, <2>1, <3>2
        <5> QED BY <1>1, <2>1, <3>1, <5>1 DEF KindKnown, l
      <4>2. c
        BY <2>1, <3>2, <4>1 DEF l
      <4>3. U[TrackOf(f, s)].extradata = s
        BY <1>2, <1>4, <3>2, <4>2
      <4>4. s \in Int
        BY <3>1
      <4> QED BY <4>3, <4>4
    <3>3. CASE s # b
      <4>1. s \in Due(f, p)
        BY <3>3
      <4>2. T[TrackOf(f, s)].extradata >= s
        BY <1>1, <2>1, <3>1, <4>1 DEF ConfiguredTo
      <4>3. TrackOf(f, s) \in 1..l
        BY <1>3, <4>1
      <4>4. CASE TrackOf(f, s) # l
        BY <1>2, <4>2, <4>3, <4>4
      <4>5. CASE TrackOf(f, s) = l
        <5>1. c => b >= s
          <6>1. s < b
            BY <4>1
          <6> QED BY <3>1, <6>1
        <5> QED BY <1>2, <4>2, <4>5, <5>1
      <4> QED BY <4>4, <4>5
    <3> QED BY <3>2, <3>3
  <2>2. ASSUME NEW t \in 1..l, U[t].extradata # 0
        PROVE  U[t].extradata \in U[t].loaded /\ MayConfigure(f, U[t].extradata)
    <3>1. CASE t # l
      BY <1>2, <1>6, <2>2, <3>1
    <3>2. CASE t = l /\ c
      BY <1>2, <3>2
    <3>3. CASE t = l /\ ~c
      <4>1. U[t].extradata = T[t].extradata /\ T[t].loaded \subseteq U[t].loaded
        BY <1>2, <3>3
      <4> QED BY <1>6, <2>2, <4>1
    <3> QED BY <3>1, <3>2, <3>3
  <2> QED BY <1>2, <2>1, <2>2 DEF ConfiguredTo
<1>8. KindKnown(f, U, after, q)
  <2>1. ASSUME NEW h \in Due(f, q), TellsKind(f, h), TrackOf(f, h) = l
        PROVE  IsKnown(after, l)
    <3>1. CASE h = b
      BY <2>1, <3>1 DEF l
    <3>2. CASE h # b
      <4>1. IsKnown(known, l)
        BY <1>1, <2>1, <3>2 DEF KindKnown, l
      <4> QED BY <4>1 DEF l
    <3> QED BY <3>1, <3>2
  <2> QED BY <1>2, <2>1 DEF KindKnown
<1>9. Len(U) = Cardinality(Begun(f, q))
  BY <1>1, <1>2 DEF l
<1>10. Told(f, U, after)
  <2>1. ASSUME NEW k \in {"vide", "soun"}, after[k] # 0
        PROVE  /\ after[k] \in 1..l
               /\ \E h \in U[after[k]].loaded : TellsKind(f, h) /\ f.boxes[h].says = k
    <3>1. CASE after[k] = known[k]
      <4>1. /\ known[k] \in 1..l
            /\ \E h \in T[known[k]].loaded : TellsKind(f, h) /\ f.boxes[h].says = k
        BY <1>1, <2>1, <3>1 DEF Told, l
      <4>2. T[known[k]].loaded \subseteq U[known[k]].loaded
        BY <1>2, <4>1
      <4> QED BY <3>1, <4>1, <4>2
    <3>2. CASE after[k] = l /\ TellsKind(f, b) /\ f.boxes[b].says = k
      BY <1>2, <1>4, <3>2
    <3> QED BY <3>1, <3>2 DEF l
  <2> QED BY <1>2, <2>1 DEF Told
<1> QED
  BY <1>5, <1>7, <1>8, <1>9, <1>10 DEF Gathered

(* The track of a box to load is the last one begun. *)
LEMMA TracksBegun ==
  ASSUME NEW f, IsFile(f), WellFormed(f), NEW q, Inside(f, q),
         NEW b \in Children(f, Innermost(q)), IsLoaded(f, b),
         NEW from, from = f.boxes[b].at + 8
  PROVE  /\ TrackOf(f, b) = Cardinality(Begun(f, from))
         /\ Cardinality(Begun(f, from)) \in 1..Cardinality(Begun(f, from))
<1>1. b \in 1..Len(f.boxes)
  BY ChildOf
<1>2. /\ 2 \in 1..Len(q) /\ IsTrak(f, q[2])
      /\ TrackOf(f, b) = Cardinality(TraksTo(f, q[2]))
  BY TrackOnPath
<1>3. PICK c : c = q[2]
  OBVIOUS
<1>4. c \in 1..Len(f.boxes) /\ c < b /\ End(f, b) <= End(f, c)
  BY <1>2, <1>3, Around DEF Inside
<1>5. /\ f.boxes[b].at \in Nat /\ End(f, b) \in Nat /\ f.boxes[b].at + 8 < End(f, b)
      /\ f.boxes[c].at \in Nat /\ End(f, c) \in Nat /\ f.boxes[c].at < f.boxes[b].at
  BY <1>1, <1>4, BoxOf, LoadedIsLarge
<1>6. Len(f.boxes) \in Nat
  BY FileOf
<1>7. ASSUME NEW d \in 1..Len(f.boxes), IsTrak(f, d)
      PROVE  f.boxes[d].at < from <=> d <= c
  <2>1. f.boxes[d].at \in Nat
    BY BoxOf
  <2>2. CASE d <= c
    <3>1. d = c \/ f.boxes[d].at < f.boxes[c].at
      <4>1. d = c \/ d < c
        BY <1>4, <2>2
      <4> QED BY <1>4, <4>1, BoxOf
    <3> QED BY <1>5, <2>1, <2>2, <3>1, SMTT(60)
  <2>3. CASE c < d
    <3>1. End(f, c) <= f.boxes[d].at
      BY <1>2, <1>3, <1>4, <1>7, <2>3, TraksApart
    <3>2. ~(d <= c)
      BY <1>4, <2>3
    <3> QED BY <1>4, <1>5, <2>1, <3>1, <3>2
  <2> QED BY <1>4, <2>2, <2>3
<1>8. Begun(f, from) = TraksTo(f, c)
  <2>1. 1..c \subseteq 1..Len(f.boxes)
    BY <1>4, <1>6
  <2>2. ASSUME NEW d \in 1..Len(f.boxes), IsTrak(f, d)
        PROVE  d \in Begun(f, from) <=> d \in TraksTo(f, c)
    <3>1. d <= c <=> d \in 1..c
      BY <1>4
    <3> QED BY <1>7, <2>2, <3>1 DEF Begun, TraksTo
  <2> QED BY <2>1, <2>2 DEF Begun, TraksTo
<1>9. c \in Begun(f, from)
  BY <1>2, <1>3, <1>4, <1>8 DEF TraksTo
<1>10. IsFiniteSet(Begun(f, from))
  <2>1. IsFiniteSet(1..c)
    BY <1>4, FS_Interval
  <2> QED BY <1>8, <2>1, FS_Subset DEF TraksTo
<1>11. Cardinality(Begun(f, from)) \in Nat /\ Cardinality(Begun(f, from)) # 0
  BY <1>9, <1>10, FS_CardinalityType, FS_EmptySet
<1> QED
  BY <1>2, <1>3, <1>8, <1>11

(* The end of the file is passed. *)
LEMMA ToTheEnd ==
  ASSUME NEW f, IsFile(f), WellFormed(f), NEW T, NEW known, NEW p \in Nat,
         Gathered(f, T, known, p), p >= f.size
  PROVE  LoadedTo(f, T, f.size) /\ ConfiguredTo(f, T, f.size)
<1>1. LoadedTo(f, T, p) /\ ConfiguredTo(f, T, p) /\ f.size \in Nat
  BY FileOf DEF Gathered
<1>2. Due(f, f.size) \subseteq Due(f, p)
  <2>1. ASSUME NEW b \in Due(f, f.size) PROVE b \in Due(f, p)
    <3>1. b \in 1..Len(f.boxes) /\ IsLoaded(f, b) /\ End(f, b) <= f.size
      BY DEF Due
    <3>2. End(f, b) \in Nat
      BY <3>1, BoxOf
    <3> QED BY <1>1, <3>1, <3>2 DEF Due
  <2> QED BY <2>1
<1>3. LoadedTo(f, T, f.size)
  <2>1. \A t \in 1..Len(T) : \A b \in T[t].loaded :
          b \in Due(f, f.size) /\ End(f, b) <= f.size /\ t = TrackOf(f, b)
    BY <1>1 DEF LoadedTo, Due
  <2>2. \A b \in Due(f, f.size) : TrackOf(f, b) \in 1..Len(T) /\ b \in T[TrackOf(f, b)].loaded
    BY <1>1, <1>2 DEF LoadedTo
  <2> QED BY <2>1, <2>2 DEF LoadedTo
<1>4. ConfiguredTo(f, T, f.size)
  BY <1>1, <1>2 DEF ConfiguredTo
<1> QED
  BY <1>3, <1>4
-----------------------------------------------------------------------------
(* The steps. *)
LEMMA FrameIs ==
  ASSUME NEW kind \in Containers \cup Loaded \cup {"void"},
         NEW total \in 0..(U32 - 1), NEW wants \in 0..(U32 - 1)
  PROVE  /\ Frame(kind, total, wants) \in Entry
         /\ Frame(kind, total, wants).kind = kind /\ Frame(kind, total, wants).total = total
         /\ Frame(kind, total, wants).wants = wants /\ Frame(kind, total, wants).to_skip = 0
<1>1. 0 \in 0..(U32 - 1)
  BY WidthAssumption DEF HeaderSize
<1> QED
  BY <1>1 DEF Frame, Entry

LEMMA InitHolds ==
  Init => IInv
<1> SUFFICES ASSUME Init PROVE IInv
  OBVIOUS
<1>1. IsFile(file) /\ U32 \in Nat /\ U32 > 8 /\ HeaderSize = 8
  BY FilesAssumption, WidthAssumption DEF Init, HeaderSize
<1>2. PICK st : st = stack
  OBVIOUS
<1>3. PICK bottom : bottom = Frame("void", 0, 0)
  OBVIOUS
<1>4. PICK top : top = Frame("top", U32 - 1, HeaderSize)
  OBVIOUS
<1>5. /\ bottom \in Entry /\ bottom.kind = "void" /\ bottom.wants = 0 /\ bottom.to_skip = 0
  <2>1. "void" \in Containers \cup Loaded \cup {"void"} /\ 0 \in 0..(U32 - 1)
    BY <1>1
  <2> QED BY <1>3, <2>1, FrameIs
<1>6. /\ top \in Entry /\ top.kind = "top" /\ top.wants = HeaderSize /\ top.to_skip = 0
      /\ top.total = U32 - 1
  <2>1. /\ "top" \in Containers \cup Loaded \cup {"void"}
        /\ HeaderSize \in 0..(U32 - 1) /\ U32 - 1 \in 0..(U32 - 1)
    BY <1>1 DEF Containers
  <2> QED BY <1>4, <2>1, FrameIs
<1>7. st = <<bottom, top>>
  BY <1>2, <1>3, <1>4 DEF Init
<1>8. st \in Seq(Entry) /\ Len(st) = 2 /\ st[1] = bottom /\ st[2] = top
  BY <1>5, <1>6, <1>7
<1>9. IsStack(st)
  <2>1. ASSUME NEW i \in 2..2
        PROVE  /\ st[i].kind # "void"
               /\ st[i].kind \in Containers => st[i].wants = HeaderSize
               /\ i < 2 => st[i].kind \in Containers
    BY <1>6, <1>8
  <2>2. \A i \in 1..(2 - 1) : st[i].to_skip = 0
    BY <1>5, <1>8
  <2> QED BY <1>5, <1>6, <1>8, <2>1, <2>2 DEF IsStack
<1>10. Position = 0
  <2>1. Top = top /\ offset = 0
    BY <1>2, <1>8 DEF Top, Init
  <2> QED BY <1>6, <2>1 DEF Position
<1>11. ASSUME WellFormed(file) PROVE PlacedIn(file, st, 0)
  <2> SUFFICES ASSUME 0 < file.full
               PROVE  st[Len(st)].kind \in Containers /\ \E q : AtBox(file, q, st, 0)
    BY <1>8 DEF PlacedIn
  <2>1. st[Len(st)].kind \in Containers
    BY <1>6, <1>8 DEF Containers
  <2>2. Inside(file, <<>>) /\ Innermost(<<>>) = 0 /\ Len(<<>>) = 0
    BY DEF Inside, IsPath, Innermost
  <2>3. \E b \in Children(file, 0) : file.boxes[b].at = 0
    <3>1. Tile(file, 0, 0, file.full)
      BY <1>11 DEF WellFormed
    <3>2. file.full # 0
      OBVIOUS
    <3> QED BY <3>1, <3>2 DEF Tile
  <2>4. StackIs(file, <<>>, st, 0)
    <3>1. \A m \in 3..Len(st) : st[m].kind = file.boxes[<<>>[m - 2]].type
      BY <1>8
    <3>2. ASSUME NEW m \in 2..Len(st)
          PROVE  st[m].total = (IF m = 2 THEN U32 - 1 ELSE EndInside(file, <<>>[m - 2]))
                                 - (IF m = Len(st) THEN 0 ELSE EndAround(file, <<>>[m - 1]))
      <4>1. m = 2 /\ Len(st) = 2
        BY <1>8
      <4>2. st[2].total = (U32 - 1) - 0
        BY <1>1, <1>6, <1>8
      <4> QED BY <4>1, <4>2
    <3>3. Len(<<>>) \in Nat /\ Len(st) = Len(<<>>) + 2
      BY <1>8
    <3> QED BY <3>1, <3>2, <3>3, LeftIs
  <2>5. AtBox(file, <<>>, st, 0)
    BY <2>2, <2>3, <2>4 DEF AtBox
  <2> QED BY <2>1, <2>5
<1>12. TypeOK
  <2>1. stack \in Seq(Entry) /\ stack # <<>> /\ stack[1].kind = "void" /\ stack[1].wants = 0
    BY <1>2, <1>5, <1>8
  <2>2. /\ tracks = <<>> /\ offset = 0 /\ video = 0 /\ audio = 0 /\ pc = "feed"
    BY DEF Init
  <2>3. tracks \in Seq(TrackIn(file)) /\ Len(tracks) = 0
    BY <2>2
  <2> QED BY <2>1, <2>2, <2>3 DEF TypeOK, Entry, TrackIn, boxes
<1>13. Shape
  BY <1>2, <1>9 DEF Shape
<1>14. Placed
  BY <1>2, <1>10, <1>11 DEF Placed
<1>15. Accepted
  BY DEF Init, Accepted
<1>16. Gathering
  <2> SUFFICES ASSUME WellFormed(file) PROVE Gathered(file, <<>>, Known, 0)
    <3>1. tracks = <<>>
      BY DEF Init
    <3> QED BY <1>10, <3>1 DEF Gathering
  <2>1. Due(file, 0) = {} /\ Begun(file, 0) = {}
    <3>1. ASSUME NEW b \in 1..Len(file.boxes)
          PROVE  ~(End(file, b) <= 0) /\ ~(file.boxes[b].at < 0)
      <4>1. /\ file.boxes[b].at \in Nat /\ End(file, b) \in Nat
            /\ file.boxes[b].at + 8 <= End(file, b)
        BY <1>1, BoxOf
      <4> QED BY <4>1
    <3> QED BY <3>1 DEF Due, Begun
  <2>2. Len(<<>>) = Cardinality(Begun(file, 0))
    BY <2>1, FS_EmptySet
  <2>3. LoadedTo(file, <<>>, 0) /\ ConfiguredTo(file, <<>>, 0) /\ KindKnown(file, <<>>, Known, 0)
    BY <2>1 DEF LoadedTo, ConfiguredTo, KindKnown
  <2>4. Told(file, <<>>, Known)
    BY DEF Told, Known, Init
  <2>5. HeadersRead(file, 0)
    <3>1. \A b \in 1..Len(file.boxes) : file.boxes[b].at \in Nat
      BY <1>1, FileOf
    <3> QED BY <3>1 DEF HeadersRead
  <2> QED BY <2>2, <2>3, <2>4, <2>5 DEF Gathered
<1>17. Finished
  BY DEF Init, Finished
<1> QED
  BY <1>1, <1>12, <1>13, <1>14, <1>15, <1>16, <1>17 DEF IInv

(* The state in which the parser reads. *)
LEMMA Reading ==
  ASSUME IInv, pc = "feed"
  PROVE  /\ IsFile(file) /\ IsStack(stack)
         /\ stack \in Seq(Entry) /\ Len(stack) \in 1..Len(stack) /\ Top \in Entry
         /\ Top.kind \in Containers \cup Loaded \cup {"void"}
         /\ Top.wants \in Nat /\ Top.to_skip \in Nat /\ offset \in Nat /\ Position \in Nat
         /\ tracks \in Seq(TrackIn(file)) /\ Len(tracks) \in Nat
         /\ video \in 0..Len(tracks) /\ audio \in 0..Len(tracks)
         /\ Top.wants # 0 => Len(stack) >= 2
         /\ Top.kind \in Containers => Len(stack) >= 2 /\ Top.wants = 8
<1>1. IsFile(file) /\ IsStack(stack) /\ TypeOK
  BY DEF IInv, Shape
<1>2. /\ Len(stack) \in 1..Len(stack) /\ Top \in Entry /\ stack \in Seq(Entry)
      /\ Top.wants # 0 => Len(stack) >= 2
      /\ Top.kind \in Containers => Len(stack) >= 2 /\ Top.wants = 8
  BY <1>1, TopOf DEF Top, IsStack
<1>3. Top.kind \in Containers \cup Loaded \cup {"void"} /\ Top.wants \in Nat /\ Top.to_skip \in Nat
  <2>1. /\ Top.kind \in Containers \cup Loaded \cup {"void"}
        /\ Top.wants \in 0..(U32 - 1) /\ Top.to_skip \in 0..(U32 - 1)
    BY <1>2 DEF Entry
  <2> QED BY <2>1, WidthAssumption
<1>4. /\ offset \in Nat /\ tracks \in Seq(TrackIn(file))
      /\ video \in 0..Len(tracks) /\ audio \in 0..Len(tracks)
  BY <1>1 DEF TypeOK, TrackIn, boxes
<1>5. Position \in Nat /\ Len(tracks) \in Nat
  BY <1>3, <1>4 DEF Position
<1> QED
  BY <1>1, <1>2, <1>3, <1>4, <1>5

(* What to show of a step that goes on reading, ... *)
LEMMA GoesOn ==
  ASSUME IInv, pc = "feed", UNCHANGED <<file, pc>>,
         NEW r, r = stack', IsStack(r), offset' \in Nat,
         tracks' \in Seq(TrackIn(file)),
         video' \in 0..Len(tracks'), audio' \in 0..Len(tracks'),
         NEW position, position = Position',
         WellFormed(file) => PlacedIn(file, r, position),
         WellFormed(file) => Gathered(file, tracks', Known', position)
  PROVE  IInv'
<1>1. IsFile(file') /\ file' = file /\ pc' = "feed"
  BY DEF IInv
<1>2. r \in Seq(Entry) /\ Len(r) >= 1 /\ r[1].kind = "void" /\ r[1].wants = 0
  BY DEF IsStack
<1>3. r # <<>>
  BY <1>2
<1>4. TypeOK'
  <2>1. /\ stack' \in Seq(Entry) /\ stack' # <<>>
        /\ stack'[1].kind = "void" /\ stack'[1].wants = 0
    BY <1>2, <1>3
  <2>2. tracks' \in Seq(TrackIn(file'))
    BY <1>1
  <2> QED BY <1>1, <2>1, <2>2 DEF TypeOK, Entry, TrackIn, boxes
<1>5. Shape'
  BY DEF Shape
<1>6. Placed'
  BY <1>1 DEF Placed
<1>7. Accepted'
  BY <1>1 DEF Accepted
<1>8. Gathering'
  BY <1>1 DEF Gathering
<1>9. Finished'
  BY <1>1 DEF Finished
<1> QED
  BY <1>1, <1>4, <1>5, <1>6, <1>7, <1>8, <1>9 DEF IInv

(* A file that was passed is not cut in a header or in a box to load. *)
LEMMA NotCut ==
  ASSUME IInv, pc = "feed", WellFormed(file), Position >= file.size
  PROVE  ~Cut(file)
<1>1. IsFile(file) /\ IsStack(stack) /\ Len(stack) >= 1
  BY Reading DEF IsStack
<1>2. PICK p \in Nat : p = Position
  BY Reading
<1>3. PICK st : st = stack
  OBVIOUS
<1>4. file.size \in Nat /\ file.full \in Nat /\ p >= file.size
  BY <1>1, <1>2, FileOf
<1>5. Gathered(file, tracks, Known, p) /\ PlacedIn(file, st, p)
  BY <1>2, <1>3 DEF IInv, Gathering, Placed
<1>6. LoadedTo(file, tracks, p) /\ HeadersRead(file, p)
  BY <1>5 DEF Gathered
<1> SUFFICES ASSUME NEW b \in 1..Len(file.boxes),
                    \/ file.boxes[b].at < file.size /\ file.size < file.boxes[b].at + 8
                    \/ /\ IsLoaded(file, b) /\ file.boxes[b].at + 8 < file.size
                       /\ file.size < End(file, b)
             PROVE  FALSE
  BY DEF Cut, HeaderSize
<1>7. file.boxes[b].at \in Nat /\ End(file, b) \in Nat /\ End(file, b) <= file.full
  BY <1>1, BoxOf, WithinFile
<1>8. CASE file.boxes[b].at < file.size /\ file.size < file.boxes[b].at + 8
  <2>1. file.boxes[b].at < p
    BY <1>4, <1>7, <1>8
  <2>2. file.boxes[b].at + 8 <= file.size
    BY <1>6, <2>1 DEF HeadersRead, HeaderSize
  <2> QED BY <1>4, <1>7, <1>8, <2>2
<1>9. CASE /\ IsLoaded(file, b) /\ file.boxes[b].at + 8 < file.size
           /\ file.size < End(file, b)
  <2>1. ~(End(file, b) <= p)
    <3> SUFFICES ASSUME End(file, b) <= p PROVE FALSE
      OBVIOUS
    <3>1. b \in Due(file, p)
      BY <1>9 DEF Due
    <3>2. TrackOf(file, b) \in 1..Len(tracks) /\ b \in tracks[TrackOf(file, b)].loaded
      BY <1>6, <3>1 DEF LoadedTo
    <3>3. End(file, b) <= file.size
      BY <1>6, <3>2 DEF LoadedTo
    <3> QED BY <1>4, <1>7, <1>9, <3>3
  <2>2. file.boxes[b].at + 8 < p /\ p < End(file, b) /\ p < file.full
    BY <1>4, <1>7, <1>9, <2>1
  <2>3. ASSUME NEW c \in 1..Len(file.boxes), file.boxes[c].at = p \/ file.boxes[c].at + 8 = p
        PROVE  FALSE
    <3>1. file.boxes[c].at \in Nat
      BY <1>1, FileOf
    <3>2. c # b /\ file.boxes[b].at <= file.boxes[c].at
      BY <1>7, <2>2, <2>3, <3>1
    <3>3. End(file, b) <= file.boxes[c].at
      BY <1>1, <1>9, <3>2, BeginsIn, LoadedIsLeaf
    <3> QED BY <1>7, <2>2, <2>3, <3>1, <3>3
  <2>4. CASE \E q : AtBox(file, q, st, p)
    BY <2>3, <2>4, ChildOf DEF AtBox
  <2>5. CASE \E q, c : InBox(file, q, c, st, p)
    BY <2>3, <2>5, ChildOf DEF InBox, HeaderSize
  <2> QED BY <1>5, <2>2, <2>4, <2>5 DEF PlacedIn
<1> QED
  BY <1>8, <1>9

(* ... and of one that ends. *)
LEMMA Ends ==
  ASSUME IInv, pc = "feed", UNCHANGED <<file, tracks, video, audio>>,
         pc' \in {"done", "rejected", "aborted", "overrun"},
         NEW r, r = stack', r \in Seq(Entry), Len(r) >= 1,
         r[1].kind = "void", r[1].wants = 0, offset' \in Nat,
         WellFormed(file) /\ Supported(file) => pc' = "done" \/ (pc' = "overrun" /\ Cut(file)),
         WellFormed(file) /\ pc' = "done" => Position >= file.size
  PROVE  IInv'
<1>1. IsFile(file') /\ file' = file /\ pc' # "feed"
  BY DEF IInv
<1>2. /\ tracks \in Seq(TrackIn(file)) /\ tracks' = tracks
      /\ video' \in 0..Len(tracks') /\ audio' \in 0..Len(tracks')
  <2>1. /\ tracks \in Seq(TrackIn(file))
        /\ video \in 0..Len(tracks) /\ audio \in 0..Len(tracks)
    BY Reading
  <2> QED BY <2>1
<1>3. TypeOK'
  <2>1. /\ stack' \in Seq(Entry) /\ stack' # <<>>
        /\ stack'[1].kind = "void" /\ stack'[1].wants = 0
    BY DEF Entry
  <2>2. tracks' \in Seq(TrackIn(file'))
    BY <1>1, <1>2
  <2> QED BY <1>1, <1>2, <2>1, <2>2 DEF TypeOK, Entry, TrackIn, boxes
<1>4. Shape' /\ Placed'
  BY <1>1 DEF Shape, Placed
<1>5. Accepted'
  <2>1. WellFormed(file) /\ pc' = "done" => ~Cut(file)
    BY NotCut
  <2> QED BY <1>1, <2>1 DEF Accepted
<1>6. Gathering'
  BY <1>1 DEF Gathering
<1>7. Finished'
  <2> SUFFICES ASSUME WellFormed(file), pc' = "done"
               PROVE  LoadedTo(file, tracks, file.size) /\ ConfiguredTo(file, tracks, file.size)
    BY <1>1 DEF Finished
  <2>1. Gathered(file, tracks, Known, Position)
    BY DEF IInv, Gathering
  <2>2. IsFile(file) /\ Position \in Nat /\ Position >= file.size
    BY Reading
  <2> QED BY <2>1, <2>2, ToTheEnd
<1> QED
  BY <1>1, <1>3, <1>4, <1>5, <1>6, <1>7 DEF IInv

LEMMA Header ==
  ASSUME IInv, NEW b \in 1..Len(boxes), AtHeader(b)
  PROVE  /\ pc = "feed" /\ IsFile(file) /\ b \in 1..Len(file.boxes)
         /\ Position + 8 <= file.size /\ Position + 8 <= file.full
         /\ Position = file.boxes[b].at
         /\ Position + HeaderSize \in Nat
         /\ stack[Len(stack)].kind = Top.kind /\ Top.kind \in Containers /\ Len(stack) >= 2
         /\ file.boxes[b].size \in Int
         /\ Content(b) \in 0..(U32 - 1)
         /\ Content(b) = (file.boxes[b].size - HeaderSize) % U32
         /\ WellFormed(file) => \E q : AtBox(file, q, stack, Position)
<1>1. /\ pc = "feed" /\ Top.kind \in Containers /\ Position + 8 <= file.size
      /\ Position = file.boxes[b].at /\ b \in 1..Len(file.boxes)
  BY DEF AtHeader, boxes, HeaderSize
<1>2. IsFile(file) /\ Position \in Nat /\ Len(stack) >= 2
  BY <1>1, Reading
<1>3. file.size \in Nat /\ file.full \in Nat /\ file.size <= file.full
      /\ file.boxes[b].size \in 0..(U32 - 1)
  BY <1>1, <1>2, FileOf
<1>4. Position + 8 <= file.full /\ Position < file.full
  BY <1>1, <1>2, <1>3
<1>5. file.boxes[b].size \in Int /\ file.boxes[b].size - HeaderSize \in Int
  <2>1. file.boxes[b].size \in Int
    BY <1>3, WidthAssumption
  <2> QED BY <2>1 DEF HeaderSize
<1>6. Content(b) = (file.boxes[b].size - HeaderSize) % U32
  BY DEF Content, boxes
<1>7. Content(b) \in 0..(U32 - 1)
  BY <1>5, <1>6, Wrapped
<1>8. ASSUME WellFormed(file) PROVE \E q : AtBox(file, q, stack, Position)
  <2>1. PlacedIn(file, stack, Position)
    BY <1>1, <1>8 DEF IInv, Placed
  <2> QED BY <1>1, <1>2, <1>4, <2>1 DEF PlacedIn, Top
<1>9. Position + HeaderSize \in Nat
  BY <1>2 DEF HeaderSize
<1>10. stack[Len(stack)].kind = Top.kind
  BY DEF Top
<1> QED
  BY <1>1, <1>2, <1>4, <1>5, <1>6, <1>7, <1>8, <1>9, <1>10

LEMMA Taking ==
  ASSUME IInv, NEW b \in 1..Len(boxes), AtHeader(b), NEW n \in 0..(U32 - 1)
  PROVE  /\ IsStack(Take(b, n)) /\ Len(Take(b, n)) = Len(stack)
         /\ \A i \in 1..(Len(stack) - 1) : Take(b, n)[i] = stack[i]
         /\ Take(b, n)[Len(stack)].kind = stack[Len(stack)].kind
         /\ Take(b, n)[Len(stack)].total = (stack[Len(stack)].total - file.boxes[b].size) % U32
         /\ Take(b, n)[Len(stack)].to_skip = n
<1>1. IsStack(stack) /\ file.boxes[b].size \in Int
  BY Header, Reading
<1>2. PICK size \in Int : size = file.boxes[b].size
  BY <1>1
<1>3. PICK s : s = Take(b, n)
  OBVIOUS
<1>4. s = Taken(stack, size, n)
  BY <1>2, <1>3 DEF Take, Taken, boxes
<1>5. /\ IsStack(s) /\ Len(s) = Len(stack) /\ \A i \in 1..(Len(stack) - 1) : s[i] = stack[i]
      /\ s[Len(stack)].kind = stack[Len(stack)].kind
      /\ s[Len(stack)].total = (stack[Len(stack)].total - size) % U32
      /\ s[Len(stack)].to_skip = n
  BY <1>1, <1>4, TakenFrom
<1> QED
  BY <1>2, <1>3, <1>5

(* What a header, or all of a box that is skipped, makes of the tables. *)
LEMMA AtHeaderOf ==
  ASSUME IInv, NEW b \in 1..Len(boxes), AtHeader(b), WellFormed(file),
         NEW position, position = Position
  PROVE  /\ Top.kind = KindAround(file, b) /\ tracks \in Seq(TrackIn(file))
         /\ IsFile(file) /\ b \in 1..Len(file.boxes) /\ position = file.boxes[b].at
         /\ Gathered(file, tracks, Known, position)
<1>1. PICK st : st = stack
  OBVIOUS
<1>2. /\ pc = "feed" /\ IsFile(file) /\ b \in 1..Len(file.boxes) /\ position = file.boxes[b].at
      /\ \E q : AtBox(file, q, stack, position)
  BY Header
<1>3. IsStack(st) /\ tracks \in Seq(TrackIn(file))
  BY <1>1, <1>2, Reading
<1>4. PICK q : AtBox(file, q, st, position)
  BY <1>1, <1>2
<1>5. st[Len(st)].kind = KindAround(file, b)
  BY <1>2, <1>3, <1>4, Located
<1>6. Top.kind = KindAround(file, b)
  BY <1>1, <1>5 DEF Top
<1>7. Gathered(file, tracks, Known, position)
  BY <1>2 DEF IInv, Gathering
<1> QED
  BY <1>2, <1>3, <1>6, <1>7

LEMMA HeaderRead ==
  ASSUME IInv, NEW b \in 1..Len(boxes), AtHeader(b), WellFormed(file),
         NEW position, position = Position
  PROVE  /\ HeadersRead(file, position + 8)
         /\ ~IsDescended(file, b) => HeadersRead(file, EndInside(file, b))
<1>1. /\ IsFile(file) /\ b \in 1..Len(file.boxes) /\ position = file.boxes[b].at
      /\ HeadersRead(file, position)
  BY AtHeaderOf DEF Gathered
<1>2. position + 8 <= file.size /\ position \in Nat /\ position <= position
  BY <1>1, Header, FileOf
<1> QED
  BY <1>1, <1>2, HeadersPass

LEMMA OpenGathers ==
  ASSUME IInv, NEW b \in 1..Len(boxes), AtHeader(b), WellFormed(file), ~IsTrak(file, b),
         NEW position, position = Position
  PROVE  Gathered(file, tracks, Known, position + HeaderSize)
<1>1. /\ IsFile(file) /\ b \in 1..Len(file.boxes) /\ position = file.boxes[b].at
      /\ Gathered(file, tracks, Known, position)
  BY AtHeaderOf
<1>2. Due(file, position + 8) = Due(file, position) /\ Begun(file, position + 8) = Begun(file, position)
  <2>1. /\ Due(file, position + 8) = Due(file, position)
        /\ Begun(file, position + 8)
             = Begun(file, position) \cup (IF IsTrak(file, b) THEN {b} ELSE {})
    BY <1>1, HeaderPasses
  <2> QED BY <2>1
<1>3. Gathered(file, tracks, Known, position + 8)
  <2>1. HeadersRead(file, position + 8)
    BY HeaderRead
  <2> QED BY <1>1, <1>2, <2>1, StillGathered
<1> QED
  BY <1>3 DEF HeaderSize

LEMMA DescendGathers ==
  ASSUME IInv, NEW b \in 1..Len(boxes), AtHeader(b), WellFormed(file),
         Descends(Top.kind, file.boxes[b].type), NEW position, position = Position
  PROVE  Gathered(file, TracksWith(file.boxes[b].type), Known, position + HeaderSize)
<1>1. /\ IsFile(file) /\ b \in 1..Len(file.boxes) /\ position = file.boxes[b].at
      /\ Gathered(file, tracks, Known, position)
      /\ tracks \in Seq(TrackIn(file)) /\ Top.kind = KindAround(file, b)
  BY AtHeaderOf
<1>2. IsDescended(file, b)
  BY <1>1 DEF IsDescended
<1>3. CASE file.boxes[b].type = "trak"
  <2>1. IsTrak(file, b)
    BY <1>2, <1>3 DEF IsTrak
  <2>2. /\ Due(file, position + 8) = Due(file, position)
        /\ Begun(file, position + 8) = Begun(file, position) \cup {b}
        /\ b \notin Begun(file, position)
    BY <1>1, <2>1, HeaderPasses
  <2>3. PICK U : U = Append(tracks, NewTrack)
    OBVIOUS
  <2>4. Gathered(file, U, Known, position + 8)
    BY <1>1, <2>2, <2>3, HeaderRead, TrackStarted
  <2>5. TracksWith(file.boxes[b].type) = U
    BY <1>3, <2>3 DEF TracksWith
  <2> QED BY <2>4, <2>5 DEF HeaderSize
<1>4. CASE file.boxes[b].type # "trak"
  <2>1. ~IsTrak(file, b)
    BY <1>4 DEF IsTrak
  <2>2. TracksWith(file.boxes[b].type) = tracks
    BY <1>4 DEF TracksWith
  <2> QED BY <2>1, <2>2, OpenGathers
<1> QED
  BY <1>3, <1>4

LEMMA SkipGathers ==
  ASSUME IInv, NEW b \in 1..Len(boxes), AtHeader(b), WellFormed(file),
         ~Descends(Top.kind, file.boxes[b].type), ~Loads(Top.kind, file.boxes[b].type),
         NEW position, position = Position,
         NEW rest, rest = (file.boxes[b].size - HeaderSize) % U32
  PROVE  Gathered(file, tracks, Known, position + HeaderSize + rest)
<1>1. /\ IsFile(file) /\ b \in 1..Len(file.boxes) /\ position = file.boxes[b].at
      /\ Gathered(file, tracks, Known, position) /\ Top.kind = KindAround(file, b)
  BY AtHeaderOf
<1>2. ~IsDescended(file, b) /\ ~IsLoaded(file, b)
  BY <1>1 DEF IsDescended, IsLoaded
<1>3. PICK to : to = EndInside(file, b)
  OBVIOUS
<1>4. Due(file, to) = Due(file, position) /\ Begun(file, to) = Begun(file, position)
  BY <1>1, <1>2, <1>3, SkipPasses
<1>5. Gathered(file, tracks, Known, to)
  <2>1. HeadersRead(file, to)
    BY <1>2, <1>3, HeaderRead
  <2> QED BY <1>1, <1>4, <2>1, StillGathered
<1>6. position + HeaderSize + rest = to
  BY <1>1, <1>3, ContentEnd
<1> QED
  BY <1>5, <1>6

(* The entry of b is pushed. *)
Opens(f, b, s, r, wants) ==
  /\ IsStack(r) /\ Len(r) = Len(s) + 1 /\ \A i \in 1..Len(s) : r[i] = s[i]
  /\ r[Len(s) + 1].kind = f.boxes[b].type
  /\ r[Len(s) + 1].total = (f.boxes[b].size - HeaderSize) % U32
  /\ r[Len(s) + 1].wants = wants
  /\ r[Len(r)].to_skip = 0

LEMMA Opening ==
  ASSUME IInv, NEW b \in 1..Len(boxes), AtHeader(b),
         boxes[b].type \in Containers \cup Loaded,
         NEW wants \in 0..(U32 - 1), boxes[b].type \in Containers => wants = HeaderSize,
         NEW r, r = Append(Take(b, 0), Frame(boxes[b].type, Content(b), wants))
  PROVE  Opens(file, b, Take(b, 0), r, wants)
<1>1. PICK s : s = Take(b, 0)
  OBVIOUS
<1>2. PICK e : e = Frame(boxes[b].type, Content(b), wants)
  OBVIOUS
<1>3. 0 \in 0..(U32 - 1)
  BY WidthAssumption DEF HeaderSize
<1>4. /\ Content(b) \in 0..(U32 - 1) /\ Top.kind \in Containers /\ Len(stack) >= 2
      /\ Content(b) = (file.boxes[b].size - HeaderSize) % U32
      /\ stack[Len(stack)].kind = Top.kind
  BY Header
<1>5. /\ e \in Entry /\ e.kind = file.boxes[b].type /\ e.wants = wants /\ e.to_skip = 0
      /\ e.total = Content(b)
  BY <1>2, <1>4, FrameIs DEF boxes
<1>6. /\ IsStack(s) /\ Len(s) = Len(stack) /\ s[Len(stack)].kind = stack[Len(stack)].kind
      /\ s[Len(stack)].to_skip = 0
  BY <1>1, <1>3, Taking
<1>7. e.kind # "void" /\ (e.kind \in Containers => e.wants = HeaderSize)
  <2>1. "void" \notin Containers \cup Loaded
    BY DEF Containers, Loaded
  <2> QED BY <1>5, <2>1 DEF boxes
<1>8. r = Append(s, e)
  BY <1>1, <1>2
<1>9. Len(s) >= 2 /\ s[Len(s)].kind \in Containers /\ s[Len(s)].to_skip = 0
  BY <1>4, <1>6
<1>10. /\ IsStack(r) /\ Len(r) = Len(s) + 1
       /\ \A i \in 1..Len(s) : r[i] = s[i]
       /\ r[Len(s) + 1] = e
  BY <1>5, <1>6, <1>7, <1>8, <1>9, Pushed
<1>11. r[Len(r)].to_skip = 0
  BY <1>5, <1>10
<1>12. r[Len(s) + 1].total = (file.boxes[b].size - HeaderSize) % U32
  BY <1>4, <1>5, <1>10
<1> QED
  BY <1>1, <1>5, <1>10, <1>11, <1>12 DEF Opens

LEMMA DescendHolds ==
  ASSUME IInv, NEW b \in 1..Len(boxes), Descend(b)
  PROVE  IInv'
<1>1. /\ AtHeader(b) /\ Descends(Top.kind, file.boxes[b].type) /\ pc = "feed"
      /\ offset' = Position + HeaderSize
      /\ tracks' = TracksWith(boxes[b].type)
      /\ UNCHANGED <<file, video, audio, pc>>
  BY DEF Descend, boxes, AtHeader
<1>2. PICK r : r = stack'
  OBVIOUS
<1>3. r = Append(Take(b, 0), Frame(boxes[b].type, Content(b), HeaderSize))
  BY <1>2 DEF Descend
<1>4. boxes[b].type \in Containers \cup Loaded
  BY <1>1 DEF Descends, Containers, boxes
<1>5. HeaderSize \in 0..(U32 - 1) /\ 0 \in 0..(U32 - 1)
  BY WidthAssumption DEF HeaderSize
<1>6. PICK s : s = Take(b, 0)
  OBVIOUS
<1>7. /\ Len(s) = Len(stack) /\ \A i \in 1..(Len(stack) - 1) : s[i] = stack[i]
      /\ s[Len(stack)].kind = stack[Len(stack)].kind
      /\ s[Len(stack)].total = (stack[Len(stack)].total - file.boxes[b].size) % U32
  BY <1>1, <1>5, <1>6, Taking
<1>8. /\ IsStack(r) /\ Len(r) = Len(s) + 1 /\ \A i \in 1..Len(s) : r[i] = s[i]
      /\ r[Len(s) + 1].kind = file.boxes[b].type
      /\ r[Len(s) + 1].total = (file.boxes[b].size - HeaderSize) % U32
      /\ r[Len(r)].to_skip = 0
  <2>1. Opens(file, b, Take(b, 0), r, HeaderSize)
    BY <1>1, <1>3, <1>4, <1>5, Opening
  <2> QED BY <1>6, <2>1 DEF Opens
<1>9. PICK position : position = Position
  OBVIOUS
<1>10. /\ IsFile(file) /\ position = file.boxes[b].at /\ b \in 1..Len(file.boxes)
       /\ position + HeaderSize \in Nat
       /\ WellFormed(file) => \E q : AtBox(file, q, stack, position)
  BY <1>1, <1>9, Header
<1>11. PICK st : st = stack
  OBVIOUS
<1>12. ASSUME WellFormed(file) PROVE PlacedIn(file, r, position + HeaderSize)
  <2>1. IsStack(st)
    BY <1>1, <1>11, Reading
  <2>2. PICK q : AtBox(file, q, st, position)
    BY <1>10, <1>11, <1>12
  <2>3. IsDescended(file, b)
    <3>1. st[Len(st)].kind = KindAround(file, b)
      BY <1>10, <1>12, <2>1, <2>2, Located
    <3>2. Top.kind = st[Len(st)].kind
      BY <1>11 DEF Top
    <3> QED BY <1>1, <3>1, <3>2 DEF IsDescended
  <2>4. /\ Len(s) = Len(st) /\ \A i \in 1..(Len(st) - 1) : s[i] = st[i]
        /\ s[Len(st)].kind = st[Len(st)].kind
        /\ s[Len(st)].total = (st[Len(st)].total - file.boxes[b].size) % U32
    BY <1>7, <1>11
  <2>5. AtBox(file, Append(q, b), r, position + HeaderSize)
    BY <1>8, <1>10, <1>12, <2>1, <2>2, <2>3, <2>4, WhenDescended, SMTT(30)
  <2>6. r[Len(r)].kind \in Containers
    <3>1. r[Len(r)].kind = file.boxes[b].type
      BY <1>8
    <3> QED BY <1>1, <3>1 DEF Descends, Containers
  <2>7. Len(r) >= 2
    <3>1. Len(stack) >= 2 /\ Len(stack) \in Nat
      BY <1>1, Header, Reading
    <3> QED BY <1>7, <1>8, <3>1
  <2> QED BY <2>5, <2>6, <2>7 DEF PlacedIn
<1>13. /\ tracks' \in Seq(TrackIn(file)) /\ video' \in 0..Len(tracks')
       /\ audio' \in 0..Len(tracks')
  <2>1. /\ tracks \in Seq(TrackIn(file)) /\ Len(tracks) \in Nat
        /\ video \in 0..Len(tracks) /\ audio \in 0..Len(tracks)
    BY <1>1, Reading
  <2>2. NewTrack \in TrackIn(file)
    <3>1. Len(file.boxes) \in Nat
      BY <1>10, FileOf
    <3> QED BY <3>1 DEF NewTrack, TrackIn
  <2>3. tracks' = tracks \/ tracks' = Append(tracks, NewTrack)
    BY <1>1 DEF TracksWith
  <2>4. tracks' \in Seq(TrackIn(file)) /\ Len(tracks) <= Len(tracks') /\ Len(tracks') \in Nat
    BY <2>1, <2>2, <2>3
  <2> QED BY <1>1, <2>1, <2>4
<1>14. Position' = position + HeaderSize
  <2>1. Position' = offset' + r[Len(r)].to_skip
    BY <1>2 DEF Position, Top
  <2>2. offset' = position + HeaderSize
    BY <1>1, <1>9
  <2> QED BY <1>8, <1>10, <2>1, <2>2
<1>15. offset' \in Nat
  BY <1>1, <1>9, <1>10
<1>16. ASSUME WellFormed(file)
       PROVE  Gathered(file, tracks', Known', position + HeaderSize)
  <2>1. Gathered(file, TracksWith(file.boxes[b].type), Known, position + HeaderSize)
    BY <1>1, <1>9, <1>16, DescendGathers
  <2> QED BY <1>1, <2>1 DEF boxes, Known
<1> QED
  BY <1>1, <1>2, <1>8, <1>12, <1>13, <1>14, <1>15, <1>16, GoesOn

LEMMA StartLoadHolds ==
  ASSUME IInv, NEW b \in 1..Len(boxes), StartLoad(b)
  PROVE  IInv'
<1>1. /\ AtHeader(b) /\ Loads(Top.kind, file.boxes[b].type) /\ pc = "feed"
      /\ offset' = Position + HeaderSize
      /\ UNCHANGED <<file, tracks, video, audio, pc>>
  BY DEF StartLoad, boxes, AtHeader
<1>2. PICK r : r = stack'
  OBVIOUS
<1>3. r = Append(Take(b, 0), Frame(boxes[b].type, Content(b), Content(b)))
  BY <1>2 DEF StartLoad
<1>4. /\ boxes[b].type \in Loaded /\ boxes[b].type \notin Containers
      /\ boxes[b].type \in Containers \cup Loaded
  BY <1>1 DEF Loads, Containers, Loaded, boxes
<1>5. 0 \in 0..(U32 - 1)
  BY WidthAssumption DEF HeaderSize
<1>6. PICK s : s = Take(b, 0)
  OBVIOUS
<1>7. /\ Len(s) = Len(stack) /\ \A i \in 1..(Len(stack) - 1) : s[i] = stack[i]
      /\ s[Len(stack)].kind = stack[Len(stack)].kind
      /\ s[Len(stack)].total = (stack[Len(stack)].total - file.boxes[b].size) % U32
  BY <1>1, <1>5, <1>6, Taking
<1>8. /\ IsStack(r) /\ Len(r) = Len(s) + 1 /\ \A i \in 1..Len(s) : r[i] = s[i]
      /\ r[Len(s) + 1].kind = file.boxes[b].type
      /\ r[Len(s) + 1].total = (file.boxes[b].size - HeaderSize) % U32
      /\ r[Len(s) + 1].wants = (file.boxes[b].size - HeaderSize) % U32
      /\ r[Len(r)].to_skip = 0
  <2>1. Content(b) \in 0..(U32 - 1)
    BY <1>1, Header
  <2>2. Opens(file, b, Take(b, 0), r, Content(b))
    BY <1>1, <1>3, <1>4, <2>1, Opening
  <2>3. Content(b) = (file.boxes[b].size - HeaderSize) % U32
    BY DEF Content, boxes
  <2> QED BY <1>6, <2>2, <2>3 DEF Opens
<1>9. PICK position : position = Position
  OBVIOUS
<1>10. /\ IsFile(file) /\ position = file.boxes[b].at /\ b \in 1..Len(file.boxes)
       /\ position + HeaderSize \in Nat
       /\ WellFormed(file) => \E q : AtBox(file, q, stack, position)
  BY <1>1, <1>9, Header
<1>11. PICK st : st = stack
  OBVIOUS
<1>12. ASSUME WellFormed(file) PROVE PlacedIn(file, r, position + HeaderSize)
  <2>1. IsStack(st)
    BY <1>1, <1>11, Reading
  <2>2. PICK q : AtBox(file, q, st, position)
    BY <1>10, <1>11, <1>12
  <2>3. IsLoaded(file, b)
    <3>1. st[Len(st)].kind = KindAround(file, b)
      BY <1>10, <1>12, <2>1, <2>2, Located
    <3>2. Top.kind = st[Len(st)].kind
      BY <1>11 DEF Top
    <3> QED BY <1>1, <3>1, <3>2 DEF IsLoaded
  <2>4. /\ Len(s) = Len(st) /\ \A i \in 1..(Len(st) - 1) : s[i] = st[i]
        /\ s[Len(st)].kind = st[Len(st)].kind
        /\ s[Len(st)].total = (st[Len(st)].total - file.boxes[b].size) % U32
    BY <1>7, <1>11
  <2>5. InBox(file, q, b, r, position + HeaderSize)
    <3>1. PICK rest : rest = (file.boxes[b].size - HeaderSize) % U32
      OBVIOUS
    <3>2. r[Len(s) + 1].total = rest /\ r[Len(s) + 1].wants = rest
      BY <1>8, <3>1
    <3>3. /\ Len(r) = Len(s) + 1 /\ \A i \in 1..Len(s) : r[i] = s[i]
          /\ r[Len(s) + 1].kind = file.boxes[b].type
      BY <1>8
    <3> QED BY <1>10, <1>12, <2>1, <2>2, <2>3, <2>4, <3>1, <3>2, <3>3, WhenOpened
  <2>6. r[Len(r)].kind \notin Containers
    <3>1. r[Len(r)].kind = file.boxes[b].type
      BY <1>8
    <3> QED BY <1>4, <3>1 DEF boxes
  <2>7. Len(r) >= 2
    <3>1. Len(stack) >= 2 /\ Len(stack) \in Nat
      BY <1>1, Header, Reading
    <3> QED BY <1>7, <1>8, <3>1
  <2> QED BY <2>5, <2>6, <2>7 DEF PlacedIn
<1>13. /\ tracks' \in Seq(TrackIn(file)) /\ video' \in 0..Len(tracks')
       /\ audio' \in 0..Len(tracks')
  <2>1. /\ tracks \in Seq(TrackIn(file))
        /\ video \in 0..Len(tracks) /\ audio \in 0..Len(tracks)
    BY <1>1, Reading
  <2> QED BY <1>1, <2>1
<1>14. Position' = position + HeaderSize
  <2>1. Position' = offset' + r[Len(r)].to_skip
    BY <1>2 DEF Position, Top
  <2>2. offset' = position + HeaderSize
    BY <1>1, <1>9
  <2> QED BY <1>8, <1>10, <2>1, <2>2
<1>15. offset' \in Nat
  BY <1>1, <1>9, <1>10
<1>16. ASSUME WellFormed(file)
       PROVE  Gathered(file, tracks', Known', position + HeaderSize)
  <2>1. ~IsTrak(file, b)
    BY <1>1 DEF IsTrak, Loads
  <2>2. Gathered(file, tracks, Known, position + HeaderSize)
    BY <1>1, <1>9, <1>16, <2>1, OpenGathers
  <2> QED BY <1>1, <2>2 DEF Known
<1> QED
  BY <1>1, <1>2, <1>8, <1>12, <1>13, <1>14, <1>15, <1>16, GoesOn

LEMMA SkipBoxHolds ==
  ASSUME IInv, NEW b \in 1..Len(boxes), SkipBox(b)
  PROVE  IInv'
<1>1. /\ AtHeader(b) /\ pc = "feed" /\ offset' = Position + HeaderSize
      /\ UNCHANGED <<file, tracks, video, audio, pc>>
  BY DEF SkipBox, AtHeader
<1>2. PICK rest : rest = Content(b)
  OBVIOUS
<1>3. PICK s : s = Take(b, rest)
  OBVIOUS
<1>4. PICK r : r = stack'
  OBVIOUS
<1>5. r = PopEmpty(s)
  BY <1>2, <1>3, <1>4 DEF SkipBox
<1>6. PICK position : position = Position
  OBVIOUS
<1>7. /\ IsFile(file) /\ position = file.boxes[b].at /\ b \in 1..Len(file.boxes)
      /\ position + HeaderSize \in Nat
      /\ stack[Len(stack)].kind \in Containers
      /\ rest \in 0..(U32 - 1) /\ rest = (file.boxes[b].size - HeaderSize) % U32
      /\ WellFormed(file) => \E q : AtBox(file, q, stack, position)
  BY <1>1, <1>2, <1>6, Header
<1>8. PICK st : st = stack
  OBVIOUS
<1>9. /\ IsStack(s) /\ Len(s) = Len(st) /\ \A i \in 1..(Len(st) - 1) : s[i] = st[i]
      /\ s[Len(st)].kind = st[Len(st)].kind
      /\ s[Len(st)].total = (st[Len(st)].total - file.boxes[b].size) % U32
      /\ s[Len(st)].to_skip = rest
  BY <1>1, <1>3, <1>7, <1>8, Taking
<1>10. IsStack(r)
  BY <1>5, <1>9, PoppedIsStack
<1>11. PICK end : end = position + HeaderSize + rest
  OBVIOUS
<1>12. ASSUME WellFormed(file) PROVE PlacedIn(file, r, end)
  <2>1. IsStack(st) /\ st[Len(st)].kind \in Containers
    BY <1>1, <1>7, <1>8, Reading
  <2>2. PICK q : AtBox(file, q, st, position)
    BY <1>7, <1>8, <1>12
  <2>3. PlacedIn(file, PopEmpty(s), end)
    BY <1>7, <1>9, <1>11, <1>12, <2>1, <2>2, WhenSkipped
  <2> QED BY <1>5, <2>3
<1>13. Position' = end
  <2>1. Position' = offset' + r[Len(r)].to_skip
    BY <1>4 DEF Position, Top
  <2>2. r[Len(r)].to_skip = rest
    <3>1. PICK k \in 1..Len(s) : Len(r) = k /\ r[k].to_skip = s[Len(s)].to_skip
      BY <1>5, <1>9, Popped
    <3>2. s[Len(s)].to_skip = rest
      BY <1>9
    <3> QED BY <3>1, <3>2
  <2>3. offset' = position + HeaderSize
    BY <1>1, <1>6
  <2> QED BY <1>11, <2>1, <2>2, <2>3
<1>14. offset' \in Nat
  BY <1>1, <1>6, <1>7
<1>15. /\ tracks' \in Seq(TrackIn(file)) /\ video' \in 0..Len(tracks')
       /\ audio' \in 0..Len(tracks')
  <2>1. /\ tracks \in Seq(TrackIn(file))
        /\ video \in 0..Len(tracks) /\ audio \in 0..Len(tracks)
    BY <1>1, Reading
  <2> QED BY <1>1, <2>1
<1>16. ASSUME WellFormed(file) PROVE Gathered(file, tracks', Known', end)
  <2>1. ~Descends(Top.kind, file.boxes[b].type) /\ ~Loads(Top.kind, file.boxes[b].type)
    BY DEF SkipBox, boxes
  <2>2. Gathered(file, tracks, Known, position + HeaderSize + rest)
    BY <1>1, <1>6, <1>7, <1>16, <2>1, SkipGathers
  <2> QED BY <1>1, <1>11, <2>2 DEF Known
<1> QED
  BY <1>1, <1>4, <1>10, <1>12, <1>13, <1>14, <1>15, <1>16, GoesOn

(* Where the content of b is read. *)
LEMMA AtContent ==
  ASSUME IInv, pc = "feed", WellFormed(file), Top.kind \notin Containers, Top.wants # 0,
         Position < file.full
  PROVE  \E q, b : /\ InBox(file, q, b, stack, Position)
                   /\ b \in 1..Len(file.boxes)
                   /\ Position + Top.wants = EndInside(file, b)
                   /\ file.boxes[b].size # 0 /\ EndInside(file, b) = End(file, b)
                   /\ End(file, b) <= file.full
<1>1. IsFile(file) /\ IsStack(stack) /\ Len(stack) >= 2
  BY Reading
<1>2. PlacedIn(file, stack, Position)
  BY DEF IInv, Placed
<1>3. PICK q, b : InBox(file, q, b, stack, Position)
  BY <1>1, <1>2 DEF PlacedIn, Top
<1>4. /\ Inside(file, q) /\ b \in Children(file, Innermost(q)) /\ IsLoaded(file, b)
      /\ End(file, b) <= file.full /\ file.boxes[b].at + HeaderSize = Position
      /\ Top.wants = (file.boxes[b].size - HeaderSize) % U32
  BY <1>3 DEF InBox, Top
<1>5. b \in 1..Len(file.boxes)
  BY <1>4, ChildOf
<1>6. Position + Top.wants = EndInside(file, b)
  <2>1. PICK at : at = file.boxes[b].at
    OBVIOUS
  <2>2. PICK rest : rest = Top.wants
    OBVIOUS
  <2>3. at + HeaderSize + rest = EndInside(file, b)
    BY <1>1, <1>4, <1>5, <2>1, <2>2, ContentEnd
  <2>4. Position = at + HeaderSize
    BY <1>4, <2>1
  <2> QED BY <2>2, <2>3, <2>4
<1>7. file.boxes[b].size # 0
  <2> SUFFICES ASSUME file.boxes[b].size = 0 PROVE FALSE
    OBVIOUS
  <2>1. KindAround(file, b) = "top"
    BY <1>1, <1>4, InContainer
  <2> QED BY <1>4, <2>1 DEF IsLoaded, Loads
<1>8. EndInside(file, b) = End(file, b)
  BY <1>1, <1>5, <1>7, EndsOf
<1> QED
  BY <1>3, <1>4, <1>5, <1>6, <1>7, <1>8

(* The stack without its top. *)
LEMMA Below ==
  ASSUME NEW st, IsStack(st), Len(st) >= 2, NEW s, s = SubSeq(st, 1, Len(st) - 1)
  PROVE  /\ IsStack(s) /\ Len(s) = Len(st) - 1 /\ \A i \in 1..Len(s) : s[i] = st[i]
         /\ s[Len(s)].to_skip = 0
<1>1. PICK l \in Nat : l = Len(st)
  BY TopOf
<1>2. /\ st \in Seq(Entry) /\ l >= 2 /\ st[1].kind = "void" /\ st[1].wants = 0
      /\ st[2].kind = "top"
      /\ \A i \in 2..l :
           /\ st[i].kind # "void"
           /\ st[i].kind \in Containers => st[i].wants = HeaderSize
           /\ i < l => st[i].kind \in Containers
      /\ \A i \in 1..(l - 1) : st[i].to_skip = 0
  BY <1>1 DEF IsStack
<1>3. s \in Seq(Entry) /\ Len(s) = l - 1 /\ \A i \in 1..(l - 1) : s[i] = st[i]
  BY <1>1, <1>2
<1>4. 1 \in 1..(l - 1) /\ l - 1 \in 1..(l - 1) /\ (l - 1 >= 2 => 2 \in 1..(l - 1)) /\ l - 1 >= 1
  BY <1>1, <1>2
<1>5. ASSUME NEW i \in 2..(l - 1)
      PROVE  /\ s[i].kind # "void"
             /\ s[i].kind \in Containers => s[i].wants = HeaderSize
             /\ i < l - 1 => s[i].kind \in Containers
  <2>1. i \in 1..(l - 1) /\ i \in 2..l /\ i < l
    BY <1>1, <1>2
  <2> QED BY <1>2, <1>3, <2>1
<1>6. \A i \in 1..((l - 1) - 1) : s[i].to_skip = 0
  <2>1. ASSUME NEW i \in 1..((l - 1) - 1) PROVE s[i].to_skip = 0
    <3>1. i \in 1..(l - 1)
      BY <1>1, <1>2
    <3> QED BY <1>2, <1>3, <3>1
  <2> QED BY <2>1
<1>7. /\ s[1].kind = "void" /\ s[1].wants = 0
      /\ l - 1 >= 2 => s[2].kind = "top"
  BY <1>2, <1>3, <1>4
<1>8. IsStack(s)
  BY <1>3, <1>4, <1>5, <1>6, <1>7 DEF IsStack
<1>9. s[Len(s)].to_skip = 0
  BY <1>2, <1>3, <1>4
<1> QED
  BY <1>1, <1>3, <1>8, <1>9

LEMMA LoadedTracks ==
  ASSUME NEW f, NEW T \in Seq(TrackIn(f)), NEW b \in 1..Len(f.boxes), NEW c \in BOOLEAN
  PROVE  LoadedIn(T, b, c) \in Seq(TrackIn(f)) /\ Len(LoadedIn(T, b, c)) = Len(T)
<1> DEFINE t == Len(T)
           x == IF c THEN b ELSE T[t].extradata
           e == [T[t] EXCEPT !.loaded = @ \cup {b}, !.extradata = x]
<1>1. t \in Nat
  OBVIOUS
<1>2. CASE t = 0
  <2>1. T = <<>>
    BY <1>2
  <2>2. LoadedIn(T, b, c) = <<>>
    BY <2>1 DEF LoadedIn
  <2> QED BY <2>1, <2>2
<1>3. CASE t # 0
  <2>1. t \in 1..t
    BY <1>1, <1>3
  <2>2. T[t] \in TrackIn(f)
    BY <2>1, ElementOf, Zenon
  <2>3. T[t].loaded \in SUBSET (1..Len(f.boxes)) /\ T[t].extradata \in 0..Len(f.boxes)
    BY <2>2 DEF TrackIn
  <2>4. x \in 0..Len(f.boxes) /\ T[t].loaded \cup {b} \in SUBSET (1..Len(f.boxes))
    BY <2>3
  <2> HIDE DEF x
  <2>5. e \in TrackIn(f)
    BY <2>2, <2>4 DEF TrackIn
  <2>6. LoadedIn(T, b, c) = [T EXCEPT ![t] = e]
    BY <2>1, <2>2 DEF LoadedIn, x, TrackIn
  <2> HIDE DEF e, t
  <2>7. [T EXCEPT ![t] = e] \in Seq(TrackIn(f)) /\ Len([T EXCEPT ![t] = e]) = Len(T)
    BY <2>1, <2>5 DEF t
  <2> QED BY <2>6, <2>7
<1> QED
  BY <1>2, <1>3

(* The box whose content is read belongs to the last track, whose kind is    *)
(* one that was told.                                                        *)
LEMMA ContentRead ==
  ASSUME IInv, NEW b \in 1..Len(boxes), AtContentOf(b), WellFormed(file)
  PROVE  /\ IsLoaded(file, b) /\ Position = file.boxes[b].at + 8
         /\ Position + Top.wants = End(file, b) /\ End(file, b) <= file.size
         /\ Due(file, End(file, b)) = Due(file, Position) \cup {b}
         /\ Begun(file, End(file, b)) = Begun(file, Position)
         /\ \A x \in Due(file, Position) : x < b
         /\ HeadersRead(file, End(file, b))
         /\ TrackOf(file, b) = Len(tracks) /\ Len(tracks) \in 1..Len(tracks)
         /\ KindOf(Len(tracks)) \in KindsTold(file, b) \cup {"other"}
         /\ IsKnown(Known, Len(tracks)) => KindOf(Len(tracks)) \in KindsTold(file, b)
<1>1. /\ pc = "feed" /\ Top.kind \notin Containers /\ Top.wants # 0
      /\ Position + Top.wants <= file.size /\ file.boxes[b].at + HeaderSize = Position
      /\ b \in 1..Len(file.boxes)
  BY DEF AtContentOf, boxes
<1>2. /\ IsFile(file) /\ Position \in Nat /\ Top.wants \in Nat
      /\ tracks \in Seq(TrackIn(file))
  BY <1>1, Reading
<1>3. Position < file.full /\ Position <= file.size
  <2>1. file.size \in Nat /\ file.full \in Nat /\ file.size <= file.full
    BY <1>2, FileOf
  <2> QED BY <1>1, <1>2, <2>1
<1>4. PICK q, c : /\ InBox(file, q, c, stack, Position) /\ c \in 1..Len(file.boxes)
                  /\ Position + Top.wants = EndInside(file, c)
                  /\ EndInside(file, c) = End(file, c)
  BY <1>1, <1>3, AtContent
<1>5. b = c
  <2>1. file.boxes[c].at + 8 = file.boxes[b].at + 8
    BY <1>1, <1>4 DEF InBox, HeaderSize
  <2>2. file.boxes[c].at \in Nat /\ file.boxes[b].at \in Nat
    BY <1>1, <1>2, <1>4, FileOf
  <2>3. file.boxes[c].at = file.boxes[b].at
    BY <2>1, <2>2
  <2> QED BY <1>1, <1>2, <1>4, <2>3, OneBox
<1>6. /\ Inside(file, q) /\ b \in Children(file, Innermost(q)) /\ IsLoaded(file, b)
      /\ Position = file.boxes[b].at + 8
  BY <1>1, <1>4, <1>5 DEF InBox, HeaderSize
<1>7. PICK from, to : from = Position /\ to = Position + Top.wants
  OBVIOUS
<1>8. to = End(file, b) /\ End(file, b) <= file.size
  BY <1>1, <1>4, <1>5, <1>7
<1>9. /\ Due(file, to) = Due(file, from) \cup {b} /\ Begun(file, to) = Begun(file, from)
      /\ \A x \in Due(file, from) : x < b
  BY <1>1, <1>2, <1>6, <1>7, <1>8, LoadPasses
<1>10. Gathered(file, tracks, Known, from)
  BY <1>1, <1>7 DEF IInv, Gathering
<1>11. TrackOf(file, b) = Len(tracks) /\ Len(tracks) \in 1..Len(tracks)
  <2>1. Len(tracks) = Cardinality(Begun(file, from))
    BY <1>10 DEF Gathered
  <2>2. /\ TrackOf(file, b) = Cardinality(Begun(file, from))
        /\ Cardinality(Begun(file, from)) \in 1..Cardinality(Begun(file, from))
    BY <1>2, <1>6, <1>7, TracksBegun
  <2> QED BY <2>1, <2>2
<1>12. HeadersRead(file, to)
  <2>1. HeadersRead(file, from) /\ from \in Nat
    BY <1>2, <1>7, <1>10 DEF Gathered
  <2>2. file.boxes[b].at <= from /\ file.boxes[b].at + 8 <= file.size
    <3>1. file.boxes[b].at \in Nat
      BY <1>1, <1>2, FileOf
    <3> QED BY <1>3, <1>6, <1>7, <3>1
  <2> QED BY <1>1, <1>2, <1>6, <1>8, <2>1, <2>2, HeadersPass, LoadedIsLeaf
<1>13. ASSUME NEW k \in {"vide", "soun"}, Known[k] = Len(tracks)
       PROVE  k \in KindsTold(file, b)
  <2>1. Told(file, tracks, Known) /\ LoadedTo(file, tracks, from)
    BY <1>10 DEF Gathered
  <2>2. Len(tracks) # 0
    BY <1>11
  <2>3. PICK h \in tracks[Len(tracks)].loaded : TellsKind(file, h) /\ file.boxes[h].says = k
    BY <1>13, <2>1, <2>2 DEF Told
  <2>4. h \in Due(file, from) /\ TrackOf(file, h) = Len(tracks)
    BY <1>11, <2>1, <2>3 DEF LoadedTo
  <2>5. h \in 1..Len(file.boxes) /\ h < b
    BY <1>9, <2>4 DEF Due
  <2>6. h \in 1..(b - 1)
    BY <1>1, <2>5
  <2> QED BY <1>11, <2>3, <2>4, <2>6 DEF KindsTold
<1>14. /\ KindOf(Len(tracks)) \in KindsTold(file, b) \cup {"other"}
       /\ IsKnown(Known, Len(tracks)) => KindOf(Len(tracks)) \in KindsTold(file, b)
  <2>1. Known["vide"] = video /\ Known["soun"] = audio
    BY DEF Known
  <2> QED BY <1>13, <2>1 DEF KindOf, IsKnown
<1> QED
  BY <1>6, <1>7, <1>8, <1>9, <1>11, <1>12, <1>14

LEMMA LoadGathers ==
  ASSUME IInv, NEW b \in 1..Len(boxes), Load(b), WellFormed(file)
  PROVE  Gathered(file, tracks', Known', Position + Top.wants)
<1>1. AtContentOf(b) /\ pc = "feed" /\ b \in 1..Len(file.boxes)
  BY DEF Load, AtContentOf, boxes
<1>2. IsFile(file) /\ tracks \in Seq(TrackIn(file))
  BY <1>1, Reading
<1>3. PICK from, to, t, kind :
        from = Position /\ to = End(file, b) /\ t = Len(tracks) /\ kind = KindOf(Len(tracks))
  OBVIOUS
<1>4. /\ IsLoaded(file, b) /\ Position + Top.wants = to /\ to <= file.size
      /\ Due(file, to) = Due(file, from) \cup {b} /\ Begun(file, to) = Begun(file, from)
      /\ \A x \in Due(file, from) : x < b
      /\ HeadersRead(file, to)
      /\ TrackOf(file, b) = Len(tracks) /\ Len(tracks) \in 1..Len(tracks)
      /\ kind \in KindsTold(file, b) \cup {"other"}
      /\ IsKnown(Known, Len(tracks)) => kind \in KindsTold(file, b)
  BY <1>1, <1>3, ContentRead
<1>5. Gathered(file, tracks, Known, from)
  BY <1>1, <1>3 DEF IInv, Gathering
<1>6. PICK x \in BOOLEAN : x = (file.boxes[b].type = "stsd" /\ Gives(file, b, kind))
  OBVIOUS
<1>7. PICK U : U = tracks'
  OBVIOUS
<1>8. U = LoadedIn(tracks, b, x)
  BY <1>3, <1>6, <1>7 DEF Load, LoadedIn, boxes
<1>9. /\ x => MayConfigure(file, b)
      /\ Configures(file, b) /\ IsKnown(Known, Len(tracks)) => x
  <2>1. Gives(file, b, kind) => kind # "other"
    BY DEF Gives
  <2>2. x => MayConfigure(file, b)
    BY <1>4, <1>6, <2>1 DEF MayConfigure, Describes
  <2> QED BY <1>4, <1>6, <2>2 DEF Configures, Describes
<1>10. /\ video' = IF HandlerOf(b, "vide") THEN t ELSE video
       /\ audio' = IF HandlerOf(b, "soun") THEN t ELSE audio
  BY <1>3 DEF Load
<1>11. PICK before, after : before = Known /\ after = Known'
  OBVIOUS
<1>12. /\ before["vide"] = video /\ before["soun"] = audio
       /\ after["vide"] = video' /\ after["soun"] = audio'
  BY <1>11 DEF Known
<1>13. \A k \in {"vide", "soun"} : HandlerOf(b, k) <=> TellsKind(file, b) /\ file.boxes[b].says = k
  BY <1>4 DEF HandlerOf, TellsKind, boxes
<1>14. \A k \in {"vide", "soun"} :
         \/ after[k] = before[k] /\ ~HandlerOf(b, k)
         \/ after[k] = t /\ TellsKind(file, b) /\ file.boxes[b].says = k
  BY <1>10, <1>12, <1>13
<1>15. TellsKind(file, b) \/ IsKnown(before, t) => IsKnown(after, t)
  <2>1. TellsKind(file, b) => \E k \in {"vide", "soun"} : file.boxes[b].says = k
    <3>1. file.boxes[b].says \in Handlers
      BY <1>1, <1>2, SaysOf
    <3> QED BY <3>1 DEF TellsKind, Handlers
  <2>2. ASSUME NEW k \in {"vide", "soun"}, TellsKind(file, b), file.boxes[b].says = k
        PROVE  after[k] = t
    BY <1>13, <1>14, <2>2
  <2>3. ASSUME NEW k \in {"vide", "soun"}, before[k] = t
        PROVE  after[k] = t
    BY <1>14, <2>3
  <2> QED BY <2>1, <2>2, <2>3 DEF IsKnown
<1>16. Gathered(file, U, after, to)
  BY <1>1, <1>2, <1>3, <1>4, <1>5, <1>8, <1>9, <1>11, <1>14, <1>15, TableLoaded
<1> QED
  BY <1>4, <1>7, <1>11, <1>16

LEMMA LoadHolds ==
  ASSUME IInv, NEW b \in 1..Len(boxes), Load(b)
  PROVE  IInv'
<1>1. /\ pc = "feed" /\ Top.kind \notin Containers /\ Top.wants # 0
      /\ Position + Top.wants <= file.size
      /\ file.boxes[b].at + HeaderSize = Position
      /\ offset' = Position + Top.wants
      /\ UNCHANGED <<file, pc>> /\ b \in 1..Len(file.boxes)
  BY DEF Load, AtContentOf, boxes
<1>2. /\ IsFile(file) /\ IsStack(stack) /\ Len(stack) >= 2
      /\ Position \in Nat /\ Top.wants \in Nat
      /\ tracks \in Seq(TrackIn(file)) /\ Len(tracks) \in Nat
      /\ video \in 0..Len(tracks) /\ audio \in 0..Len(tracks)
  BY <1>1, Reading
<1>3. PICK st : st = stack
  OBVIOUS
<1>4. PICK s : s = SubSeq(st, 1, Len(st) - 1)
  OBVIOUS
<1>5. PICK r : r = stack'
  OBVIOUS
<1>6. r = PopEmpty(s)
  BY <1>3, <1>4, <1>5 DEF Load
<1>7. /\ IsStack(s) /\ Len(s) = Len(st) - 1 /\ \A i \in 1..Len(s) : s[i] = st[i]
      /\ s[Len(s)].to_skip = 0
  BY <1>2, <1>3, <1>4, Below
<1>8. IsStack(r)
  BY <1>6, <1>7, PoppedIsStack
<1>9. PICK position \in Nat : position = Position
  BY <1>2
<1>10. PICK end : end = position + st[Len(st)].wants
  OBVIOUS
<1>11. end = Position + Top.wants /\ end \in Nat
  BY <1>2, <1>3, <1>9, <1>10 DEF Top
<1>12. ASSUME WellFormed(file) PROVE PlacedIn(file, r, end)
  <2>1. Position < file.full
    <3>1. file.size \in Nat /\ file.full \in Nat /\ file.size <= file.full
      BY <1>2, FileOf
    <3> QED BY <1>1, <1>2, <3>1
  <2>2. PICK q, c : InBox(file, q, c, stack, Position)
    BY <1>1, <1>12, <2>1, AtContent
  <2>3. InBox(file, q, c, st, position)
    BY <1>3, <1>9, <2>2
  <2>4. PlacedIn(file, PopEmpty(s), end)
    BY <1>2, <1>3, <1>7, <1>10, <1>12, <2>3, WhenLoaded
  <2> QED BY <1>6, <2>4
<1>13. Position' = end
  <2>1. Position' = offset' + r[Len(r)].to_skip
    BY <1>5 DEF Position, Top
  <2>2. r[Len(r)].to_skip = 0
    <3>1. PICK k \in 1..Len(s) : Len(r) = k /\ r[k].to_skip = s[Len(s)].to_skip
      BY <1>6, <1>7, Popped
    <3> QED BY <1>7, <3>1
  <2> QED BY <1>1, <1>11, <2>1, <2>2
<1>14. offset' \in Nat
  BY <1>1, <1>11
<1>15. /\ tracks' \in Seq(TrackIn(file)) /\ video' \in 0..Len(tracks')
       /\ audio' \in 0..Len(tracks')
  <2>1. PICK c \in BOOLEAN : c = (boxes[b].type = "stsd" /\ Gives(file, b, KindOf(Len(tracks))))
    OBVIOUS
  <2>2. tracks' = LoadedIn(tracks, b, c)
    BY <2>1 DEF Load, LoadedIn
  <2>3. tracks' \in Seq(TrackIn(file)) /\ Len(tracks') = Len(tracks)
    BY <1>1, <1>2, <2>2, LoadedTracks
  <2>4. /\ video' = Len(tracks) \/ video' = video
        /\ audio' = Len(tracks) \/ audio' = audio
    BY DEF Load
  <2>5. Len(tracks) \in 0..Len(tracks)
    BY <1>2
  <2> QED BY <1>2, <2>3, <2>4, <2>5
<1>16. ASSUME WellFormed(file) PROVE Gathered(file, tracks', Known', end)
  BY <1>11, <1>16, LoadGathers
<1> QED
  BY <1>1, <1>5, <1>8, <1>12, <1>13, <1>14, <1>15, <1>16, GoesOn

(* The steps that stop, and those no well-formed file allows. *)
LEMMA OverrunIsCut ==
  ASSUME IInv, WellFormed(file), Overrun
  PROVE  Cut(file)
<1>1. /\ pc = "feed" /\ Top.wants # 0 /\ Position < file.size
      /\ Position + Top.wants > file.size
  BY DEF Overrun
<1>2. IsFile(file) /\ Position \in Nat /\ Top.wants \in Nat /\ Len(stack) >= 2
      /\ (Top.kind \in Containers => Top.wants = 8)
  BY <1>1, Reading
<1>3. Position < file.full /\ file.size \in Nat
  <2>1. file.size \in Nat /\ file.full \in Nat /\ file.size <= file.full
    BY <1>2, FileOf
  <2> QED BY <1>1, <1>2, <2>1
<1>4. CASE Top.kind \in Containers
  <2>1. PlacedIn(file, stack, Position)
    BY <1>1 DEF IInv, Placed
  <2>2. PICK q : AtBox(file, q, stack, Position)
    BY <1>3, <1>4, <2>1 DEF PlacedIn, Top
  <2>3. PICK b \in Children(file, Innermost(q)) : file.boxes[b].at = Position
    BY <2>2 DEF AtBox
  <2>4. b \in 1..Len(file.boxes)
    BY <2>3, ChildOf
  <2>5. file.boxes[b].at < file.size /\ file.size < file.boxes[b].at + HeaderSize
    BY <1>1, <1>2, <1>3, <1>4, <2>3 DEF HeaderSize
  <2> QED BY <2>4, <2>5 DEF Cut
<1>5. CASE Top.kind \notin Containers
  <2>1. PICK q, b : /\ InBox(file, q, b, stack, Position) /\ b \in 1..Len(file.boxes)
                    /\ Position + Top.wants = EndInside(file, b)
                    /\ EndInside(file, b) = End(file, b)
    BY <1>1, <1>3, <1>5, AtContent
  <2>2. IsLoaded(file, b) /\ file.boxes[b].at + HeaderSize = Position
    BY <2>1 DEF InBox
  <2>3. file.boxes[b].at + HeaderSize < file.size /\ file.size < End(file, b)
    BY <1>1, <1>2, <1>3, <2>1, <2>2
  <2> QED BY <2>1, <2>2, <2>3 DEF Cut
<1> QED
  BY <1>4, <1>5

LEMMA NotRefused ==
  ASSUME IInv, WellFormed(file)
  PROVE  \A b \in 1..Len(boxes) : ~DescendIntoSmall(b) /\ ~RejectBox(b)
<1>2. ASSUME NEW b \in 1..Len(boxes), AtHeader(b)
      PROVE  \E q : /\ AtBox(file, q, stack, Position) /\ b \in Children(file, Innermost(q))
                    /\ Inside(file, q)
                    /\ Top.kind = KindAround(file, b)
                    /\ file.boxes[b].size <= Top.total /\ Top.total \in 0..(U32 - 1)
  <2>1. /\ IsFile(file) /\ b \in 1..Len(file.boxes) /\ Position = file.boxes[b].at
        /\ pc = "feed"
    BY <1>2, Header
  <2>2. PICK q : AtBox(file, q, stack, Position)
    BY <1>2, Header
  <2>3. PICK st : st = stack
    OBVIOUS
  <2>4. PICK position : position = Position
    OBVIOUS
  <2>5. IsStack(st) /\ AtBox(file, q, st, position) /\ position = file.boxes[b].at
    BY <2>1, <2>2, <2>3, <2>4, Reading
  <2>6. /\ b \in Children(file, Innermost(q)) /\ Inside(file, q)
        /\ st[Len(st)].kind = KindAround(file, b)
        /\ file.boxes[b].size <= st[Len(st)].total
    BY <2>1, <2>5, Located
  <2>7. Top = st[Len(st)] /\ Top.total \in 0..(U32 - 1)
    <3>1. Top \in Entry
      BY <2>1, Reading
    <3> QED BY <2>3, <3>1 DEF Top, Entry
  <2> QED BY <2>2, <2>6, <2>7
<1>3. ASSUME NEW b \in 1..Len(boxes), RejectBox(b) PROVE FALSE
  <2>1. AtHeader(b) /\ file.boxes[b].size > Top.total
    BY <1>3 DEF RejectBox, TooLarge, boxes
  <2>2. file.boxes[b].size <= Top.total /\ Top.total \in 0..(U32 - 1)
    BY <1>2, <2>1
  <2>3. file.boxes[b].size \in Int
    BY <2>1, Header
  <2> QED BY <2>1, <2>2, <2>3, WidthAssumption
<1>4. ASSUME NEW b \in 1..Len(boxes), DescendIntoSmall(b) PROVE FALSE
  <2>1. AtHeader(b) /\ Descends(Top.kind, file.boxes[b].type) /\ Content(b) < 8
    BY <1>4 DEF DescendIntoSmall, boxes, HeaderSize
  <2>2. PICK q : /\ b \in Children(file, Innermost(q)) /\ Inside(file, q)
                 /\ Top.kind = KindAround(file, b)
    BY <1>2, <2>1
  <2>3. IsFile(file) /\ b \in 1..Len(file.boxes)
    BY <2>1, Header
  <2>4. file.boxes[b].at + 16 <= End(file, b)
    <3>1. IsDescended(file, b)
      BY <2>1, <2>2 DEF IsDescended
    <3> QED BY <2>2, <2>3, <3>1, Entered
  <2>5. End(file, b) <= file.full
    BY <2>2, <2>3, InContainer
  <2>6. PICK rest : rest = Content(b)
    OBVIOUS
  <2>7. PICK at \in Nat : at = file.boxes[b].at
    BY <2>3, FileOf
  <2>8. at + HeaderSize + rest = EndInside(file, b) /\ rest \in Nat
    <3>1. rest = (file.boxes[b].size - HeaderSize) % U32 /\ rest \in 0..(U32 - 1)
      BY <2>1, <2>6, Header
    <3>2. at + HeaderSize + rest = EndInside(file, b)
      BY <2>3, <2>7, <3>1, ContentEnd
    <3>3. rest \in Nat
      BY <3>1, WidthAssumption
    <3> QED BY <3>2, <3>3
  <2>9. /\ End(file, b) \in Nat /\ EndInside(file, b) \in Nat
        /\ End(file, b) <= EndInside(file, b) /\ file.full \in Nat
    <3>1. file.full \in Nat
      BY <2>3, FileOf
    <3>2. CASE file.boxes[b].size = 0
      <4>1. End(file, b) = file.full /\ EndInside(file, b) > file.full /\ EndInside(file, b) \in Nat
        BY <2>3, <3>2, EndsOf
      <4> QED BY <3>1, <4>1
    <3>3. CASE file.boxes[b].size # 0
      <4>1. EndInside(file, b) = End(file, b) /\ End(file, b) \in Nat
        BY <2>3, <3>3, EndsOf
      <4> QED BY <3>1, <4>1
    <3> QED BY <3>2, <3>3
  <2>10. at + 16 <= End(file, b) /\ rest < 8 /\ at + 8 + rest = EndInside(file, b)
    BY <2>1, <2>4, <2>6, <2>7, <2>8 DEF HeaderSize
  <2>11. PICK e \in Nat, i \in Nat : e = End(file, b) /\ i = EndInside(file, b)
    BY <2>9
  <2>12. at + 16 <= e /\ rest < 8 /\ at + 8 + rest = i /\ e <= i /\ rest \in Nat
    BY <2>8, <2>9, <2>10, <2>11
  <2> QED BY <2>12
<1> QED
  BY <1>3, <1>4

(* The content of a box to load is refused, or read past, only where it is   *)
(* not supported.                                                            *)
LEMMA NotOnSupported ==
  ASSUME IInv, WellFormed(file), Supported(file), NEW b \in 1..Len(boxes)
  PROVE  ~RefuseContent(b) /\ ~ReadPast(b)
<1> SUFFICES ASSUME AtContentOf(b)
             PROVE  /\ ~Refused(file, b, KindOf(Len(tracks)))
                    /\ ~ReadsPast(file, b, KindOf(Len(tracks)))
  BY DEF RefuseContent, ReadPast
<1>1. IsLoaded(file, b) /\ KindOf(Len(tracks)) \in KindsTold(file, b) \cup {"other"}
  BY ContentRead
<1> QED
  BY <1>1 DEF Supported, boxes

LEMMA BottomStays ==
  ASSUME IInv, pc = "feed"
  PROVE  /\ stack \in Seq(Entry) /\ Len(stack) >= 1 /\ offset \in Nat
         /\ stack[1].kind = "void" /\ stack[1].wants = 0
<1>1. IsStack(stack) /\ offset \in Nat
  BY Reading
<1> QED
  BY <1>1 DEF IsStack

(* The parser that wants nothing is at the bottom: the file was passed. *)
LEMMA NothingWanted ==
  ASSUME IInv, WellFormed(file), StopAtTop
  PROVE  Position >= file.size
<1>1. pc = "feed" /\ Top.wants = 0
  BY DEF StopAtTop
<1>2. IsFile(file) /\ Position \in Nat /\ (Top.kind \in Containers => Top.wants = 8)
  BY <1>1, Reading
<1>3. file.size \in Nat /\ file.full \in Nat /\ file.size <= file.full
  BY <1>2, FileOf
<1> SUFFICES ASSUME Position < file.full PROVE FALSE
  BY <1>2, <1>3
<1>4. PlacedIn(file, stack, Position)
  BY <1>1 DEF IInv, Placed
<1>5. Top.kind \notin Containers
  BY <1>1, <1>2
<1>6. PICK q, b : InBox(file, q, b, stack, Position)
  BY <1>4, <1>5 DEF PlacedIn, Top
<1>7. /\ b \in 1..Len(file.boxes) /\ IsLoaded(file, b) /\ file.boxes[b].at + 8 = Position
      /\ Top.wants = (file.boxes[b].size - HeaderSize) % U32
  BY <1>6, ChildOf DEF InBox, Top, HeaderSize
<1>8. PICK at, rest : at = file.boxes[b].at /\ rest = Top.wants
  OBVIOUS
<1>9. at + HeaderSize + rest = EndInside(file, b)
  BY <1>2, <1>7, <1>8, ContentEnd
<1>10. file.boxes[b].at \in Nat /\ file.boxes[b].at + 8 < End(file, b) /\ End(file, b) \in Nat
  BY <1>2, <1>7, BoxOf, LoadedIsLarge
<1>11. End(file, b) <= EndInside(file, b) /\ EndInside(file, b) \in Nat
  <2>1. CASE file.boxes[b].size = 0
    <3>1. /\ End(file, b) = file.full /\ EndInside(file, b) > file.full
          /\ EndInside(file, b) \in Nat
      BY <1>2, <1>7, <2>1, EndsOf
    <3> QED BY <1>3, <3>1
  <2>2. CASE file.boxes[b].size # 0
    <3>1. EndInside(file, b) = End(file, b)
      BY <1>2, <1>7, <2>2, EndsOf
    <3> QED BY <1>10, <3>1
  <2> QED BY <2>1, <2>2
<1>12. at + 8 + 0 = EndInside(file, b)
  BY <1>1, <1>8, <1>9 DEF HeaderSize
<1> QED
  BY <1>8, <1>10, <1>11, <1>12

LEMMA StopsHold ==
  ASSUME IInv, StopAtTop \/ StopAtEnd \/ Overrun
  PROVE  IInv'
<1>1. CASE StopAtTop
  <2>1. pc = "feed" /\ pc' = "done" /\ UNCHANGED <<file, stack, offset, tracks, video, audio>>
    BY <1>1 DEF StopAtTop
  <2>2. PICK r : r = stack'
    OBVIOUS
  <2>3. r \in Seq(Entry) /\ Len(r) >= 1 /\ r[1].kind = "void" /\ r[1].wants = 0 /\ offset' \in Nat
    BY <2>1, <2>2, BottomStays
  <2>4. WellFormed(file) => Position >= file.size
    BY <1>1, NothingWanted
  <2> QED BY <2>1, <2>2, <2>3, <2>4, Ends
<1>2. CASE Overrun
  <2>1. pc = "feed" /\ pc' = "overrun" /\ UNCHANGED <<file, stack, offset, tracks, video, audio>>
    BY <1>2 DEF Overrun
  <2>2. PICK r : r = stack'
    OBVIOUS
  <2>3. r \in Seq(Entry) /\ Len(r) >= 1 /\ r[1].kind = "void" /\ r[1].wants = 0 /\ offset' \in Nat
    BY <2>1, <2>2, BottomStays
  <2>4. WellFormed(file) => Cut(file)
    BY <1>2, OverrunIsCut
  <2> QED BY <2>1, <2>2, <2>3, <2>4, Ends
<1>3. CASE StopAtEnd
  <2>1. /\ pc = "feed" /\ pc' = "done" /\ Top.wants # 0 /\ offset' = Position
        /\ stack' = [stack EXCEPT ![Len(stack)].to_skip = 0]
        /\ UNCHANGED <<file, tracks, video, audio>> /\ Position >= file.size
    BY <1>3 DEF StopAtEnd
  <2>2. PICK r : r = stack'
    OBVIOUS
  <2>3. Position \in Nat /\ Len(stack) >= 2 /\ Len(stack) \in 1..Len(stack) /\ Top \in Entry
    BY <2>1, Reading
  <2>4. /\ stack \in Seq(Entry) /\ stack[1].kind = "void" /\ stack[1].wants = 0
    BY <2>1, BottomStays
  <2>5. PICK e : e = [Top EXCEPT !.to_skip = 0]
    OBVIOUS
  <2>6. e \in Entry
    <3>1. 0 \in 0..(U32 - 1)
      BY WidthAssumption DEF HeaderSize
    <3> QED BY <2>3, <2>5, <3>1 DEF Entry
  <2>7. r = [stack EXCEPT ![Len(stack)] = e]
    BY <2>1, <2>2, <2>5 DEF Top
  <2>8. r \in Seq(Entry) /\ Len(r) = Len(stack) /\ \A i \in 1..(Len(stack) - 1) : r[i] = stack[i]
    BY <2>3, <2>4, <2>6, <2>7
  <2>9. r[1] = stack[1] /\ Len(r) >= 1
    <3>1. 1 \in 1..(Len(stack) - 1)
      BY <2>3
    <3> QED BY <2>3, <2>8, <3>1
  <2> QED BY <2>1, <2>2, <2>3, <2>4, <2>8, <2>9, Ends
<1> QED
  BY <1>1, <1>2, <1>3

LEMMA RefusalsHold ==
  ASSUME IInv, NEW b \in 1..Len(boxes),
         DescendIntoSmall(b) \/ RejectBox(b) \/ RefuseContent(b) \/ ReadPast(b)
  PROVE  IInv'
<1>1. /\ pc = "feed" /\ pc' \in {"rejected", "aborted", "overrun"}
      /\ UNCHANGED <<file, stack, offset, tracks, video, audio>>
  BY DEF DescendIntoSmall, RejectBox, AtHeader, RefuseContent, ReadPast, AtContentOf
<1>2. PICK r : r = stack'
  OBVIOUS
<1>3. r \in Seq(Entry) /\ Len(r) >= 1 /\ r[1].kind = "void" /\ r[1].wants = 0 /\ offset' \in Nat
  BY <1>1, <1>2, BottomStays
<1>4. ~(WellFormed(file) /\ Supported(file))
  BY NotRefused, NotOnSupported
<1> QED
  BY <1>1, <1>2, <1>3, <1>4, Ends

LEMMA Unchanged ==
  ASSUME IInv, UNCHANGED vars
  PROVE  IInv'
<1>1. /\ file' = file /\ stack' = stack /\ offset' = offset /\ tracks' = tracks
      /\ video' = video /\ audio' = audio /\ pc' = pc
  BY DEF vars
<1>2. IsFile(file) /\ TypeOK /\ Shape /\ Placed /\ Accepted /\ Gathering /\ Finished
  BY DEF IInv
<1>3. TypeOK'
  BY <1>1, <1>2 DEF TypeOK, boxes
<1>4. Shape'
  BY <1>1, <1>2 DEF Shape
<1>5. Placed'
  BY <1>1, <1>2 DEF Placed, Position, Top
<1>6. Accepted'
  BY <1>1, <1>2 DEF Accepted
<1>7. Gathering'
  BY <1>1, <1>2 DEF Gathering, Position, Top, Known
<1>8. Finished'
  BY <1>1, <1>2 DEF Finished
<1> QED
  BY <1>1, <1>2, <1>3, <1>4, <1>5, <1>6, <1>7, <1>8 DEF IInv

LEMMA NextHolds ==
  IInv /\ [Next]_vars => IInv'
<1> SUFFICES ASSUME IInv, [Next]_vars PROVE IInv'
  OBVIOUS
<1>1. ASSUME NEW b \in 1..Len(boxes), ParseBox(b) PROVE IInv'
  <2>1. CASE Descend(b)
    BY <2>1, DescendHolds
  <2>2. CASE StartLoad(b)
    BY <2>2, StartLoadHolds
  <2>3. CASE SkipBox(b)
    BY <2>3, SkipBoxHolds
  <2>4. CASE Load(b)
    BY <2>4, LoadHolds
  <2>5. CASE DescendIntoSmall(b) \/ RejectBox(b) \/ RefuseContent(b) \/ ReadPast(b)
    BY <2>5, RefusalsHold
  <2> QED BY <1>1, <2>1, <2>2, <2>3, <2>4, <2>5 DEF ParseBox
<1>2. CASE StopAtTop \/ StopAtEnd \/ Overrun
  BY <1>2, StopsHold
<1>3. CASE UNCHANGED vars
  BY <1>3, Unchanged
<1> QED
  BY <1>1, <1>2, <1>3 DEF Next

(* The boxes of the stack are those around what is read next. *)
LEMMA IInvKeepsPlace ==
  IInv => KeepsPlace
<1> SUFFICES ASSUME IInv, WellFormed(file), pc = "feed", Top.wants # 0, Position < file.size
             PROVE  \E b \in 1..Len(boxes) :
                      IF Top.kind \in Containers
                      THEN /\ boxes[b].at = Position
                           /\ StackIs(file, Path(file, boxes[b].parent), stack, Position)
                      ELSE /\ boxes[b].at + HeaderSize = Position
                           /\ StackIs(file, Path(file, b), stack, Position)
  BY DEF KeepsPlace
<1>1. IsFile(file) /\ Len(stack) >= 2 /\ Position \in Nat
  BY Reading
<1>2. Position < file.full
  <2>1. file.size \in Nat /\ file.full \in Nat /\ file.size <= file.full
    BY <1>1, FileOf
  <2> QED BY <1>1, <2>1
<1>3. CASE Top.kind \in Containers
  <2>1. PlacedIn(file, stack, Position)
    BY DEF IInv, Placed
  <2>2. PICK q : AtBox(file, q, stack, Position)
    BY <1>1, <1>2, <1>3, <2>1 DEF PlacedIn, Top
  <2>3. PICK b \in Children(file, Innermost(q)) : file.boxes[b].at = Position
    BY <2>2 DEF AtBox
  <2>4. b \in 1..Len(boxes) /\ boxes[b].parent = Innermost(q) /\ boxes[b].at = Position
    BY <2>3, ChildOf DEF boxes
  <2>5. q = Path(file, Innermost(q))
    BY <1>1, <2>2, PathIs DEF AtBox, Inside
  <2>6. StackIs(file, Path(file, boxes[b].parent), stack, Position)
    BY <2>2, <2>4, <2>5 DEF AtBox
  <2> QED BY <1>3, <2>4, <2>6
<1>4. CASE Top.kind \notin Containers
  <2>1. PICK q, b : InBox(file, q, b, stack, Position)
    BY <1>2, <1>4, AtContent
  <2>2. /\ IsPath(file, q) /\ b \in Children(file, Innermost(q))
        /\ StackIs(file, Append(q, b), stack, Position)
        /\ file.boxes[b].at + HeaderSize = Position
    BY <2>1 DEF InBox, Inside
  <2>3. IsPath(file, Append(q, b)) /\ Innermost(Append(q, b)) = b
    BY <1>1, <2>2, PathTo
  <2>4. Append(q, b) = Path(file, b)
    BY <1>1, <2>3, PathIs
  <2>5. b \in 1..Len(boxes) /\ boxes[b].at + HeaderSize = Position
    BY <2>2, ChildOf DEF boxes
  <2>6. StackIs(file, Path(file, b), stack, Position)
    BY <2>2, <2>4
  <2> QED BY <1>4, <2>5, <2>6
<1> QED
  BY <1>3, <1>4
LEMMA IInvTablesLoaded ==
  IInv => TablesLoaded
<1> SUFFICES ASSUME IInv, WellFormed(file), pc \in {"feed", "done"} PROVE TablesLoaded
  BY DEF TablesLoaded
<1>1. PICK p : p = IF pc = "feed" THEN Position ELSE file.size
  OBVIOUS
<1>2. LoadedTo(file, tracks, p)
  BY <1>1 DEF IInv, Gathering, Finished, Gathered
<1>3. ASSUME NEW b \in 1..Len(boxes)
      PROVE  /\ IsLoaded(file, b) /\ End(file, b) <= p =>
                  TrackOf(file, b) \in 1..Len(tracks) /\ b \in tracks[TrackOf(file, b)].loaded
             /\ \A t \in 1..Len(tracks) :
                  b \in tracks[t].loaded =>
                    IsLoaded(file, b) /\ End(file, b) <= p /\ t = TrackOf(file, b)
  BY <1>2 DEF LoadedTo, Due, boxes
<1> QED
  BY <1>1, <1>3 DEF TablesLoaded

(* The handler before the last sample description was passed with it, and    *)
(* no later description was.                                                  *)
LEMMA IInvConfigured ==
  IInv => Configured
<1> SUFFICES ASSUME IInv, WellFormed(file), pc = "done",
                    NEW h \in 1..Len(boxes), NEW s \in (h + 1)..Len(boxes),
                    TellsKind(file, h), Configures(file, s),
                    TrackOf(file, h) = TrackOf(file, s), End(file, s) <= file.size,
                    \A x \in (s + 1)..Len(boxes) :
                      MayConfigure(file, x) /\ TrackOf(file, x) = TrackOf(file, s)
                        => End(file, x) > file.size
             PROVE  tracks[TrackOf(file, s)].extradata = s
  BY DEF Configured
<1>1. IsFile(file) /\ LoadedTo(file, tracks, file.size) /\ ConfiguredTo(file, tracks, file.size)
  BY DEF IInv, Finished
<1>2. Len(boxes) = Len(file.boxes) /\ Len(file.boxes) \in Nat /\ file.size \in Nat
  BY <1>1, FileOf DEF boxes
<1>3. h \in 1..Len(file.boxes) /\ s \in 1..Len(file.boxes) /\ h < s
  BY <1>2
<1>4. IsLoaded(file, h) /\ IsLoaded(file, s)
  BY DEF TellsKind, Configures, Describes
<1>5. s \in Due(file, file.size)
  BY <1>3, <1>4 DEF Due
<1>6. h \in Due(file, file.size)
  <2>1. End(file, h) <= file.boxes[s].at
    BY <1>1, <1>3, <1>4, Apart, LoadedIsLeaf DEF After, In
  <2>2. /\ End(file, h) \in Nat /\ file.boxes[s].at \in Nat /\ End(file, s) \in Nat
        /\ file.boxes[s].at + 8 <= End(file, s)
    BY <1>1, <1>3, BoxOf
  <2>3. End(file, h) <= file.size
    BY <1>2, <2>1, <2>2
  <2> QED BY <1>3, <1>4, <2>3 DEF Due
<1>7. PICK t : t = TrackOf(file, s)
  OBVIOUS
<1>8. t \in 1..Len(tracks)
  BY <1>1, <1>5, <1>7 DEF LoadedTo
<1>9. PICK x : x = tracks[t].extradata
  OBVIOUS
<1>10. x >= s
  BY <1>1, <1>3, <1>5, <1>6, <1>7, <1>9 DEF ConfiguredTo
<1>11. x # 0
  <2>1. ~(0 >= s)
    BY <1>3
  <2> QED BY <1>10, <2>1
<1>12. x \in tracks[t].loaded /\ MayConfigure(file, x)
  BY <1>1, <1>8, <1>9, <1>11 DEF ConfiguredTo
<1>13. x \in Due(file, file.size) /\ TrackOf(file, x) = t /\ End(file, x) <= file.size
  BY <1>1, <1>8, <1>12 DEF LoadedTo
<1>14. x \in 1..Len(file.boxes) /\ ~(End(file, x) > file.size)
  <2>1. x \in 1..Len(file.boxes)
    BY <1>13 DEF Due
  <2>2. End(file, x) \in Nat
    BY <1>1, <2>1, BoxOf
  <2> QED BY <1>2, <1>13, <2>1, <2>2
<1>15. x \notin (s + 1)..Len(boxes)
  BY <1>7, <1>12, <1>13, <1>14
<1>16. x = s
  BY <1>2, <1>3, <1>10, <1>14, <1>15
<1> QED
  BY <1>7, <1>9, <1>16
-----------------------------------------------------------------------------
(* On every file, whole, cut short or malformed, the stack keeps its shape,  *)
(* and in a well-formed one it stays a path of boxes of the file.            *)
THEOREM Invariance == Spec => []IInv
<1>1. Init => IInv
  BY InitHolds
<1>2. IInv /\ [Next]_vars => IInv'
  BY NextHolds
<1> QED
  BY <1>1, <1>2, PTL DEF Spec

(* The variables have their types, whatever the file: boxes are closed only  *)
(* down to the bottom of the stack, which stays and wants nothing, so that   *)
(* _parser is never null; and a track is one that was met.                   *)
THEOREM TypesHold == Spec => []TypeOK
<1>1. IInv => TypeOK
  BY DEF IInv
<1> QED
  BY <1>1, Invariance, PTL

(* The parser keeps its place in every well-formed file: what it reads next  *)
(* is a header where a box begins, or the content of the box it opened, and  *)
(* its open boxes are those around.                                          *)
THEOREM KeepsPlaceHolds == Spec => []KeepsPlace
<1>1. IInv => KeepsPlace
  BY IInvKeepsPlace
<1> QED
  BY <1>1, Invariance, PTL

(* A well-formed file is refused for what is in its tables only, and never   *)
(* aborts on the assert of a container; the loop reads past the end of just  *)
(* those that are cut in a header or in a box to load.                       *)
THEOREM AcceptedHolds == Spec => []Accepted
<1>1. IInv => Accepted
  BY DEF IInv
<1> QED
  BY <1>1, Invariance, PTL

(* A track gets the tables of its own trak, all of those that were passed,   *)
(* wherever they are in it and whatever stands between them; at the end of   *)
(* the file, which is never taken for reached before it is, that is all the  *)
(* file has.                                                                 *)
THEOREM TablesLoadedHolds == Spec => []TablesLoaded
<1>1. IInv => TablesLoaded
  BY IInvTablesLoaded
<1> QED
  BY <1>1, Invariance, PTL

(* A track whose handler comes before its sample description ends with the   *)
(* codec configuration of the last one that gives it.                        *)
THEOREM ConfiguredHolds == Spec => []Configured
<1>1. IInv => Configured
  BY IInvConfigured
<1> QED
  BY <1>1, Invariance, PTL
=============================================================================
