------------------------- MODULE IndexWriterProofs -------------------------
(***************************************************************************)
(* Proofs about IndexWriter, for media lists of any length.  What a pass   *)
(* computes and what it writes are related by the blocks: each one tiles   *)
(* the bytes between two positions with cells, and two blocks that meet    *)
(* make a larger one.                                                      *)
(***************************************************************************)
EXTENDS IndexWriter, NumberFacts, SequenceTheorems

(* The cells of f tile the bytes from a to c: none overlaps another, none   *)
(* is beyond the end, and no byte is left out.                              *)
Tiles(f, a, c) ==
  /\ a \in Nat /\ c \in Nat /\ a <= c
  /\ DOMAIN f \subseteq Nat
  /\ \A p \in DOMAIN f :
       /\ f[p].width \in Nat \ {0}
       /\ a <= p /\ p + f[p].width <= c
       /\ p + f[p].width < c => p + f[p].width \in DOMAIN f
       /\ \A q \in DOMAIN f : q < p => q + f[q].width <= p
  /\ a < c => a \in DOMAIN f /\ \E p \in DOMAIN f : p + f[p].width = c
-----------------------------------------------------------------------------
(* The cells of two blocks that meet. *)
LEMMA JoinedCells ==
  ASSUME NEW f, NEW g, NEW a, NEW b, NEW c, Tiles(f, a, b), Tiles(g, b, c)
  PROVE  /\ DOMAIN (f ++ g) = DOMAIN f \cup DOMAIN g
         /\ \A p \in DOMAIN f : (f ++ g)[p] = f[p] /\ p < b
         /\ \A p \in DOMAIN g : (f ++ g)[p] = g[p] /\ b <= p
<1>1. \A p \in DOMAIN f : p < b
  <2> SUFFICES ASSUME NEW p \in DOMAIN f PROVE p < b
    OBVIOUS
  <2>1. p \in Nat /\ f[p].width \in Nat \ {0} /\ p + f[p].width <= b /\ b \in Nat
    BY DEF Tiles
  <2> QED BY <2>1
<1>2. \A p \in DOMAIN g : b <= p /\ p \in Nat /\ b \in Nat
  BY DEF Tiles
<1>3. \A p \in DOMAIN g : p \notin DOMAIN f
  BY <1>1, <1>2
<1> QED
  BY <1>1, <1>2, <1>3 DEF ++

(* Blocks that meet make a block. *)
LEMMA TilesJoin ==
  ASSUME NEW f, NEW g, NEW a, NEW b, NEW c, Tiles(f, a, b), Tiles(g, b, c)
  PROVE  Tiles(f ++ g, a, c)
<1> DEFINE h == f ++ g
<1>1. /\ DOMAIN h = DOMAIN f \cup DOMAIN g
      /\ \A p \in DOMAIN f : h[p] = f[p] /\ p < b
      /\ \A p \in DOMAIN g : h[p] = g[p] /\ b <= p
  BY JoinedCells
<1> HIDE DEF h
<1>2. a \in Nat /\ b \in Nat /\ c \in Nat /\ a <= b /\ b <= c
  BY DEF Tiles
<1>3. DOMAIN h \subseteq Nat
  BY <1>1 DEF Tiles
<1>4. ASSUME NEW p \in DOMAIN f
      PROVE  /\ h[p].width \in Nat \ {0}
             /\ a <= p /\ p + h[p].width <= c
             /\ p + h[p].width < c => p + h[p].width \in DOMAIN h
             /\ \A q \in DOMAIN h : q < p => q + h[q].width <= p
  <2>1. /\ p \in Nat /\ f[p].width \in Nat \ {0} /\ a <= p /\ p + f[p].width <= b
        /\ p + f[p].width < b => p + f[p].width \in DOMAIN f
        /\ \A q \in DOMAIN f : q < p => q + f[q].width <= p
    BY DEF Tiles
  <2>2. h[p] = f[p] /\ p < b
    BY <1>1
  <2>3. b < c => b \in DOMAIN g
    BY DEF Tiles
  <2>4. ASSUME p + h[p].width < c PROVE p + h[p].width \in DOMAIN h
    <3>1. CASE p + f[p].width < b
      BY <1>1, <2>1, <2>2, <3>1
    <3>2. CASE p + f[p].width = b
      BY <1>1, <2>2, <2>3, <2>4, <3>2
    <3> QED BY <1>2, <2>1, <3>1, <3>2
  <2>5. ASSUME NEW q \in DOMAIN h, q < p PROVE q + h[q].width <= p
    <3>1. q \in DOMAIN f
      BY <1>1, <1>2, <1>3, <2>1, <2>2, <2>5
    <3> QED BY <1>1, <2>1, <2>5, <3>1
  <2>6. p + h[p].width <= c
    BY <1>2, <2>1, <2>2
  <2> QED BY <2>1, <2>2, <2>4, <2>5, <2>6
<1>5. ASSUME NEW p \in DOMAIN g
      PROVE  /\ h[p].width \in Nat \ {0}
             /\ a <= p /\ p + h[p].width <= c
             /\ p + h[p].width < c => p + h[p].width \in DOMAIN h
             /\ \A q \in DOMAIN h : q < p => q + h[q].width <= p
  <2>1. /\ p \in Nat /\ g[p].width \in Nat \ {0} /\ b <= p /\ p + g[p].width <= c
        /\ p + g[p].width < c => p + g[p].width \in DOMAIN g
        /\ \A q \in DOMAIN g : q < p => q + g[q].width <= p
    BY DEF Tiles
  <2>2. h[p] = g[p]
    BY <1>1
  <2>3. ASSUME NEW q \in DOMAIN h, q < p PROVE q + h[q].width <= p
    <3>1. CASE q \in DOMAIN g
      BY <1>1, <2>1, <2>3, <3>1
    <3>2. CASE q \in DOMAIN f
      <4>1. q + f[q].width <= b /\ q \in Nat /\ f[q].width \in Nat
        BY <3>2 DEF Tiles
      <4> QED BY <1>1, <1>2, <2>1, <3>2, <4>1
    <3> QED BY <1>1, <3>1, <3>2
  <2> QED BY <1>1, <1>2, <2>1, <2>2, <2>3
<1>6. ASSUME a < c PROVE a \in DOMAIN h /\ \E p \in DOMAIN h : p + h[p].width = c
  <2>1. CASE b < c
    <3>1. b \in DOMAIN g /\ \E p \in DOMAIN g : p + g[p].width = c
      BY <2>1 DEF Tiles
    <3>2. a < b => a \in DOMAIN f
      BY DEF Tiles
    <3>3. a \in DOMAIN h
      BY <1>1, <1>2, <3>1, <3>2
    <3> QED BY <1>1, <3>1, <3>3
  <2>2. CASE b = c
    <3>1. a \in DOMAIN f /\ \E p \in DOMAIN f : p + f[p].width = b
      BY <1>6, <2>2 DEF Tiles
    <3> QED BY <1>1, <2>2, <3>1
  <2> QED BY <1>2, <2>1, <2>2
<1>7. \A p \in DOMAIN h : p \in DOMAIN f \/ p \in DOMAIN g
  BY <1>1
<1> QED
  BY <1>2, <1>3, <1>4, <1>5, <1>6, <1>7 DEF Tiles, h

(* What a block holds is held by what it is joined to. *)
LEMMA HasJoined ==
  ASSUME NEW f, NEW g, NEW a, NEW b, NEW c, Tiles(f, a, b), Tiles(g, b, c),
         NEW p, NEW w \in Nat, NEW v,
         HasCell(f, b, p, Cell(w, v)) \/ HasCell(g, c, p, Cell(w, v))
  PROVE  HasCell(f ++ g, c, p, Cell(w, v))
<1>1. /\ DOMAIN (f ++ g) = DOMAIN f \cup DOMAIN g
      /\ \A q \in DOMAIN f : (f ++ g)[q] = f[q]
      /\ \A q \in DOMAIN g : (f ++ g)[q] = g[q]
  <2>1. /\ DOMAIN (f ++ g) = DOMAIN f \cup DOMAIN g
        /\ \A q \in DOMAIN f : (f ++ g)[q] = f[q] /\ q < b
        /\ \A q \in DOMAIN g : (f ++ g)[q] = g[q] /\ b <= q
    BY JoinedCells, Zenon
  <2> QED BY <2>1, Zenon
<1>2. CASE HasCell(f, b, p, Cell(w, v))
  <2>1. p \in DOMAIN f /\ p + w <= b /\ f[p].width = w /\ f[p].value = v
    BY <1>2 DEF HasCell, Cell
  <2>2. p \in Nat /\ b \in Nat /\ c \in Nat /\ b <= c
    BY <2>1 DEF Tiles
  <2> QED BY <1>1, <2>1, <2>2 DEF HasCell, Cell
<1>3. CASE HasCell(g, c, p, Cell(w, v))
  BY <1>1, <1>3 DEF HasCell, Cell
<1> QED
  BY <1>2, <1>3

(* One cell. *)
LEMMA TilesOne ==
  ASSUME NEW p \in Nat, NEW w \in Nat \ {0}, NEW v
  PROVE  /\ Tiles(OneCell(p, Cell(w, v)), p, p + w)
         /\ HasCell(OneCell(p, Cell(w, v)), p + w, p, Cell(w, v))
<1> DEFINE f == OneCell(p, Cell(w, v))
<1>1. DOMAIN f = {p} /\ f[p].width = w /\ f[p].value = v
  BY DEF OneCell, Cell
<1> HIDE DEF f
<1>2. Tiles(f, p, p + w)
  BY <1>1 DEF Tiles
<1>3. HasCell(f, p + w, p, Cell(w, v))
  BY <1>1 DEF HasCell, Cell
<1> QED
  BY <1>2, <1>3 DEF f

(* The end of a block is where its last cell ends. *)
LEMMA EndOfBlock ==
  ASSUME NEW f, NEW a, NEW c, Tiles(f, a, c), a < c
  PROVE  Max({p + f[p].width : p \in DOMAIN f}) = c
<1> DEFINE S == {p + f[p].width : p \in DOMAIN f}
<1>1. c \in S
  BY DEF Tiles
<1>2. \A x \in S : x \in Nat /\ c >= x
  BY DEF Tiles
<1> HIDE DEF S
<1>3. c \in Nat
  BY DEF Tiles
<1>4. Max(S) \in S /\ \A x \in S : Max(S) >= x
  BY <1>1, <1>2 DEF Max
<1> DEFINE x == Max(S)
<1>5. x \in Nat /\ c >= x /\ x >= c
  BY <1>1, <1>2, <1>4
<1> HIDE DEF x
<1>6. x = c
  BY <1>3, <1>5
<1> QED
  BY <1>6 DEF S, x

(* A row of cells of the same width: positions and records come in fours    *)
(* and sixteens of bytes.                                                   *)
LEMMA TilesRow ==
  ASSUME NEW s \in {4, 16}, NEW base \in Nat, NEW count \in Nat, NEW f,
         DOMAIN f = {base + s * (i - 1) : i \in 1..count},
         \A p \in DOMAIN f : f[p].width = s
  PROVE  Tiles(f, base, base + s * count)
<1> DEFINE at == [i \in 1..(count + 1) |-> base + s * (i - 1)]
           end == base + s * count
<1>1. /\ \A i \in 1..(count + 1) : at[i] \in Nat
      /\ \A i \in 1..count : at[i + 1] = at[i] + s
      /\ \A i \in 1..(count + 1) : \A k \in 1..(count + 1) : i < k => at[i] + s <= at[k]
      /\ at[1] = base /\ at[count + 1] = end
  <2>1. CASE s = 4
    BY <2>1
  <2>2. CASE s = 16
    BY <2>2
  <2> QED BY <2>1, <2>2
<1>2. DOMAIN f = {at[i] : i \in 1..count}
  <2>1. \A i \in 1..count : at[i] = base + s * (i - 1)
    OBVIOUS
  <2> HIDE DEF at
  <2> QED BY <2>1
<1>3. end \in Nat /\ base <= end /\ (base < end => count > 0)
  <2>1. CASE s = 4
    BY <2>1
  <2>2. CASE s = 16
    BY <2>2
  <2> QED BY <2>1, <2>2
<1>4. s \in Nat \ {0}
  OBVIOUS
<1> HIDE DEF at, end
<1>5. ASSUME NEW i \in 1..count
      PROVE  /\ i \in 1..(count + 1) /\ i + 1 \in 1..(count + 1)
             /\ at[i] \in Nat /\ at[i + 1] = at[i] + s
             /\ base <= at[i] /\ at[i] + s <= end
             /\ (i < count => at[i] + s \in DOMAIN f) /\ (i = count => at[i] + s = end)
  <2>1. i \in 1..(count + 1) /\ i + 1 \in 1..(count + 1) /\ 1 \in 1..(count + 1)
        /\ count + 1 \in 1..(count + 1)
    OBVIOUS
  <2>2. at[i] \in Nat /\ at[i + 1] = at[i] + s
    BY <1>1, <2>1
  <2>3. base <= at[i]
    <3>1. i = 1 \/ 1 < i
      OBVIOUS
    <3>2. 1 < i => at[1] + s <= at[i]
      BY <1>1, <2>1
    <3> QED BY <1>1, <1>4, <2>2, <3>1, <3>2
  <2>4. at[i] + s <= end
    <3>1. at[i] + s <= at[count + 1]
      BY <1>1, <2>1
    <3> QED BY <1>1, <3>1
  <2>5. i < count => at[i] + s \in DOMAIN f
    <3>1. i < count => i + 1 \in 1..count
      OBVIOUS
    <3> QED BY <1>2, <2>2, <3>1
  <2> QED BY <1>1, <2>1, <2>2, <2>3, <2>4, <2>5
<1>6. ASSUME NEW p \in DOMAIN f
      PROVE  /\ p \in Nat /\ f[p].width \in Nat \ {0}
             /\ base <= p /\ p + f[p].width <= end
             /\ p + f[p].width < end => p + f[p].width \in DOMAIN f
             /\ \A q \in DOMAIN f : q < p => q + f[q].width <= p
  <2>1. PICK i \in 1..count : p = at[i]
    BY <1>2
  <2>2. f[p].width = s
    OBVIOUS
  <2>3. p + s < end => p + s \in DOMAIN f
    <3>1. i < count \/ i = count
      OBVIOUS
    <3>2. i < count => p + s \in DOMAIN f
      BY <1>5, <2>1
    <3>3. i = count => ~(p + s < end)
      <4>1. i = count => p + s = end
        BY <1>5, <2>1
      <4> QED BY <1>3, <4>1
    <3> QED BY <3>1, <3>2, <3>3
  <2>4. ASSUME NEW q \in DOMAIN f, q < p PROVE q + s <= p
    <3>1. PICK k \in 1..count : q = at[k]
      BY <1>2
    <3>2. ~(i < k) /\ i # k
      <4>1. i < k => at[i] + s <= at[k]
        BY <1>1, <1>5
      <4> QED BY <1>4, <1>5, <2>1, <2>4, <3>1, <4>1
    <3>3. k < i
      BY <3>2
    <3> QED BY <1>1, <1>5, <2>1, <3>1, <3>3
  <2> QED BY <1>4, <1>5, <2>1, <2>2, <2>3, <2>4
<1>7. ASSUME base < end PROVE base \in DOMAIN f /\ \E p \in DOMAIN f : p + f[p].width = end
  <2>1. 1 \in 1..count /\ count \in 1..count
    BY <1>3, <1>7
  <2>2. base \in DOMAIN f
    BY <1>1, <1>2, <2>1
  <2>3. at[count] \in DOMAIN f /\ at[count] + f[at[count]].width = end
    BY <1>2, <1>5, <2>1
  <2> QED BY <2>2, <2>3
<1> QED
  BY <1>3, <1>6, <1>7 DEF Tiles, end

(* The cell of a row that a position is of. *)
LEMMA RowIndex ==
  ASSUME NEW s \in {4, 16}, NEW base \in Nat, NEW i \in Nat \ {0}
  PROVE  ((base + s * (i - 1) - base) \div s) + 1 = i
<1> DEFINE a == base + s * (i - 1) - base
           q == i - 1
           z == 0
<1>1. a = s * q + z /\ a \in Int /\ q \in Int /\ z \in 0..(s - 1) /\ s \in Nat \ {0}
  <2>1. CASE s = 4
    BY <2>1
  <2>2. CASE s = 16
    BY <2>2
  <2> QED BY <2>1, <2>2
<1> HIDE DEF a, q, z
<1>2. a \div s = q
  BY <1>1, DivisionIs
<1> QED
  BY <1>2 DEF a, q

(* What the proofs use of a source. *)
Sized(media) ==
  /\ media.name.size \in Nat /\ media.video.size \in Nat /\ media.audio.size \in Nat
  /\ media.fragments \in Seq(Seq(SampleEntry))

(* The positions in the head of a source. *)
LEMMA HeadPositions ==
  ASSUME NEW media, Sized(media), NEW p \in Nat
  PROVE  /\ NameWidth(media) = media.name.size + 1 /\ NameWidth(media) \in Nat \ {0}
         /\ VideoCell(p, media) = p + 2 + NameWidth(media) /\ VideoCell(p, media) \in Nat
         /\ AudioCell(p, media) = VideoCell(p, media) + 2 + media.video.size
         /\ AudioCell(p, media) \in Nat
         /\ TableCell(p, media) = AudioCell(p, media) + 2 + media.audio.size
         /\ TableCell(p, media) \in Nat
         /\ Len(media.fragments) \in Nat
         /\ EntryCell(p, media, 1) = TableCell(p, media) + 2
         /\ EntryCell(p, media, Len(media.fragments) + 1)
              = EntryCell(p, media, 1) + 4 * Len(media.fragments)
         /\ EntryCell(p, media, Len(media.fragments) + 1) = p + MeasuredHead(media)
         /\ MeasuredHead(media) \in Nat \ {0}
<1> DEFINE ns == media.name.size
           vs == media.video.size
           au == media.audio.size
           count == Len(media.fragments)
<1>1. ns \in Nat /\ vs \in Nat /\ au \in Nat /\ count \in Nat
  BY DEF Sized
<1>2. /\ NameWidth(media) = ns + 1
      /\ VideoCell(p, media) = p + 2 + (ns + 1)
      /\ AudioCell(p, media) = p + 2 + (ns + 1) + 2 + vs
      /\ TableCell(p, media) = p + 2 + (ns + 1) + 2 + vs + 2 + au
      /\ EntryCell(p, media, 1) = p + 2 + (ns + 1) + 2 + vs + 2 + au + 2 + 4 * (1 - 1)
      /\ EntryCell(p, media, count + 1)
           = p + 2 + (ns + 1) + 2 + vs + 2 + au + 2 + 4 * (count + 1 - 1)
      /\ MeasuredHead(media) = 2 + ns + 1 + 2 + vs + 2 + au + 2 + count * 4
  BY DEF NameWidth, VideoCell, AudioCell, TableCell, EntryCell, MeasuredHead
<1> HIDE DEF ns, vs, au, count
<1>3. /\ NameWidth(media) = ns + 1 /\ NameWidth(media) \in Nat \ {0}
      /\ VideoCell(p, media) = p + 2 + NameWidth(media) /\ VideoCell(p, media) \in Nat
      /\ AudioCell(p, media) = VideoCell(p, media) + 2 + vs
      /\ AudioCell(p, media) \in Nat
      /\ TableCell(p, media) = AudioCell(p, media) + 2 + au
      /\ TableCell(p, media) \in Nat
      /\ EntryCell(p, media, 1) = TableCell(p, media) + 2
  BY <1>1, <1>2
<1>4. /\ EntryCell(p, media, count + 1) = EntryCell(p, media, 1) + 4 * count
      /\ EntryCell(p, media, count + 1) = p + MeasuredHead(media)
      /\ MeasuredHead(media) \in Nat \ {0}
  BY <1>1, <1>2
<1> QED
  BY <1>1, <1>3, <1>4 DEF ns, vs, au, count

(* What a row holds. *)
LEMMA RowHolds ==
  ASSUME NEW s \in {4, 16}, NEW base \in Nat, NEW count \in Nat, NEW f, NEW val,
         \A p : p \in DOMAIN f <=> \E i \in 1..count : p = base + s * (i - 1),
         \A i \in 1..count : f[base + s * (i - 1)] = Cell(s, val[i])
  PROVE  /\ Tiles(f, base, base + s * count)
         /\ \A i \in 1..count :
              HasCell(f, base + s * count, base + s * (i - 1), Cell(s, val[i]))
<1>0. \A v : Cell(s, v).width = s /\ Cell(s, v).value = v
  BY DEF Cell
<1>1. ASSUME NEW p \in DOMAIN f PROVE f[p].width = s
  <2>1. PICK i \in 1..count : p = base + s * (i - 1)
    OBVIOUS
  <2>2. f[p] = Cell(s, val[i])
    BY <2>1
  <2> QED BY <1>0, <2>2
<1>2. Tiles(f, base, base + s * count)
  <2>1. DOMAIN f = {base + s * (i - 1) : i \in 1..count}
    OBVIOUS
  <2> QED BY <1>1, <2>1, TilesRow
<1>3. ASSUME NEW i \in 1..count
      PROVE  HasCell(f, base + s * count, base + s * (i - 1), Cell(s, val[i]))
  <2>1. base + s * (i - 1) \in DOMAIN f
    OBVIOUS
  <2>2. f[base + s * (i - 1)].width = s /\ f[base + s * (i - 1)].value = val[i]
    BY <1>0
  <2>3. base + s * (i - 1) + s <= base + s * count
    <3>1. CASE s = 4
      BY <3>1
    <3>2. CASE s = 16
      BY <3>2
    <3> QED BY <3>1, <3>2
  <2> QED BY <2>1, <2>2, <2>3 DEF HasCell, Cell
<1> QED
  BY <1>2, <1>3

(* A length and the bytes of a blob. *)
LEMMA BlobHolds ==
  ASSUME NEW p \in Nat, NEW b, b.size \in Nat
  PROVE  /\ Tiles(BlobBlock(p, b), p, p + 2 + b.size)
         /\ HasBlob(BlobBlock(p, b), p + 2 + b.size, p, b)
<1> DEFINE v == b.size % U16
           len == OneCell(p, Cell(2, v))
           bytes == OneCell(p + 2, Cell(b.size, b.id))
<1>1. Tiles(len, p, p + 2) /\ HasCell(len, p + 2, p, Cell(2, v))
  BY TilesOne
<1>2. CASE b.size = 0
  <2>1. BlobBlock(p, b) = len
    BY <1>2 DEF BlobBlock, Count
  <2> HIDE DEF len
  <2> QED BY <1>1, <1>2, <2>1 DEF HasBlob, Count
<1>3. CASE b.size # 0
  <2>1. BlobBlock(p, b) = len ++ bytes
    BY <1>3 DEF BlobBlock, Count
  <2>2. p + 2 \in Nat /\ b.size \in Nat \ {0}
    BY <1>3
  <2>3. Tiles(bytes, p + 2, p + 2 + b.size)
        /\ HasCell(bytes, p + 2 + b.size, p + 2, Cell(b.size, b.id))
    BY <2>2, TilesOne
  <2> HIDE DEF len, bytes, v
  <2>4. Tiles(len ++ bytes, p, p + 2 + b.size)
    BY <1>1, <2>3, TilesJoin
  <2>5. HasCell(len ++ bytes, p + 2 + b.size, p, Cell(2, v))
    BY <1>1, <2>3, HasJoined
  <2>6. HasCell(len ++ bytes, p + 2 + b.size, p + 2, Cell(b.size, b.id))
    BY <1>1, <2>3, HasJoined
  <2> QED BY <2>1, <2>4, <2>5, <2>6 DEF HasBlob, Count, v
<1> QED
  BY <1>2, <1>3

(* The table of a source gives the positions it is made from. *)
LEMMA TableHolds ==
  ASSUME NEW media, Sized(media), NEW p \in Nat, NEW positions, NEW end,
         end = EntryCell(p, media, Len(media.fragments) + 1)
  PROVE  /\ Tiles(TableBlock(p, media, positions), TableCell(p, media), end)
         /\ HasCell(TableBlock(p, media, positions), end, TableCell(p, media),
                    Count(Len(media.fragments)))
         /\ \A i \in 1..Len(media.fragments) :
              HasCell(TableBlock(p, media, positions), end, EntryCell(p, media, i),
                      Cell(4, positions[i]))
<1> DEFINE count == Len(media.fragments)
           tc == TableCell(p, media)
           base == tc + 2
           v == count % U16
           len == OneCell(tc, Cell(2, v))
           row == [q \in {EntryCell(p, media, i) : i \in 1..count} |->
                     Cell(4, positions[((q - EntryCell(p, media, 1)) \div 4) + 1])]
<1>1. tc \in Nat /\ base \in Nat /\ count \in Nat /\ EntryCell(p, media, 1) = base
      /\ end = base + 4 * count
  <2>1. /\ TableCell(p, media) \in Nat /\ Len(media.fragments) \in Nat
        /\ EntryCell(p, media, 1) = TableCell(p, media) + 2
        /\ EntryCell(p, media, Len(media.fragments) + 1)
             = EntryCell(p, media, 1) + 4 * Len(media.fragments)
    BY HeadPositions
  <2> QED BY <2>1
<1>2. TableBlock(p, media, positions) = len ++ row
  BY DEF TableBlock, Count
<1>3. \A i \in 1..count : EntryCell(p, media, i) = base + 4 * (i - 1)
  BY DEF EntryCell
<1>4. Tiles(len, tc, base) /\ HasCell(len, base, tc, Cell(2, v))
  BY <1>1, TilesOne
<1> HIDE DEF len, v, tc, base, count
<1>5. \A q : q \in DOMAIN row <=> \E i \in 1..count : q = base + 4 * (i - 1)
  <2>1. DOMAIN row = {EntryCell(p, media, i) : i \in 1..count}
    OBVIOUS
  <2> HIDE DEF row
  <2> QED BY <1>3, <2>1
<1>6. ASSUME NEW i \in 1..count
      PROVE  row[base + 4 * (i - 1)] = Cell(4, positions[i])
  <2> DEFINE q == base + 4 * (i - 1)
             k == ((q - base) \div 4) + 1
  <2>1. i \in Nat \ {0} /\ 4 \in {4, 16}
    BY <1>1
  <2>2. k = i
    BY <1>1, <2>1, RowIndex
  <2>3. q \in {EntryCell(p, media, j) : j \in 1..count}
    BY <1>3
  <2>4. row[q] = Cell(4, positions[k])
    BY <1>1, <2>3
  <2> HIDE DEF row, k
  <2> QED BY <2>2, <2>4
<1> HIDE DEF row
<1>7. Tiles(row, base, end)
      /\ \A i \in 1..count : HasCell(row, end, base + 4 * (i - 1), Cell(4, positions[i]))
  <2>1. 4 \in {4, 16}
    OBVIOUS
  <2>2. /\ Tiles(row, base, base + 4 * count)
        /\ \A i \in 1..count :
             HasCell(row, base + 4 * count, base + 4 * (i - 1), Cell(4, positions[i]))
    BY <1>1, <1>5, <1>6, <2>1, RowHolds, ZenonT(60)
  <2> QED BY <1>1, <2>2
<1>8. Tiles(len ++ row, tc, end) /\ HasCell(len ++ row, end, tc, Cell(2, v))
  BY <1>4, <1>7, TilesJoin, HasJoined
<1>9. ASSUME NEW i \in 1..count
      PROVE  HasCell(len ++ row, end, EntryCell(p, media, i), Cell(4, positions[i]))
  <2>1. HasCell(row, end, base + 4 * (i - 1), Cell(4, positions[i]))
    BY <1>7
  <2>2. HasCell(len ++ row, end, base + 4 * (i - 1), Cell(4, positions[i]))
    BY <1>4, <1>7, <2>1, HasJoined
  <2> QED BY <1>3, <2>2
<1> QED
  BY <1>2, <1>8, <1>9 DEF tc, count, v, Count
-----------------------------------------------------------------------------
(* What f, of length a, holds is held by g, of length b. *)
Keeps(f, a, g, b) ==
  \A p : \A w \in Nat : \A v : HasCell(f, a, p, Cell(w, v)) => HasCell(g, b, p, Cell(w, v))

LEMMA JoinHolds ==
  ASSUME NEW f, NEW g, NEW a, NEW b, NEW c, Tiles(f, a, b), Tiles(g, b, c)
  PROVE  Tiles(f ++ g, a, c) /\ Keeps(f, b, f ++ g, c) /\ Keeps(g, c, f ++ g, c)
BY TilesJoin, HasJoined DEF Keeps

(* The cells of a source's head, with the positions its table gives. *)
HasHead(f, length, p, media, positions) ==
  /\ HasCell(f, length, p, Count(NameWidth(media)))
  /\ HasCell(f, length, p + 2, Cell(NameWidth(media), media.name.id))
  /\ HasBlob(f, length, VideoCell(p, media), media.video)
  /\ HasBlob(f, length, AudioCell(p, media), media.audio)
  /\ HasCell(f, length, TableCell(p, media), Count(Len(media.fragments)))
  /\ \A i \in 1..Len(media.fragments) :
       HasCell(f, length, EntryCell(p, media, i), Cell(4, positions[i]))

LEMMA KeepsBlob ==
  ASSUME NEW f, NEW a, NEW g, NEW b, Keeps(f, a, g, b), NEW p, NEW x, x.size \in Nat,
         HasBlob(f, a, p, x)
  PROVE  HasBlob(g, b, p, x)
BY DEF Keeps, HasBlob, Count

LEMMA KeepsHead ==
  ASSUME NEW f, NEW a, NEW g, NEW b, Keeps(f, a, g, b), NEW p \in Nat, NEW media, Sized(media),
         NEW positions, HasHead(f, a, p, media, positions)
  PROVE  HasHead(g, b, p, media, positions)
<1>1. NameWidth(media) \in Nat
  BY HeadPositions
<1>2. media.video.size \in Nat /\ media.audio.size \in Nat
  BY DEF Sized
<1>3. /\ HasBlob(g, b, VideoCell(p, media), media.video)
      /\ HasBlob(g, b, AudioCell(p, media), media.audio)
  BY <1>2, KeepsBlob DEF HasHead
<1>4. /\ HasCell(g, b, p, Count(NameWidth(media)))
      /\ HasCell(g, b, p + 2, Cell(NameWidth(media), media.name.id))
      /\ HasCell(g, b, TableCell(p, media), Count(Len(media.fragments)))
  BY <1>1 DEF HasHead, Keeps, Count
<1>5. \A i \in 1..Len(media.fragments) :
        HasCell(g, b, EntryCell(p, media, i), Cell(4, positions[i]))
  BY DEF HasHead, Keeps
<1> QED
  BY <1>3, <1>4, <1>5 DEF HasHead

LEMMA KeepsFragment ==
  ASSUME NEW f, NEW a, NEW g, NEW b, Keeps(f, a, g, b), NEW p, NEW media, NEW fragment,
         DescribesFragment(f, a, p, media, fragment)
  PROVE  DescribesFragment(g, b, p, media, fragment)
BY DEF Keeps, DescribesFragment, Count

(* The head of a source is as long as the first pass counts it. *)
LEMMA MediaHolds ==
  ASSUME NEW media, Sized(media), NEW p \in Nat, NEW positions
  PROVE  /\ Tiles(MediaBlock(p, media, positions), p, p + MeasuredHead(media))
         /\ HasHead(MediaBlock(p, media, positions), p + MeasuredHead(media), p, media, positions)
<1> DEFINE nw == NameWidth(media)
           vc == VideoCell(p, media)
           ac == AudioCell(p, media)
           tc == TableCell(p, media)
           end == p + MeasuredHead(media)
           length == OneCell(p, Cell(2, nw % U16))
           name == OneCell(p + 2, Cell(nw, media.name.id))
           video == BlobBlock(vc, media.video)
           audio == BlobBlock(ac, media.audio)
           table == TableBlock(p, media, positions)
<1>1. /\ nw \in Nat \ {0} /\ vc \in Nat /\ ac \in Nat /\ tc \in Nat /\ p + 2 \in Nat
      /\ vc = p + 2 + nw /\ ac = vc + 2 + media.video.size /\ tc = ac + 2 + media.audio.size
  BY HeadPositions
<1>2. end = EntryCell(p, media, Len(media.fragments) + 1)
  BY HeadPositions
<1>3. media.video.size \in Nat /\ media.audio.size \in Nat
  BY DEF Sized
<1>4. Tiles(length, p, p + 2) /\ HasCell(length, p + 2, p, Cell(2, nw % U16))
  BY TilesOne
<1>5. Tiles(name, p + 2, vc) /\ HasCell(name, vc, p + 2, Cell(nw, media.name.id))
  BY <1>1, TilesOne
<1>6. Tiles(video, vc, ac) /\ HasBlob(video, ac, vc, media.video)
  BY <1>1, <1>3, BlobHolds
<1>7. Tiles(audio, ac, tc) /\ HasBlob(audio, tc, ac, media.audio)
  BY <1>1, <1>3, BlobHolds
<1>8. /\ Tiles(table, tc, end)
      /\ HasCell(table, end, tc, Count(Len(media.fragments)))
      /\ \A i \in 1..Len(media.fragments) :
           HasCell(table, end, EntryCell(p, media, i), Cell(4, positions[i]))
  BY <1>2, TableHolds
<1>9. MediaBlock(p, media, positions) = length ++ name ++ video ++ audio ++ table
  BY DEF MediaBlock, Count
<1> HIDE DEF nw, vc, ac, tc, end, length, name, video, audio, table
<1>10. /\ Tiles(length ++ name, p, vc)
       /\ HasCell(length ++ name, vc, p, Cell(2, nw % U16))
       /\ HasCell(length ++ name, vc, p + 2, Cell(nw, media.name.id))
  BY <1>1, <1>4, <1>5, JoinHolds DEF Keeps
<1>11. /\ Tiles(length ++ name ++ video, p, ac)
       /\ Keeps(length ++ name, vc, length ++ name ++ video, ac)
       /\ Keeps(video, ac, length ++ name ++ video, ac)
  BY <1>6, <1>10, JoinHolds
<1>12. /\ Tiles(length ++ name ++ video ++ audio, p, tc)
       /\ Keeps(length ++ name ++ video, ac, length ++ name ++ video ++ audio, tc)
       /\ Keeps(audio, tc, length ++ name ++ video ++ audio, tc)
  BY <1>7, <1>11, JoinHolds
<1> DEFINE block == length ++ name ++ video ++ audio ++ table
<1>13. /\ Tiles(block, p, end)
       /\ Keeps(length ++ name ++ video ++ audio, tc, block, end)
       /\ Keeps(table, end, block, end)
  BY <1>8, <1>12, JoinHolds
<1> HIDE DEF block
<1>14. /\ Keeps(length ++ name, vc, block, end) /\ Keeps(video, ac, block, end)
       /\ Keeps(audio, tc, block, end)
  BY <1>11, <1>12, <1>13 DEF Keeps
<1>15. /\ HasCell(block, end, p, Cell(2, nw % U16))
       /\ HasCell(block, end, p + 2, Cell(nw, media.name.id))
  BY <1>1, <1>10, <1>14 DEF Keeps
<1>16. HasBlob(block, end, vc, media.video) /\ HasBlob(block, end, ac, media.audio)
  BY <1>3, <1>6, <1>7, <1>14, KeepsBlob
<1>17. /\ HasCell(block, end, tc, Count(Len(media.fragments)))
       /\ \A i \in 1..Len(media.fragments) :
            HasCell(block, end, EntryCell(p, media, i), Cell(4, positions[i]))
  BY <1>8, <1>13 DEF Keeps, Count
<1>18. HasHead(block, end, p, media, positions)
  BY <1>15, <1>16, <1>17 DEF HasHead, nw, vc, ac, tc, Count
<1> QED
  BY <1>9, <1>13, <1>18 DEF end, block

(* A fragment is as long as the first pass counts it. *)
LEMMA FragmentHolds ==
  ASSUME NEW media, NEW fragment, Len(fragment) \in Nat, NEW p \in Nat
  PROVE  /\ MeasuredFragment(fragment) \in Nat \ {0}
         /\ Tiles(FragmentBlock(p, media, fragment), p, p + MeasuredFragment(fragment))
         /\ DescribesFragment(FragmentBlock(p, media, fragment), p + MeasuredFragment(fragment),
                              p, media, fragment)
<1> DEFINE count == Len(fragment)
           v == count % U16
           total == TotalSize(media, fragment)
           base == p + 6
           end == p + MeasuredFragment(fragment)
           length == OneCell(p, Cell(2, v))
           bytes == OneCell(p + 2, Cell(4, total))
           row == Records(p, fragment)
           val == [j \in 1..count |-> SampleRecord(fragment[j])]
<1>1. /\ MeasuredFragment(fragment) \in Nat \ {0} /\ end = base + 16 * count
      /\ base \in Nat /\ p + 2 \in Nat /\ (p + 2) + 4 = base
  BY DEF MeasuredFragment
<1>2. FragmentBlock(p, media, fragment) = length ++ bytes ++ row
  BY DEF FragmentBlock, Count
<1>3. \A j \in Int : RecordCell(p, j) = base + 16 * (j - 1)
  BY DEF RecordCell
<1>4. Tiles(length, p, p + 2) /\ HasCell(length, p + 2, p, Cell(2, v))
  BY TilesOne
<1>5. Tiles(bytes, p + 2, base) /\ HasCell(bytes, base, p + 2, Cell(4, total))
  <2>1. /\ Tiles(bytes, p + 2, (p + 2) + 4)
        /\ HasCell(bytes, (p + 2) + 4, p + 2, Cell(4, total))
    BY <1>1, TilesOne
  <2> HIDE DEF bytes, base
  <2> QED BY <1>1, <2>1
<1> HIDE DEF length, bytes, v, total
<1>6. \A q : q \in DOMAIN row <=> \E j \in 1..count : q = base + 16 * (j - 1)
  <2>1. DOMAIN row = {RecordCell(p, j) : j \in 1..count}
    BY DEF Records
  <2>2. \A j \in 1..count : RecordCell(p, j) = base + 16 * (j - 1)
    BY <1>3
  <2> HIDE DEF row, count, base
  <2> QED BY <2>1, <2>2
<1>7. ASSUME NEW j \in 1..count
      PROVE  row[base + 16 * (j - 1)] = Cell(16, val[j])
  <2> DEFINE q == base + 16 * (j - 1)
             k == ((q - base) \div 16) + 1
  <2>1. j \in Nat \ {0} /\ 16 \in {4, 16}
    OBVIOUS
  <2>2. k = j
    BY <1>1, <2>1, RowIndex
  <2>3. q \in {RecordCell(p, i) : i \in 1..count}
    BY <1>3
  <2>4. RecordCell(p, 1) = base
    BY <1>1, <1>3
  <2>5. row[q] = Cell(16, SampleRecord(fragment[k]))
    <3> HIDE DEF q
    <3> QED BY <2>3, <2>4 DEF Records
  <2>6. val[j] = SampleRecord(fragment[j])
    OBVIOUS
  <2> HIDE DEF row, k, val
  <2> QED BY <2>2, <2>5, <2>6
<1>8. \A j \in 1..count : val[j] = SampleRecord(fragment[j])
  OBVIOUS
<1> HIDE DEF row, val, count, base
<1>9. /\ Tiles(row, base, base + 16 * count)
      /\ \A j \in 1..count :
           HasCell(row, base + 16 * count, base + 16 * (j - 1), Cell(16, val[j]))
  <2>1. 16 \in {4, 16} /\ count \in Nat
    BY DEF count
  <2> QED BY <1>1, <1>6, <1>7, <2>1, RowHolds, ZenonT(60)
<1> DEFINE block == length ++ bytes ++ row
<1>10. /\ Tiles(length ++ bytes, p, base)
       /\ HasCell(length ++ bytes, base, p, Cell(2, v))
       /\ HasCell(length ++ bytes, base, p + 2, Cell(4, total))
  BY <1>4, <1>5, JoinHolds DEF Keeps
<1> HIDE DEF end
<1>11. /\ Tiles(block, p, end) /\ Keeps(length ++ bytes, base, block, end)
       /\ Keeps(row, end, block, end)
  BY <1>1, <1>9, <1>10, JoinHolds
<1> HIDE DEF block
<1>12. HasCell(block, end, p, Cell(2, v)) /\ HasCell(block, end, p + 2, Cell(4, total))
  BY <1>10, <1>11 DEF Keeps
<1>13. ASSUME NEW j \in 1..count
       PROVE  HasCell(block, end, RecordCell(p, j), Cell(16, SampleRecord(fragment[j])))
  <2>1. HasCell(row, end, base + 16 * (j - 1), Cell(16, val[j]))
    BY <1>1, <1>9
  <2>2. HasCell(block, end, base + 16 * (j - 1), Cell(16, val[j]))
    BY <1>11, <2>1 DEF Keeps
  <2>3. RecordCell(p, j) = base + 16 * (j - 1)
    BY <1>3
  <2> QED BY <1>8, <2>2, <2>3
<1>14. DescribesFragment(block, end, p, media, fragment)
  BY <1>12, <1>13 DEF DescribesFragment, Count, v, count, total
<1> QED
  BY <1>1, <1>2, <1>11, <1>14 DEF end, block

(* The header: magic, version, and the position of every source. *)
HasHeader(f, length, count, positions) ==
  /\ HasCell(f, length, 0, Cell(7, "mp4frag"))
  /\ HasCell(f, length, 7, Cell(1, Version))
  /\ HasCell(f, length, 8, Count(count))
  /\ \A i \in 1..count : HasCell(f, length, DirectoryCell(i), Cell(4, positions[i]))

LEMMA KeepsHeader ==
  ASSUME NEW f, NEW a, NEW g, NEW b, Keeps(f, a, g, b), NEW count, NEW positions,
         HasHeader(f, a, count, positions)
  PROVE  HasHeader(g, b, count, positions)
BY DEF Keeps, HasHeader, Count

LEMMA HeaderHolds ==
  ASSUME Len(medialist) \in Nat
  PROVE  /\ DirectoryCell(Len(medialist) + 1) \in Nat \ {0}
         /\ Tiles(HeaderBlock, 0, DirectoryCell(Len(medialist) + 1))
         /\ HasHeader(HeaderBlock, DirectoryCell(Len(medialist) + 1), Len(medialist),
                      fragmentdir_map)
<1> DEFINE count == Len(medialist)
           v == count % U16
           end == DirectoryCell(count + 1)
           magic == OneCell(0, Cell(7, "mp4frag"))
           version == OneCell(7, Cell(1, Version))
           length == OneCell(8, Cell(2, v))
           row == [q \in {DirectoryCell(i) : i \in 1..count} |->
                     Cell(4, fragmentdir_map[((q - DirectoryCell(1)) \div 4) + 1])]
<1>1. end \in Nat \ {0} /\ end = 10 + 4 * count
  BY DEF DirectoryCell
<1>2. HeaderBlock = magic ++ version ++ length ++ row
  BY DEF HeaderBlock, Count
<1>3. \A i \in Int : DirectoryCell(i) = 10 + 4 * (i - 1)
  BY DEF DirectoryCell
<1>4. Tiles(magic, 0, 7) /\ HasCell(magic, 7, 0, Cell(7, "mp4frag"))
  <2>1. 0 + 7 = 7 /\ 0 \in Nat /\ 7 \in Nat \ {0}
    OBVIOUS
  <2>2. Tiles(magic, 0, 0 + 7) /\ HasCell(magic, 0 + 7, 0, Cell(7, "mp4frag"))
    BY <2>1, TilesOne
  <2> HIDE DEF magic
  <2> QED BY <2>1, <2>2
<1>5. Tiles(version, 7, 8) /\ HasCell(version, 8, 7, Cell(1, Version))
  <2>1. 7 + 1 = 8 /\ 7 \in Nat /\ 1 \in Nat \ {0}
    OBVIOUS
  <2>2. Tiles(version, 7, 7 + 1) /\ HasCell(version, 7 + 1, 7, Cell(1, Version))
    BY <2>1, TilesOne
  <2> HIDE DEF version
  <2> QED BY <2>1, <2>2
<1>6. Tiles(length, 8, 10) /\ HasCell(length, 10, 8, Cell(2, v))
  <2>1. 8 + 2 = 10 /\ 8 \in Nat /\ 2 \in Nat \ {0}
    OBVIOUS
  <2>2. Tiles(length, 8, 8 + 2) /\ HasCell(length, 8 + 2, 8, Cell(2, v))
    BY <2>1, TilesOne
  <2> HIDE DEF length
  <2> QED BY <2>1, <2>2
<1> HIDE DEF magic, version, length, v, end, count
<1>7. \A q : q \in DOMAIN row <=> \E i \in 1..count : q = 10 + 4 * (i - 1)
  <2>1. DOMAIN row = {DirectoryCell(i) : i \in 1..count}
    OBVIOUS
  <2>2. \A i \in 1..count : DirectoryCell(i) = 10 + 4 * (i - 1)
    BY <1>3
  <2> HIDE DEF row
  <2> QED BY <2>1, <2>2
<1>8. ASSUME NEW i \in 1..count
      PROVE  row[10 + 4 * (i - 1)] = Cell(4, fragmentdir_map[i])
  <2> DEFINE q == 10 + 4 * (i - 1)
             k == ((q - 10) \div 4) + 1
  <2>1. i \in Nat \ {0} /\ 4 \in {4, 16} /\ 10 \in Nat
    BY DEF count
  <2>2. k = i
    BY <2>1, RowIndex
  <2>3. q \in {DirectoryCell(j) : j \in 1..count}
    BY <1>3
  <2>4. DirectoryCell(1) = 10
    BY <1>3
  <2>5. row[q] = Cell(4, fragmentdir_map[k])
    <3> HIDE DEF q
    <3> QED BY <2>3, <2>4
  <2> HIDE DEF row, k
  <2> QED BY <2>2, <2>5
<1> HIDE DEF row
<1>9. /\ Tiles(row, 10, 10 + 4 * count)
      /\ \A i \in 1..count :
           HasCell(row, 10 + 4 * count, 10 + 4 * (i - 1), Cell(4, fragmentdir_map[i]))
  <2>1. 4 \in {4, 16} /\ count \in Nat /\ 10 \in Nat
    BY DEF count
  <2> QED BY <1>7, <1>8, <2>1, RowHolds, ZenonT(60)
<1>10. /\ Tiles(magic ++ version, 0, 8)
       /\ HasCell(magic ++ version, 8, 0, Cell(7, "mp4frag"))
       /\ HasCell(magic ++ version, 8, 7, Cell(1, Version))
  BY <1>4, <1>5, JoinHolds DEF Keeps
<1>11. /\ Tiles(magic ++ version ++ length, 0, 10)
       /\ Keeps(magic ++ version, 8, magic ++ version ++ length, 10)
       /\ Keeps(length, 10, magic ++ version ++ length, 10)
  BY <1>6, <1>10, JoinHolds
<1> DEFINE block == magic ++ version ++ length ++ row
<1>12. /\ Tiles(block, 0, end) /\ Keeps(magic ++ version ++ length, 10, block, end)
       /\ Keeps(row, end, block, end)
  BY <1>1, <1>9, <1>11, JoinHolds
<1> HIDE DEF block
<1>13. /\ HasCell(block, end, 0, Cell(7, "mp4frag")) /\ HasCell(block, end, 7, Cell(1, Version))
       /\ HasCell(block, end, 8, Cell(2, v))
  BY <1>6, <1>10, <1>11, <1>12 DEF Keeps
<1>14. ASSUME NEW i \in 1..count
       PROVE  HasCell(block, end, DirectoryCell(i), Cell(4, fragmentdir_map[i]))
  <2>1. HasCell(row, end, 10 + 4 * (i - 1), Cell(4, fragmentdir_map[i]))
    BY <1>1, <1>9
  <2>2. HasCell(block, end, 10 + 4 * (i - 1), Cell(4, fragmentdir_map[i]))
    BY <1>12, <2>1 DEF Keeps
  <2>3. DirectoryCell(i) = 10 + 4 * (i - 1)
    BY <1>3
  <2> QED BY <2>2, <2>3
<1>15. HasHeader(block, end, count, fragmentdir_map)
  BY <1>13, <1>14 DEF HasHeader, Count, v, count
<1> QED
  BY <1>1, <1>2, <1>12, <1>15 DEF end, block, count

(* Writing a block where the file ends lengthens the file by the block. *)
LEMMA WriteHolds ==
  ASSUME NEW block, NEW c, Tiles(cells, 0, size), Tiles(block, size, c), size < c, Write(block)
  PROVE  /\ Tiles(cells', 0, size') /\ size' = c
         /\ Keeps(cells, size, cells', size') /\ Keeps(block, c, cells', size')
<1>1. cells' = cells ++ block /\ size' = Max({p + block[p].width : p \in DOMAIN block})
  BY DEF Write
<1>2. size' = c
  BY <1>1, EndOfBlock
<1>3. /\ Tiles(cells ++ block, 0, c) /\ Keeps(cells, size, cells ++ block, c)
      /\ Keeps(block, c, cells ++ block, c)
  BY JoinHolds
<1> QED
  BY <1>1, <1>2, <1>3
-----------------------------------------------------------------------------
(* Where the first pass says that the jth fragment of source i ends; the    *)
(* head of the source counts as its fragment 0.                             *)
EndOf(sources, heads, places, i, j) ==
  IF j = 0 THEN heads[i] + MeasuredHead(sources[i])
  ELSE places[i][j] + MeasuredFragment(sources[i].fragments[j])

After(i, j) == EndOf(medialist, fragmentdir_map, fragments_by_media, i, j)

(* The first pass: each block begins where the one before it ends. *)
MeasuredRight ==
  /\ header_size = IF Measured = 0 THEN DirectoryCell(Len(medialist) + 1)
                   ELSE After(Measured, Len(Last))
  /\ \A i \in 1..Measured :
       /\ fragmentdir_map[i] = IF i = 1 THEN DirectoryCell(Len(medialist) + 1)
                               ELSE After(i - 1, Len(fragments_by_media[i - 1]))
       /\ DirectoryCell(Len(medialist) + 1) <= fragmentdir_map[i]
       /\ Len(fragments_by_media[i]) <= Len(medialist[i].fragments)
       /\ i < Measured => Len(fragments_by_media[i]) = Len(medialist[i].fragments)
       /\ \A j \in 1..Len(fragments_by_media[i]) :
            fragments_by_media[i][j] = After(i, j - 1) /\ After(i, 0) <= fragments_by_media[i][j]
  /\ pc # "measure" =>
       /\ Measured = Len(medialist)
       /\ \A i \in 1..Measured : Len(fragments_by_media[i]) = Len(medialist[i].fragments)

(* The second pass: what is written ends where the first pass said. *)
Placed ==
  /\ pc \in {"measure", "header"} => cells = <<>> /\ size = 0
  /\ pc = "media" => /\ n \in 1..(Len(medialist) + 1)
                     /\ size = IF n <= Len(medialist) THEN fragmentdir_map[n] ELSE header_size
  /\ pc = "fragments" => /\ n \in 1..Len(medialist)
                         /\ m \in 1..(Len(medialist[n].fragments) + 1)
                         /\ size = After(n, m - 1)
  /\ pc = "done" => n = Len(medialist) + 1 /\ size = header_size
  /\ Tiles(cells, 0, size)

Writing == pc \in {"media", "fragments", "done"}
HeadWritten(i) == Writing /\ (i < n \/ (i = n /\ pc = "fragments"))
FragmentWritten(i, j) == Writing /\ (i < n \/ (i = n /\ pc = "fragments" /\ j < m))

(* What is written is there, at the positions of the first pass. *)
Contents ==
  /\ Writing => HasHeader(cells, size, Len(medialist), fragmentdir_map)
  /\ \A i \in 1..Len(medialist) : HeadWritten(i) =>
       HasHead(cells, size, fragmentdir_map[i], medialist[i], fragments_by_media[i])
  /\ \A i \in 1..Len(medialist) : \A j \in 1..Len(medialist[i].fragments) :
       FragmentWritten(i, j) =>
         DescribesFragment(cells, size, fragments_by_media[i][j], medialist[i],
                           medialist[i].fragments[j])

(* The inductive invariant. *)
IInv == TypeOK /\ MeasuredRight /\ Placed /\ Contents

LEMMA SourcesSized ==
  ASSUME medialist \in MediaLists
  PROVE  /\ Len(medialist) \in Nat \ {0}
         /\ \A i \in 1..Len(medialist) :
              /\ Sized(medialist[i]) /\ MeasuredHead(medialist[i]) \in Nat \ {0}
              /\ Len(medialist[i].fragments) \in Nat
              /\ \A j \in 1..Len(medialist[i].fragments) :
                   /\ Len(medialist[i].fragments[j]) \in Nat
                   /\ MeasuredFragment(medialist[i].fragments[j]) \in Nat \ {0}
<1>1. medialist \in Seq(Media) /\ medialist # <<>>
  BY MediaListsAssumption
<1>2. Len(medialist) \in Nat \ {0}
  BY <1>1
<1>3. ASSUME NEW i \in 1..Len(medialist)
      PROVE  /\ Sized(medialist[i]) /\ MeasuredHead(medialist[i]) \in Nat \ {0}
             /\ Len(medialist[i].fragments) \in Nat
             /\ \A j \in 1..Len(medialist[i].fragments) :
                  /\ Len(medialist[i].fragments[j]) \in Nat
                  /\ MeasuredFragment(medialist[i].fragments[j]) \in Nat \ {0}
  <2> DEFINE media == medialist[i]
  <2>1. media \in Media
    BY <1>1
  <2> HIDE DEF media
  <2>2. Sized(media)
    BY <2>1 DEF Media, Blob, Sized
  <2>3. Len(media.fragments) \in Nat /\ MeasuredHead(media) \in Nat \ {0}
    <3>1. 0 \in Nat
      OBVIOUS
    <3> QED BY <2>2, <3>1, HeadPositions
  <2>4. ASSUME NEW j \in 1..Len(media.fragments)
        PROVE  /\ Len(media.fragments[j]) \in Nat
               /\ MeasuredFragment(media.fragments[j]) \in Nat \ {0}
    <3>1. media.fragments[j] \in Seq(SampleEntry)
      BY <2>2 DEF Sized
    <3>2. Len(media.fragments[j]) \in Nat
      BY <3>1
    <3> QED BY <3>2 DEF MeasuredFragment
  <2> QED BY <2>2, <2>3, <2>4 DEF media
<1> QED
  BY <1>2, <1>3

(* The positions of the first pass are numbers, and grow along a source. *)
LEMMA Positions ==
  ASSUME TypeOK, MeasuredRight
  PROVE  /\ Measured \in 0..Len(medialist) /\ DirectoryCell(Len(medialist) + 1) \in Nat \ {0}
         /\ DirectoryCell(Len(medialist) + 1) <= header_size
         /\ \A i \in 1..Measured :
              /\ fragmentdir_map[i] \in Nat /\ fragments_by_media[i] \in Seq(Nat)
              /\ Len(fragments_by_media[i]) \in Nat
              /\ fragmentdir_map[i] <= After(i, 0)
              /\ \A j \in 0..Len(fragments_by_media[i]) :
                   After(i, j) \in Nat /\ After(i, 0) <= After(i, j)
<1>1. /\ fragmentdir_map \in Seq(Nat) /\ Measured <= Len(medialist)
      /\ fragments_by_media \in Seq(Seq(Nat)) /\ Len(fragments_by_media) = Measured
      /\ Measured \in Nat
  BY DEF TypeOK, Measured
<1>2. Len(medialist) \in Nat \ {0}
  BY SourcesSized DEF TypeOK
<1>3. DirectoryCell(Len(medialist) + 1) \in Nat \ {0}
  BY <1>2 DEF DirectoryCell
<1>4. ASSUME NEW i \in 1..Measured
      PROVE  /\ fragmentdir_map[i] \in Nat /\ fragments_by_media[i] \in Seq(Nat)
             /\ Len(fragments_by_media[i]) \in Nat
             /\ fragmentdir_map[i] <= After(i, 0)
             /\ \A j \in 0..Len(fragments_by_media[i]) :
                  After(i, j) \in Nat /\ After(i, 0) <= After(i, j)
  <2>1. fragmentdir_map[i] \in Nat
    BY <1>1 DEF Measured
  <2>2. fragments_by_media[i] \in Seq(Nat)
    BY <1>1
  <2>3. Len(fragments_by_media[i]) \in Nat
    BY <2>2
  <2>4. i \in 1..Len(medialist)
    BY <1>1, <1>2
  <2>5. MeasuredHead(medialist[i]) \in Nat /\ Len(medialist[i].fragments) \in Nat
    BY <2>4, SourcesSized DEF TypeOK
  <2>6. After(i, 0) \in Nat /\ fragmentdir_map[i] <= After(i, 0)
    BY <2>1, <2>5 DEF After, EndOf
  <2>7. Len(fragments_by_media[i]) <= Len(medialist[i].fragments)
    BY DEF MeasuredRight
  <2>8. ASSUME NEW j \in 0..Len(fragments_by_media[i])
        PROVE  After(i, j) \in Nat /\ After(i, 0) <= After(i, j)
    <3>1. CASE j = 0
      BY <2>6, <3>1
    <3>2. CASE j # 0
      <4>1. j \in 1..Len(fragments_by_media[i]) /\ j \in 1..Len(medialist[i].fragments)
        BY <2>3, <2>5, <2>7, <3>2
      <4>2. fragments_by_media[i][j] \in Nat
        BY <2>2, <4>1
      <4>3. After(i, 0) <= fragments_by_media[i][j]
        BY <4>1 DEF MeasuredRight
      <4>4. MeasuredFragment(medialist[i].fragments[j]) \in Nat
        BY <2>4, <4>1, SourcesSized DEF TypeOK
      <4>5. After(i, j) = fragments_by_media[i][j] + MeasuredFragment(medialist[i].fragments[j])
        BY <3>2 DEF After, EndOf
      <4> QED BY <2>6, <4>2, <4>3, <4>4, <4>5
    <3> QED BY <3>1, <3>2
  <2> QED BY <2>1, <2>2, <2>3, <2>6, <2>8
<1>5. DirectoryCell(Len(medialist) + 1) <= header_size
  <2>1. CASE Measured = 0
    BY <1>3, <2>1 DEF MeasuredRight
  <2>2. CASE Measured # 0
    <3>1. Measured \in 1..Measured
      BY <1>1, <2>2
    <3>2. header_size = After(Measured, Len(fragments_by_media[Measured]))
      BY <2>2 DEF MeasuredRight, Last
    <3>3. DirectoryCell(Len(medialist) + 1) <= fragmentdir_map[Measured]
      BY <3>1 DEF MeasuredRight
    <3> DEFINE l == Len(fragments_by_media[Measured])
    <3>4. l \in 0..l
      BY <1>4, <3>1
    <3>5. /\ fragmentdir_map[Measured] \in Nat /\ fragmentdir_map[Measured] <= After(Measured, 0)
          /\ After(Measured, l) \in Nat /\ After(Measured, 0) \in Nat
          /\ After(Measured, 0) <= After(Measured, l)
      <4>1. 0 \in 0..l
        BY <3>4
      <4> QED BY <1>4, <3>1, <3>4, <4>1
    <3> QED BY <1>3, <3>2, <3>3, <3>5
  <2> QED BY <2>1, <2>2
<1> QED
  BY <1>1, <1>2, <1>3, <1>4, <1>5
-----------------------------------------------------------------------------
(* The first pass. *)
LEMMA InitHolds == Init => IInv
<1> SUFFICES ASSUME Init PROVE IInv
  OBVIOUS
<1> USE DEF Init
<1>1. Len(medialist) \in Nat \ {0}
  BY SourcesSized
<1>2. header_size = DirectoryCell(Len(medialist) + 1) /\ header_size \in Nat
  BY <1>1 DEF DirectoryCell
<1>3. TypeOK
  <2>1. Len(fragmentdir_map) = 0 /\ Len(fragments_by_media) = 0
    OBVIOUS
  <2>2. fragmentdir_map \in Seq(Nat) /\ fragments_by_media \in Seq(Seq(Nat))
    OBVIOUS
  <2>3. DOMAIN cells \subseteq Nat
    OBVIOUS
  <2> QED BY <1>1, <1>2, <2>1, <2>2, <2>3 DEF TypeOK, Measured
<1>4. MeasuredRight
  BY <1>2 DEF MeasuredRight, Measured
<1>5. Placed
  <2>1. Tiles(cells, 0, size)
    BY DEF Tiles
  <2> QED BY <2>1 DEF Placed
<1>6. Contents
  BY DEF Contents, Writing, HeadWritten, FragmentWritten
<1> QED
  BY <1>3, <1>4, <1>5, <1>6 DEF IInv

(* Nothing is written while measuring. *)
LEMMA Unwritten ==
  ASSUME Placed, pc = "measure", UNCHANGED <<cells, size>>, pc' \in {"measure", "header"}
  PROVE  Placed' /\ Contents'
<1>1. Placed'
  BY DEF Placed
<1>2. ~Writing'
  BY DEF Writing
<1> QED
  BY <1>1, <1>2 DEF Contents, HeadWritten, FragmentWritten

LEMMA MeasureMediaHolds ==
  ASSUME IInv, MeasureMedia
  PROVE  IInv'
<1> DEFINE fdm == fragmentdir_map
           fbm == fragments_by_media
           first == DirectoryCell(Len(medialist) + 1)
           A(i, j) == EndOf(medialist, fdm, fbm, i, j)
           B(i, j) == EndOf(medialist, fdm', fbm', i, j)
<1>0. PICK k : k = Measured
  OBVIOUS
<1>1. /\ TypeOK /\ MeasuredRight /\ Placed
      /\ pc = "measure" /\ pc' = "measure" /\ UNCHANGED <<medialist, cells, size, n, m>>
      /\ fdm' = Append(fdm, header_size) /\ fbm' = Append(fbm, <<>>)
      /\ LastIsMeasured /\ k < Len(medialist)
      /\ header_size' = header_size + MeasuredHead(medialist[k + 1])
  BY <1>0 DEF IInv, MeasureMedia, pass2
<1>2. Placed' /\ Contents'
  BY <1>1, Unwritten
<1>3. /\ k \in Nat /\ k + 1 \in 1..Len(medialist) /\ Len(medialist) \in Nat \ {0}
      /\ fdm \in Seq(Nat) /\ Len(fdm) = k /\ fbm \in Seq(Seq(Nat)) /\ Len(fbm) = k
      /\ header_size \in Nat
  BY <1>0, <1>1, SourcesSized, Positions DEF TypeOK, Measured
<1>4. /\ MeasuredHead(medialist[k + 1]) \in Nat \ {0}
      /\ Len(medialist[k + 1].fragments) \in Nat
  BY <1>1, <1>3, SourcesSized DEF TypeOK
<1>5. /\ fdm' \in Seq(Nat) /\ Len(fdm') = k + 1 /\ fdm'[k + 1] = header_size
      /\ \A i \in 1..k : fdm'[i] = fdm[i]
  BY <1>1, <1>3
<1>6. /\ fbm' \in Seq(Seq(Nat)) /\ Len(fbm') = k + 1 /\ fbm'[k + 1] = <<>>
      /\ \A i \in 1..k : fbm'[i] = fbm[i]
  <2>1. <<>> \in Seq(Nat)
    OBVIOUS
  <2> QED BY <1>1, <1>3, <2>1
<1>7. Measured' = k + 1
  BY <1>5 DEF Measured
<1>8. TypeOK'
  <2>1. header_size' \in Nat
    BY <1>1, <1>3, <1>4
  <2>2. /\ fdm' \in Seq(Nat) /\ Len(fdm') <= Len(medialist')
        /\ fbm' \in Seq(Seq(Nat)) /\ Len(fbm') = Measured'
    BY <1>1, <1>3, <1>5, <1>6, <1>7
  <2> QED BY <1>1, <2>1, <2>2 DEF TypeOK
<1>9. \A i \in 1..k : \A j : B(i, j) = A(i, j)
  BY <1>5, <1>6 DEF EndOf
<1>10. B(k + 1, 0) = header_size + MeasuredHead(medialist[k + 1])
  BY <1>5 DEF EndOf
<1>11. first <= header_size
  BY <1>1, Positions
<1>12. header_size = IF k = 0 THEN first ELSE A(k, Len(fbm[k]))
  BY <1>0, <1>1 DEF MeasuredRight, Last, After
<1>13. k # 0 => Len(fbm[k]) = Len(medialist[k].fragments)
  BY <1>0, <1>1, <1>3 DEF LastIsMeasured, Last
<1>14. \A i \in 1..k :
         /\ fdm[i] = IF i = 1 THEN first ELSE A(i - 1, Len(fbm[i - 1]))
         /\ first <= fdm[i]
         /\ Len(fbm[i]) <= Len(medialist[i].fragments)
         /\ i < k => Len(fbm[i]) = Len(medialist[i].fragments)
         /\ \A j \in 1..Len(fbm[i]) : fbm[i][j] = A(i, j - 1) /\ A(i, 0) <= fbm[i][j]
  BY <1>0, <1>1 DEF MeasuredRight, After
<1>15. MeasuredRight' = 
         (/\ header_size' = IF Measured' = 0 THEN first ELSE B(Measured', Len(fbm'[Measured']))
          /\ \A i \in 1..Measured' :
               /\ fdm'[i] = IF i = 1 THEN first ELSE B(i - 1, Len(fbm'[i - 1]))
               /\ first <= fdm'[i]
               /\ Len(fbm'[i]) <= Len(medialist[i].fragments)
               /\ i < Measured' => Len(fbm'[i]) = Len(medialist[i].fragments)
               /\ \A j \in 1..Len(fbm'[i]) : fbm'[i][j] = B(i, j - 1) /\ B(i, 0) <= fbm'[i][j])
  BY <1>1 DEF MeasuredRight, After, Last
<1> HIDE DEF fdm, fbm, A, B, first
<1>16. ASSUME NEW i \in 1..(k + 1)
       PROVE  /\ fdm'[i] = IF i = 1 THEN first ELSE B(i - 1, Len(fbm'[i - 1]))
              /\ first <= fdm'[i]
              /\ Len(fbm'[i]) <= Len(medialist[i].fragments)
              /\ i < k + 1 => Len(fbm'[i]) = Len(medialist[i].fragments)
              /\ \A j \in 1..Len(fbm'[i]) : fbm'[i][j] = B(i, j - 1) /\ B(i, 0) <= fbm'[i][j]
  <2>1. CASE i \in 1..k
    <3>1. i # 1 => i - 1 \in 1..k
      BY <1>3, <2>1
    <3>2. i = k \/ i < k
      BY <1>3, <2>1
    <3>3. fdm'[i] = fdm[i] /\ fbm'[i] = fbm[i] /\ \A j : B(i, j) = A(i, j)
      BY <1>5, <1>6, <1>9, <2>1
    <3>4. i # 1 => B(i - 1, Len(fbm'[i - 1])) = A(i - 1, Len(fbm[i - 1]))
      BY <1>6, <1>9, <3>1
    <3>5. i < k + 1 => Len(fbm[i]) = Len(medialist[i].fragments)
      BY <1>3, <1>13, <1>14, <2>1, <3>2
    <3>6. /\ fdm[i] = IF i = 1 THEN first ELSE A(i - 1, Len(fbm[i - 1]))
          /\ first <= fdm[i] /\ Len(fbm[i]) <= Len(medialist[i].fragments)
          /\ \A j \in 1..Len(fbm[i]) : fbm[i][j] = A(i, j - 1) /\ A(i, 0) <= fbm[i][j]
      BY <1>14, <2>1
    <3> QED BY <3>3, <3>4, <3>5, <3>6
  <2>2. CASE i = k + 1
    <3>1. Len(fbm'[i]) = 0 /\ fdm'[i] = header_size
      BY <1>5, <1>6, <2>2
    <3>2. i = 1 => header_size = first
      BY <1>3, <1>12, <2>2
    <3>3. i # 1 => k # 0 /\ k \in 1..k /\ i - 1 = k
      BY <1>3, <2>2
    <3>4. i # 1 => B(i - 1, Len(fbm'[i - 1])) = header_size
      BY <1>6, <1>9, <1>12, <3>3
    <3> QED BY <1>4, <1>11, <2>2, <3>1, <3>2, <3>4
  <2> QED BY <1>3, <2>1, <2>2
<1>17. /\ k + 1 # 0 /\ Len(fbm'[k + 1]) = 0 /\ header_size' = B(k + 1, 0)
  BY <1>1, <1>3, <1>6, <1>10
<1>18. MeasuredRight'
  BY <1>7, <1>15, <1>16, <1>17
<1> QED
  BY <1>2, <1>8, <1>18 DEF IInv

LEMMA MeasureFragmentHolds ==
  ASSUME IInv, MeasureFragment
  PROVE  IInv'
<1> DEFINE fdm == fragmentdir_map
           fbm == fragments_by_media
           first == DirectoryCell(Len(medialist) + 1)
           A(i, j) == EndOf(medialist, fdm, fbm, i, j)
           B(i, j) == EndOf(medialist, fdm, fbm', i, j)
<1>0. PICK k : k = Measured
  OBVIOUS
<1>1. /\ TypeOK /\ MeasuredRight /\ Placed
      /\ pc = "measure" /\ pc' = "measure" /\ UNCHANGED <<medialist, fdm, cells, size, n, m>>
      /\ fbm' = [fbm EXCEPT ![k] = Append(@, header_size)]
      /\ k > 0 /\ Len(fbm[k]) # Len(medialist[k].fragments)
      /\ header_size'
           = header_size + MeasuredFragment(medialist[k].fragments[Len(fbm[k]) + 1])
  BY <1>0 DEF IInv, MeasureFragment, pass2, LastIsMeasured, Last
<1>2. Placed' /\ Contents'
  BY <1>1, Unwritten
<1>3. /\ k \in 1..Len(medialist) /\ Len(medialist) \in Nat \ {0}
      /\ fbm \in Seq(Seq(Nat)) /\ Len(fbm) = k /\ header_size \in Nat
  BY <1>0, <1>1, SourcesSized, Positions DEF TypeOK
<1>4. PICK l : l = Len(fbm[k])
  OBVIOUS
<1>5. /\ fbm[k] \in Seq(Nat) /\ l \in Nat
      /\ \A j \in 0..l : A(k, j) \in Nat /\ A(k, 0) <= A(k, j)
  <2>1. k \in 1..Measured
    BY <1>0, <1>3
  <2> QED BY <1>1, <1>4, <2>1, Positions DEF After
<1>6. l + 1 \in 1..Len(medialist[k].fragments) /\ Len(medialist[k].fragments) \in Nat
  <2>1. Len(medialist[k].fragments) \in Nat
    BY <1>1, <1>3, SourcesSized DEF TypeOK
  <2>2. l <= Len(medialist[k].fragments)
    BY <1>0, <1>1, <1>3, <1>4 DEF MeasuredRight
  <2> QED BY <1>1, <1>4, <1>5, <2>1, <2>2
<1>7. MeasuredFragment(medialist[k].fragments[l + 1]) \in Nat
  BY <1>1, <1>3, <1>6, SourcesSized DEF TypeOK
<1>8. /\ \A i \in 1..k : i # k => fbm'[i] = fbm[i]
      /\ fbm'[k] = Append(fbm[k], header_size)
  BY <1>1, <1>3
<1>9. /\ Append(fbm[k], header_size) \in Seq(Nat) /\ Len(fbm'[k]) = l + 1
      /\ fbm'[k][l + 1] = header_size
      /\ \A j \in 1..l : fbm'[k][j] = fbm[k][j]
  BY <1>3, <1>4, <1>5, <1>8
<1>10. fbm' \in Seq(Seq(Nat)) /\ Len(fbm') = k
  BY <1>1, <1>3, <1>9
<1>11. TypeOK'
  <2>1. header_size' \in Nat
    BY <1>1, <1>3, <1>4, <1>7
  <2>2. Measured' = Measured
    BY <1>1 DEF Measured
  <2> QED BY <1>0, <1>1, <1>10, <2>1, <2>2 DEF TypeOK
<1>12. \A i \in 1..k : i # k => \A j : B(i, j) = A(i, j)
  BY <1>8 DEF EndOf
<1>13. \A j \in 0..l : B(k, j) = A(k, j)
  BY <1>5, <1>9 DEF EndOf
<1>14. B(k, l + 1) = header_size + MeasuredFragment(medialist[k].fragments[l + 1])
  BY <1>5, <1>9 DEF EndOf
<1>15. header_size = A(k, l)
  BY <1>0, <1>1, <1>3, <1>4 DEF MeasuredRight, Last, After
<1>16. \A i \in 1..k :
         /\ fdm[i] = IF i = 1 THEN first ELSE A(i - 1, Len(fbm[i - 1]))
         /\ first <= fdm[i]
         /\ Len(fbm[i]) <= Len(medialist[i].fragments)
         /\ i < k => Len(fbm[i]) = Len(medialist[i].fragments)
         /\ \A j \in 1..Len(fbm[i]) : fbm[i][j] = A(i, j - 1) /\ A(i, 0) <= fbm[i][j]
  BY <1>0, <1>1 DEF MeasuredRight, After
<1>17. Measured' = k
  BY <1>0, <1>1 DEF Measured
<1>18. MeasuredRight' =
         (/\ header_size' = IF Measured' = 0 THEN first ELSE B(Measured', Len(fbm'[Measured']))
          /\ \A i \in 1..Measured' :
               /\ fdm[i] = IF i = 1 THEN first ELSE B(i - 1, Len(fbm'[i - 1]))
               /\ first <= fdm[i]
               /\ Len(fbm'[i]) <= Len(medialist[i].fragments)
               /\ i < Measured' => Len(fbm'[i]) = Len(medialist[i].fragments)
               /\ \A j \in 1..Len(fbm'[i]) : fbm'[i][j] = B(i, j - 1) /\ B(i, 0) <= fbm'[i][j])
  BY <1>1 DEF MeasuredRight, After, Last
<1> HIDE DEF fdm, fbm, A, B, first
<1>19. ASSUME NEW i \in 1..k
       PROVE  /\ fdm[i] = IF i = 1 THEN first ELSE B(i - 1, Len(fbm'[i - 1]))
              /\ first <= fdm[i]
              /\ Len(fbm'[i]) <= Len(medialist[i].fragments)
              /\ i < k => Len(fbm'[i]) = Len(medialist[i].fragments)
              /\ \A j \in 1..Len(fbm'[i]) : fbm'[i][j] = B(i, j - 1) /\ B(i, 0) <= fbm'[i][j]
  <2>1. /\ fdm[i] = IF i = 1 THEN first ELSE A(i - 1, Len(fbm[i - 1]))
        /\ first <= fdm[i] /\ Len(fbm[i]) <= Len(medialist[i].fragments)
        /\ i < k => Len(fbm[i]) = Len(medialist[i].fragments)
    BY <1>16
  <2>2. \A j \in 1..Len(fbm[i]) : fbm[i][j] = A(i, j - 1) /\ A(i, 0) <= fbm[i][j]
    BY <1>16
  <2>3. fdm[i] = IF i = 1 THEN first ELSE B(i - 1, Len(fbm'[i - 1]))
    <3>1. i # 1 => i - 1 \in 1..k /\ i - 1 # k
      BY <1>3
    <3>2. i # 1 => B(i - 1, Len(fbm'[i - 1])) = A(i - 1, Len(fbm[i - 1]))
      BY <1>8, <1>12, <3>1
    <3> QED BY <2>1, <3>2
  <2>4. CASE i # k
    <3>1. fbm'[i] = fbm[i] /\ \A j : B(i, j) = A(i, j)
      BY <1>8, <1>12, <2>4
    <3> QED BY <2>1, <2>2, <2>3, <3>1
  <2>5. CASE i = k
    <3>1. Len(fbm'[i]) <= Len(medialist[i].fragments) /\ ~(i < k)
      BY <1>3, <1>6, <1>9, <2>5
    <3>2. ASSUME NEW j \in 1..Len(fbm'[i])
          PROVE  fbm'[i][j] = B(i, j - 1) /\ B(i, 0) <= fbm'[i][j]
      <4>1. j \in 1..(l + 1) /\ j - 1 \in 0..l /\ 0 \in 0..l /\ l \in 0..l
        BY <1>5, <1>9, <2>5, <3>2
      <4>2. B(k, j - 1) = A(k, j - 1) /\ B(k, 0) = A(k, 0)
        BY <1>13, <4>1
      <4>3. CASE j \in 1..l
        BY <1>4, <1>9, <2>2, <2>5, <4>2, <4>3
      <4>4. CASE j = l + 1
        <5>1. j - 1 = l
          BY <1>5, <4>4
        <5>2. fbm'[k][j] = A(k, l) /\ A(k, 0) <= A(k, l)
          BY <1>5, <1>9, <1>15, <4>1, <4>4
        <5> QED BY <2>5, <4>2, <5>1, <5>2
      <4> QED BY <1>5, <4>1, <4>3, <4>4
    <3> QED BY <2>1, <2>3, <3>1, <3>2
  <2> QED BY <2>4, <2>5
<1>20. k # 0 /\ header_size' = B(k, Len(fbm'[k]))
  BY <1>1, <1>3, <1>4, <1>9, <1>14 DEF fbm
<1>21. MeasuredRight'
  BY <1>17, <1>18, <1>19, <1>20
<1> QED
  BY <1>2, <1>11, <1>21 DEF IInv

(* The first pass ends when everything is measured. *)
LEMMA StartWritingHolds ==
  ASSUME IInv, StartWriting
  PROVE  IInv'
<1>1. /\ TypeOK /\ MeasuredRight /\ Placed
      /\ pc = "measure" /\ pc' = "header" /\ LastIsMeasured /\ Measured = Len(medialist)
      /\ UNCHANGED <<medialist, pass1, pass2>>
  BY DEF IInv, StartWriting
<1>2. Placed' /\ Contents'
  BY <1>1, Unwritten DEF pass2
<1>3. TypeOK'
  BY <1>1 DEF TypeOK, pass1, pass2, Measured
<1>4. Len(medialist) \in Nat \ {0}
  BY <1>1, SourcesSized DEF TypeOK
<1>5. ASSUME NEW i \in 1..Measured
      PROVE  Len(fragments_by_media[i]) = Len(medialist[i].fragments)
  <2>1. i < Measured => Len(fragments_by_media[i]) = Len(medialist[i].fragments)
    BY <1>1 DEF MeasuredRight
  <2>2. Len(fragments_by_media[Measured]) = Len(medialist[Measured].fragments)
    BY <1>1, <1>4 DEF LastIsMeasured, Last
  <2>3. i < Measured \/ i = Measured
    BY <1>1, <1>4
  <2> QED BY <2>1, <2>2, <2>3
<1>6. MeasuredRight'
  <2>1. UNCHANGED <<medialist, header_size, fragmentdir_map, fragments_by_media>>
    BY <1>1 DEF pass1
  <2> QED BY <1>1, <1>5, <2>1 DEF MeasuredRight, Measured, Last, After
<1> QED
  BY <1>2, <1>3, <1>6 DEF IInv
-----------------------------------------------------------------------------
(* The second pass.  It leaves what the first one computed alone. *)
LEMMA SecondPass ==
  ASSUME IInv, pc # "measure"
  PROVE  /\ Measured = Len(medialist) /\ Len(medialist) \in Nat \ {0}
         /\ fragmentdir_map[1] = DirectoryCell(Len(medialist) + 1)
         /\ header_size = After(Len(medialist), Len(medialist[Len(medialist)].fragments))
         /\ \A i \in 1..Len(medialist) :
              /\ Sized(medialist[i]) /\ fragmentdir_map[i] \in Nat
              /\ Len(medialist[i].fragments) \in Nat
              /\ DirectoryCell(Len(medialist) + 1) <= fragmentdir_map[i]
              /\ i # 1 => fragmentdir_map[i] = After(i - 1, Len(medialist[i - 1].fragments))
              /\ After(i, 0) = fragmentdir_map[i] + MeasuredHead(medialist[i])
              /\ \A j \in 1..Len(medialist[i].fragments) :
                   /\ fragments_by_media[i][j] \in Nat
                   /\ fragments_by_media[i][j] = After(i, j - 1)
                   /\ After(i, 0) <= fragments_by_media[i][j]
                   /\ After(i, j) = fragments_by_media[i][j]
                                      + MeasuredFragment(medialist[i].fragments[j])
<1>1. /\ TypeOK /\ MeasuredRight /\ Measured = Len(medialist) /\ Len(medialist) \in Nat \ {0}
      /\ \A i \in 1..Len(medialist) : Len(fragments_by_media[i]) = Len(medialist[i].fragments)
  <2>1. TypeOK /\ MeasuredRight
    BY DEF IInv
  <2> QED BY <2>1, SourcesSized DEF MeasuredRight, TypeOK
<1>2. header_size = After(Len(medialist), Len(medialist[Len(medialist)].fragments))
  <2>1. header_size = After(Measured, Len(Last)) /\ Measured \in 1..Len(medialist)
    BY <1>1 DEF MeasuredRight
  <2>2. Len(Last) = Len(medialist[Measured].fragments)
    BY <1>1, <2>1 DEF Last
  <2> QED BY <1>1, <2>1, <2>2
<1>3. ASSUME NEW i \in 1..Len(medialist)
      PROVE  fragmentdir_map[i] = IF i = 1 THEN DirectoryCell(Len(medialist) + 1)
                                  ELSE After(i - 1, Len(medialist[i - 1].fragments))
  <2>1. fragmentdir_map[i] = IF i = 1 THEN DirectoryCell(Len(medialist) + 1)
                             ELSE After(i - 1, Len(fragments_by_media[i - 1]))
    BY <1>1 DEF MeasuredRight
  <2>2. i # 1 => i - 1 \in 1..Len(medialist)
    BY <1>1
  <2> QED BY <1>1, <2>1, <2>2
<1>4. ASSUME NEW i \in 1..Len(medialist)
      PROVE  /\ Sized(medialist[i]) /\ fragmentdir_map[i] \in Nat
             /\ Len(medialist[i].fragments) \in Nat
             /\ DirectoryCell(Len(medialist) + 1) <= fragmentdir_map[i]
             /\ After(i, 0) = fragmentdir_map[i] + MeasuredHead(medialist[i])
  <2>1. Sized(medialist[i]) /\ Len(medialist[i].fragments) \in Nat
    BY <1>1, SourcesSized DEF TypeOK
  <2>2. fragmentdir_map[i] \in Nat
    BY <1>1, Positions
  <2>3. DirectoryCell(Len(medialist) + 1) <= fragmentdir_map[i]
    BY <1>1 DEF MeasuredRight
  <2> QED BY <2>1, <2>2, <2>3 DEF After, EndOf
<1>5. ASSUME NEW i \in 1..Len(medialist), NEW j \in 1..Len(medialist[i].fragments)
      PROVE  /\ fragments_by_media[i][j] \in Nat
             /\ fragments_by_media[i][j] = After(i, j - 1)
             /\ After(i, 0) <= fragments_by_media[i][j]
             /\ After(i, j) = fragments_by_media[i][j]
                                + MeasuredFragment(medialist[i].fragments[j])
  <2>1. j \in 1..Len(fragments_by_media[i]) /\ fragments_by_media[i] \in Seq(Nat)
    BY <1>1, Positions
  <2>2. fragments_by_media[i][j] = After(i, j - 1) /\ After(i, 0) <= fragments_by_media[i][j]
    BY <1>1, <2>1 DEF MeasuredRight
  <2>3. j # 0
    BY <1>4
  <2> QED BY <2>1, <2>2, <2>3 DEF After, EndOf
<1>6. 1 \in 1..Len(medialist)
  BY <1>1
<1> QED
  BY <1>1, <1>2, <1>3, <1>4, <1>5, <1>6

LEMMA SecondPassKeeps ==
  ASSUME IInv, pc # "measure", pc' \in {"media", "fragments", "done"},
         UNCHANGED <<medialist, pass1>>, Tiles(cells', 0, size'),
         n' \in Nat \ {0}, m' \in Nat \ {0}
  PROVE  TypeOK' /\ MeasuredRight'
<1>1. UNCHANGED <<medialist, header_size, fragmentdir_map, fragments_by_media>>
  BY DEF pass1
<1>2. TypeOK'
  <2>1. DOMAIN cells' \subseteq Nat /\ size' \in Nat
    BY DEF Tiles
  <2> QED BY <1>1, <2>1 DEF IInv, TypeOK, Measured
<1>3. MeasuredRight'
  <2>1. pc' # "measure"
    OBVIOUS
  <2> QED BY <1>1, <2>1 DEF IInv, MeasuredRight, Measured, Last, After
<1> QED
  BY <1>2, <1>3

(* What was written is still there. *)
LEMMA ContentsKept ==
  ASSUME IInv, pc # "measure", Keeps(cells, size, cells', size')
  PROVE  /\ Writing => HasHeader(cells', size', Len(medialist), fragmentdir_map)
         /\ \A i \in 1..Len(medialist) : HeadWritten(i) =>
              HasHead(cells', size', fragmentdir_map[i], medialist[i], fragments_by_media[i])
         /\ \A i \in 1..Len(medialist) : \A j \in 1..Len(medialist[i].fragments) :
              FragmentWritten(i, j) =>
                DescribesFragment(cells', size', fragments_by_media[i][j], medialist[i],
                                  medialist[i].fragments[j])
<1>1. Contents
  BY DEF IInv
<1>2. Writing => HasHeader(cells', size', Len(medialist), fragmentdir_map)
  BY <1>1, KeepsHeader DEF Contents
<1>3. ASSUME NEW i \in 1..Len(medialist), HeadWritten(i)
      PROVE  HasHead(cells', size', fragmentdir_map[i], medialist[i], fragments_by_media[i])
  <2>1. HasHead(cells, size, fragmentdir_map[i], medialist[i], fragments_by_media[i])
    BY <1>1, <1>3 DEF Contents
  <2>2. fragmentdir_map[i] \in Nat /\ Sized(medialist[i])
    BY SecondPass
  <2> QED BY <2>1, <2>2, KeepsHead
<1>4. ASSUME NEW i \in 1..Len(medialist), NEW j \in 1..Len(medialist[i].fragments),
             FragmentWritten(i, j)
      PROVE  DescribesFragment(cells', size', fragments_by_media[i][j], medialist[i],
                               medialist[i].fragments[j])
  <2>1. DescribesFragment(cells, size, fragments_by_media[i][j], medialist[i],
                          medialist[i].fragments[j])
    BY <1>1, <1>4 DEF Contents
  <2> QED BY <2>1, KeepsFragment
<1> QED
  BY <1>2, <1>3, <1>4

(* What is left to show of the contents after a step. *)
LEMMA ContentsAfter ==
  ASSUME IInv, pc # "measure", Keeps(cells, size, cells', size'),
         UNCHANGED <<medialist, pass1>>,
         Writing' /\ ~Writing => HasHeader(cells', size', Len(medialist), fragmentdir_map),
         \A i \in 1..Len(medialist) : HeadWritten(i)' /\ ~HeadWritten(i) =>
           HasHead(cells', size', fragmentdir_map[i], medialist[i], fragments_by_media[i]),
         \A i \in 1..Len(medialist) : \A j \in 1..Len(medialist[i].fragments) :
           FragmentWritten(i, j)' /\ ~FragmentWritten(i, j) =>
             DescribesFragment(cells', size', fragments_by_media[i][j], medialist[i],
                               medialist[i].fragments[j])
  PROVE  Contents'
<1>1. UNCHANGED <<medialist, header_size, fragmentdir_map, fragments_by_media>>
  BY DEF pass1
<1>2. Contents' =
        (/\ Writing' => HasHeader(cells', size', Len(medialist), fragmentdir_map)
         /\ \A i \in 1..Len(medialist) : HeadWritten(i)' =>
              HasHead(cells', size', fragmentdir_map[i], medialist[i], fragments_by_media[i])
         /\ \A i \in 1..Len(medialist) : \A j \in 1..Len(medialist[i].fragments) :
              FragmentWritten(i, j)' =>
                DescribesFragment(cells', size', fragments_by_media[i][j], medialist[i],
                                  medialist[i].fragments[j]))
  BY <1>1 DEF Contents
<1>3. Writing' => HasHeader(cells', size', Len(medialist), fragmentdir_map)
  BY ContentsKept
<1>4. \A i \in 1..Len(medialist) : HeadWritten(i)' =>
        HasHead(cells', size', fragmentdir_map[i], medialist[i], fragments_by_media[i])
  BY ContentsKept
<1>5. \A i \in 1..Len(medialist) : \A j \in 1..Len(medialist[i].fragments) :
        FragmentWritten(i, j)' =>
          DescribesFragment(cells', size', fragments_by_media[i][j], medialist[i],
                            medialist[i].fragments[j])
  BY ContentsKept
<1> QED
  BY <1>2, <1>3, <1>4, <1>5

LEMMA WriteHeaderHolds ==
  ASSUME IInv, WriteHeader
  PROVE  IInv'
<1> DEFINE first == DirectoryCell(Len(medialist) + 1)
<1>1. /\ pc = "header" /\ pc' = "media" /\ Write(HeaderBlock)
      /\ n' = 1 /\ m' = m /\ m \in Nat \ {0} /\ UNCHANGED <<medialist, pass1>>
      /\ cells = <<>> /\ size = 0 /\ Tiles(cells, 0, size)
  BY DEF WriteHeader, IInv, Placed, TypeOK
<1>2. /\ Measured = Len(medialist) /\ Len(medialist) \in Nat \ {0}
      /\ fragmentdir_map[1] = first
  BY <1>1, SecondPass
<1>3. /\ first \in Nat \ {0} /\ Tiles(HeaderBlock, size, first)
      /\ HasHeader(HeaderBlock, first, Len(medialist), fragmentdir_map)
  BY <1>1, <1>2, HeaderHolds
<1> HIDE DEF first
<1>4. size < first
  BY <1>1, <1>3
<1>5. /\ Tiles(cells', 0, size') /\ size' = first
      /\ Keeps(cells, size, cells', size') /\ Keeps(HeaderBlock, first, cells', size')
  BY <1>1, <1>3, <1>4, WriteHolds
<1>6. TypeOK' /\ MeasuredRight'
  BY <1>1, <1>5, SecondPassKeeps
<1>7. Placed'
  <2>1. UNCHANGED <<medialist, fragmentdir_map>>
    BY <1>1 DEF pass1
  <2>2. 1 \in 1..(Len(medialist) + 1) /\ 1 <= Len(medialist)
    BY <1>2
  <2> QED BY <1>1, <1>2, <1>5, <2>1, <2>2 DEF Placed
<1>8. Contents'
  <2>1. HasHeader(cells', size', Len(medialist), fragmentdir_map)
    BY <1>3, <1>5, KeepsHeader
  <2>2. \A i \in 1..Len(medialist) : ~HeadWritten(i)'
    BY <1>1, <1>2 DEF HeadWritten
  <2>3. \A i \in 1..Len(medialist) : \A j : ~FragmentWritten(i, j)'
    BY <1>1, <1>2 DEF FragmentWritten
  <2> QED BY <1>1, <1>5, <2>1, <2>2, <2>3, ContentsAfter
<1> QED
  BY <1>6, <1>7, <1>8 DEF IInv

LEMMA WriteMediaHolds ==
  ASSUME IInv, WriteMedia
  PROVE  IInv'
<1> DEFINE block == MediaBlock(size, medialist[n], fragments_by_media[n])
           end == size + MeasuredHead(medialist[n])
<1>1. /\ pc = "media" /\ pc' = "fragments" /\ n \in 1..(Len(medialist) + 1)
      /\ n <= Len(medialist) /\ Write(block)
      /\ n' = n /\ m' = 1 /\ UNCHANGED <<medialist, pass1>>
      /\ Tiles(cells, 0, size) /\ size = fragmentdir_map[n]
  BY DEF WriteMedia, IInv, Placed
<1>2. n \in 1..Len(medialist) /\ n \in Nat \ {0}
  <2>1. Len(medialist) \in Nat
    BY <1>1, SecondPass
  <2> QED BY <1>1, <2>1
<1>3. /\ Sized(medialist[n]) /\ size \in Nat /\ end = After(n, 0)
      /\ Len(medialist[n].fragments) \in Nat
  BY <1>1, <1>2, SecondPass
<1>4. /\ Tiles(block, size, end) /\ MeasuredHead(medialist[n]) \in Nat \ {0}
      /\ HasHead(block, end, size, medialist[n], fragments_by_media[n])
  BY <1>3, MediaHolds, HeadPositions
<1>5. size < end
  BY <1>3, <1>4
<1> HIDE DEF block, end
<1>6. /\ Tiles(cells', 0, size') /\ size' = end
      /\ Keeps(cells, size, cells', size') /\ Keeps(block, end, cells', size')
  BY <1>1, <1>4, <1>5, WriteHolds
<1>7. TypeOK' /\ MeasuredRight'
  <2>1. 1 \in Nat \ {0} /\ pc' \in {"media", "fragments", "done"} /\ pc # "measure"
    BY <1>1
  <2> QED BY <1>1, <1>2, <1>6, <2>1, SecondPassKeeps
<1>8. Placed'
  <2>1. UNCHANGED <<medialist, fragmentdir_map, fragments_by_media>>
    BY <1>1 DEF pass1
  <2>2. 1 \in 1..(Len(medialist[n].fragments) + 1) /\ m' - 1 = 0
    BY <1>1, <1>3
  <2>3. size' = EndOf(medialist, fragmentdir_map, fragments_by_media, n', m' - 1)
    BY <1>1, <1>3, <1>6, <2>1, <2>2 DEF After
  <2>4. After(n, m - 1)' = EndOf(medialist, fragmentdir_map, fragments_by_media, n', m' - 1)
    BY <2>1 DEF After
  <2> QED BY <1>1, <1>2, <1>6, <2>1, <2>2, <2>3, <2>4 DEF Placed
<1>9. Contents'
  <2>1. HasHead(cells', size', fragmentdir_map[n], medialist[n], fragments_by_media[n])
    BY <1>1, <1>3, <1>4, <1>6, KeepsHead
  <2>2. ASSUME NEW i \in 1..Len(medialist), HeadWritten(i)', ~HeadWritten(i)
        PROVE  HasHead(cells', size', fragmentdir_map[i], medialist[i], fragments_by_media[i])
    <3>1. i = n
      BY <1>1, <2>2 DEF HeadWritten, Writing
    <3> QED BY <2>1, <3>1
  <2>3. \A i \in 1..Len(medialist) : \A j \in 1..Len(medialist[i].fragments) :
          FragmentWritten(i, j)' => FragmentWritten(i, j)
    BY <1>1, <1>2 DEF FragmentWritten, Writing
  <2>4. Writing /\ pc # "measure"
    BY <1>1 DEF Writing
  <2> QED BY <1>1, <1>6, <2>2, <2>3, <2>4, ContentsAfter
<1> QED
  BY <1>7, <1>8, <1>9 DEF IInv

LEMMA WriteFragmentHolds ==
  ASSUME IInv, WriteFragment
  PROVE  IInv'
<1> DEFINE fragment == medialist[n].fragments[m]
           block == FragmentBlock(size, medialist[n], fragment)
           end == size + MeasuredFragment(fragment)
<1>1. /\ pc = "fragments" /\ pc' = "fragments" /\ n \in 1..Len(medialist)
      /\ m \in 1..(Len(medialist[n].fragments) + 1)
      /\ m <= Len(medialist[n].fragments) /\ Write(block)
      /\ n' = n /\ m' = m + 1 /\ UNCHANGED <<medialist, pass1>>
      /\ Tiles(cells, 0, size) /\ size = After(n, m - 1)
  BY DEF WriteFragment, IInv, Placed
<1>2. Len(medialist) \in Nat \ {0} /\ Len(medialist[n].fragments) \in Nat
  BY <1>1, SecondPass
<1>3. m \in 1..Len(medialist[n].fragments) /\ n \in Nat \ {0} /\ m + 1 \in Nat \ {0}
  BY <1>1, <1>2
<1>4. size = fragments_by_media[n][m] /\ size \in Nat /\ end = After(n, m)
  BY <1>1, <1>3, SecondPass
<1>5. Len(fragment) \in Nat
  <2>1. Sized(medialist[n])
    BY <1>1, SecondPass
  <2>2. fragment \in Seq(SampleEntry)
    BY <1>3, <2>1 DEF Sized
  <2> HIDE DEF fragment
  <2> QED BY <2>2
<1>6. /\ Tiles(block, size, end) /\ MeasuredFragment(fragment) \in Nat \ {0}
      /\ DescribesFragment(block, end, size, medialist[n], fragment)
  BY <1>4, <1>5, FragmentHolds
<1>7. size < end
  BY <1>4, <1>6
<1> HIDE DEF block, end
<1>8. /\ Tiles(cells', 0, size') /\ size' = end
      /\ Keeps(cells, size, cells', size') /\ Keeps(block, end, cells', size')
  BY <1>1, <1>6, <1>7, WriteHolds
<1>9. TypeOK' /\ MeasuredRight'
  <2>1. pc' \in {"media", "fragments", "done"} /\ pc # "measure"
    BY <1>1
  <2> QED BY <1>1, <1>3, <1>8, <2>1, SecondPassKeeps
<1>10. Placed'
  <2>1. UNCHANGED <<medialist, fragmentdir_map, fragments_by_media>>
    BY <1>1 DEF pass1
  <2>2. m + 1 \in 1..(Len(medialist[n].fragments) + 1) /\ m' - 1 = m
    BY <1>1, <1>2, <1>3
  <2>3. size' = EndOf(medialist, fragmentdir_map, fragments_by_media, n', m' - 1)
    BY <1>1, <1>4, <1>8, <2>1, <2>2 DEF After
  <2>4. After(n, m - 1)' = EndOf(medialist, fragmentdir_map, fragments_by_media, n', m' - 1)
    BY <2>1 DEF After
  <2> QED BY <1>1, <1>8, <2>1, <2>2, <2>3, <2>4 DEF Placed
<1>11. Contents'
  <2>1. DescribesFragment(cells', size', fragments_by_media[n][m], medialist[n], fragment)
    BY <1>4, <1>6, <1>8, KeepsFragment
  <2>2. \A i \in 1..Len(medialist) : HeadWritten(i)' => HeadWritten(i)
    BY <1>1 DEF HeadWritten, Writing
  <2>3. ASSUME NEW i \in 1..Len(medialist), NEW j \in 1..Len(medialist[i].fragments),
               FragmentWritten(i, j)', ~FragmentWritten(i, j)
        PROVE  DescribesFragment(cells', size', fragments_by_media[i][j], medialist[i],
                                 medialist[i].fragments[j])
    <3>1. i = n
      BY <1>1, <2>3 DEF FragmentWritten, Writing
    <3>2. j = m
      <4>1. j < m + 1 /\ ~(j < m)
        BY <1>1, <2>3, <3>1 DEF FragmentWritten, Writing
      <4>2. j \in Nat /\ m \in Nat
        BY <1>2, <1>3, <3>1
      <4> QED BY <4>1, <4>2
    <3> QED BY <2>1, <3>1, <3>2
  <2>4. Writing /\ pc # "measure"
    BY <1>1 DEF Writing
  <2> QED BY <1>1, <1>8, <2>2, <2>3, <2>4, ContentsAfter
<1> QED
  BY <1>9, <1>10, <1>11 DEF IInv

LEMMA NextMediaHolds ==
  ASSUME IInv, NextMedia
  PROVE  IInv'
<1>1. /\ pc = "fragments" /\ pc' = "media" /\ n \in 1..Len(medialist)
      /\ m \in 1..(Len(medialist[n].fragments) + 1) /\ m > Len(medialist[n].fragments)
      /\ n' = n + 1 /\ UNCHANGED <<medialist, pass1, cells, size, m>>
      /\ Tiles(cells, 0, size) /\ size = After(n, m - 1) /\ m \in Nat \ {0}
  BY DEF NextMedia, IInv, Placed, TypeOK
<1>2. Len(medialist) \in Nat \ {0} /\ Len(medialist[n].fragments) \in Nat
  BY <1>1, SecondPass
<1>3. n + 1 \in 1..(Len(medialist) + 1) /\ n + 1 \in Nat \ {0}
      /\ m = Len(medialist[n].fragments) + 1
  BY <1>1, <1>2
<1>4. size = IF n + 1 <= Len(medialist) THEN fragmentdir_map[n + 1] ELSE header_size
  <2>1. m - 1 = Len(medialist[n].fragments)
    BY <1>2, <1>3
  <2>2. size = After(n, Len(medialist[n].fragments))
    BY <1>1, <2>1
  <2>3. CASE n + 1 <= Len(medialist)
    <3>1. n + 1 \in 1..Len(medialist) /\ n + 1 # 1 /\ (n + 1) - 1 = n
      BY <1>1, <1>2, <2>3
    <3>2. fragmentdir_map[n + 1]
            = After((n + 1) - 1, Len(medialist[(n + 1) - 1].fragments))
      BY <1>1, <3>1, SecondPass
    <3> QED BY <2>2, <2>3, <3>1, <3>2
  <2>4. CASE ~(n + 1 <= Len(medialist))
    <3>1. n = Len(medialist)
      BY <1>1, <1>2, <2>4
    <3>2. header_size = After(n, Len(medialist[n].fragments))
      BY <1>1, <3>1, SecondPass
    <3> QED BY <2>2, <2>4, <3>2
  <2> QED BY <2>3, <2>4
<1>5. TypeOK' /\ MeasuredRight'
  <2>1. pc' \in {"media", "fragments", "done"} /\ pc # "measure"
    BY <1>1
  <2> QED BY <1>1, <1>3, <2>1, SecondPassKeeps
<1>6. Placed'
  <2>1. UNCHANGED <<medialist, header_size, fragmentdir_map, fragments_by_media>>
    BY <1>1 DEF pass1
  <2> QED BY <1>1, <1>3, <1>4, <2>1 DEF Placed
<1>7. Contents'
  <2>1. Keeps(cells, size, cells', size')
    BY <1>1 DEF Keeps
  <2>2. ASSUME NEW i \in 1..Len(medialist)
        PROVE  /\ HeadWritten(i)' => HeadWritten(i)
               /\ \A j \in 1..Len(medialist[i].fragments) :
                    FragmentWritten(i, j)' => FragmentWritten(i, j)
    <3>1. i < n + 1 => i < n \/ i = n
      BY <1>1, <1>2
    <3>2. i = n => \A j \in 1..Len(medialist[i].fragments) : j < m
      BY <1>2, <1>3
    <3> QED BY <1>1, <3>1, <3>2 DEF HeadWritten, FragmentWritten, Writing
  <2>3. Writing /\ pc # "measure"
    BY <1>1 DEF Writing
  <2> QED BY <1>1, <2>1, <2>2, <2>3, ContentsAfter
<1> QED
  BY <1>5, <1>6, <1>7 DEF IInv

LEMMA FinishHolds ==
  ASSUME IInv, Finish
  PROVE  IInv'
<1>1. /\ pc = "media" /\ pc' = "done" /\ n \in 1..(Len(medialist) + 1) /\ n > Len(medialist)
      /\ UNCHANGED <<medialist, pass1, cells, size, n, m>> /\ Tiles(cells, 0, size)
      /\ size = IF n <= Len(medialist) THEN fragmentdir_map[n] ELSE header_size
      /\ m \in Nat \ {0} /\ n \in Nat \ {0}
  BY DEF Finish, IInv, Placed, TypeOK, pass2
<1>2. Len(medialist) \in Nat \ {0}
  BY <1>1, SecondPass
<1>3. n = Len(medialist) + 1 /\ size = header_size
  BY <1>1, <1>2
<1>4. TypeOK' /\ MeasuredRight'
  <2>1. pc' \in {"media", "fragments", "done"} /\ pc # "measure"
    BY <1>1
  <2> QED BY <1>1, <2>1, SecondPassKeeps
<1>5. Placed'
  <2>1. UNCHANGED header_size
    BY <1>1 DEF pass1
  <2> QED BY <1>1, <1>3, <2>1 DEF Placed
<1>6. Contents'
  <2>1. Keeps(cells, size, cells', size')
    BY <1>1 DEF Keeps
  <2>2. \A i : /\ HeadWritten(i)' => HeadWritten(i)
               /\ \A j : FragmentWritten(i, j)' => FragmentWritten(i, j)
    BY <1>1 DEF HeadWritten, FragmentWritten, Writing
  <2>3. Writing /\ pc # "measure"
    BY <1>1 DEF Writing
  <2> QED BY <1>1, <2>1, <2>2, <2>3, ContentsAfter
<1> QED
  BY <1>4, <1>5, <1>6 DEF IInv
-----------------------------------------------------------------------------
(* The invariant holds in every state: the measured positions continue one  *)
(* another, the file ends where they say, and what they point at is there.  *)
THEOREM Invariance == Spec => []IInv
<1>1. Init => IInv
  BY InitHolds
<1>2. ASSUME IInv, [Next]_vars PROVE IInv'
  <2>1. CASE MeasureMedia
    BY <1>2, <2>1, MeasureMediaHolds
  <2>2. CASE MeasureFragment
    BY <1>2, <2>2, MeasureFragmentHolds
  <2>3. CASE StartWriting
    BY <1>2, <2>3, StartWritingHolds
  <2>4. CASE WriteHeader
    BY <1>2, <2>4, WriteHeaderHolds
  <2>5. CASE WriteMedia
    BY <1>2, <2>5, WriteMediaHolds
  <2>6. CASE WriteFragment
    BY <1>2, <2>6, WriteFragmentHolds
  <2>7. CASE NextMedia
    BY <1>2, <2>7, NextMediaHolds
  <2>8. CASE Finish
    BY <1>2, <2>8, FinishHolds
  <2>9. CASE UNCHANGED vars
    <3>1. UNCHANGED <<medialist, header_size, fragmentdir_map, fragments_by_media,
                      cells, size, n, m, pc>>
      BY <2>9 DEF vars, pass1, pass2
    <3>2. TypeOK' /\ Placed'
      BY <1>2, <3>1 DEF IInv, TypeOK, Placed, Measured, After
    <3>3. MeasuredRight'
      BY <1>2, <3>1 DEF IInv, MeasuredRight, Measured, Last, After
    <3>4. Contents'
      BY <1>2, <3>1 DEF IInv, Contents, Writing, HeadWritten, FragmentWritten
    <3> QED BY <3>2, <3>3, <3>4 DEF IInv
  <2> QED BY <1>2, <2>1, <2>2, <2>3, <2>4, <2>5, <2>6, <2>7, <2>8, <2>9 DEF Next
<1> QED
  BY <1>1, <1>2, PTL DEF Spec

(* Positions are numbers of bytes, and there is one list of fragment        *)
(* positions for each source measured.                                      *)
THEOREM TypesHold == Spec => []TypeOK
<1>1. IInv => TypeOK
  BY DEF IInv
<1> QED
  BY <1>1, Invariance, PTL

(* The second pass of serialize writes every block where the first one said *)
(* it would be, and leaves neither an overlap nor a hole.                   *)
THEOREM PassesAgreeHolds == Spec => []PassesAgree
<1>1. ASSUME IInv PROVE PassesAgree
  <2>1. pc = "media" /\ n <= Len(medialist) => size = fragmentdir_map[n]
    BY <1>1 DEF IInv, Placed
  <2>2. ASSUME pc = "fragments", m <= Len(medialist[n].fragments)
        PROVE  size = fragments_by_media[n][m]
    <3>1. n \in 1..Len(medialist) /\ m \in 1..(Len(medialist[n].fragments) + 1)
          /\ size = After(n, m - 1)
      BY <1>1, <2>2 DEF IInv, Placed
    <3>2. m \in 1..Len(medialist[n].fragments)
      <4>1. Len(medialist[n].fragments) \in Nat
        BY <1>1, <2>2, <3>1, SecondPass
      <4> QED BY <2>2, <3>1, <4>1
    <3> QED BY <1>1, <2>2, <3>1, <3>2, SecondPass
  <2>3. pc = "done" => size = header_size
    BY <1>1 DEF IInv, Placed
  <2>4. Tiles(cells, 0, size)
    BY <1>1 DEF IInv, Placed
  <2> QED BY <2>1, <2>2, <2>3, <2>4 DEF PassesAgree, Tiles
<1> QED
  BY <1>1, Invariance, PTL

(* The index serialize leaves describes the media list: a reader that       *)
(* follows the positions from the header finds every source, and every      *)
(* fragment of every source, with its samples.                              *)
THEOREM IndexDescribesHolds == Spec => []IndexDescribes
<1>1. ASSUME IInv, pc = "done" PROVE Describes(cells, size, medialist)
  <2>1. /\ Contents /\ Writing /\ n = Len(medialist) + 1
        /\ HasHeader(cells, size, Len(medialist), fragmentdir_map)
    BY <1>1 DEF IInv, Contents, Placed, Writing
  <2>2. Len(medialist) \in Nat \ {0}
    BY <1>1, SecondPass
  <2>3. ASSUME NEW i \in 1..Len(medialist)
        PROVE  \E p \in DOMAIN cells :
                 /\ DirectoryCell(Len(medialist) + 1) <= p
                 /\ HasCell(cells, size, DirectoryCell(i), Cell(4, p))
                 /\ DescribesMedia(cells, size, p, medialist[i])
    <3> DEFINE p == fragmentdir_map[i]
               media == medialist[i]
               places == fragments_by_media[i]
    <3>1. i < n
      BY <2>1, <2>2
    <3>2. HasHead(cells, size, p, media, places)
      BY <2>1, <3>1 DEF Contents, HeadWritten
    <3>3. /\ Sized(media) /\ p \in Nat /\ Len(media.fragments) \in Nat
          /\ DirectoryCell(Len(medialist) + 1) <= p
          /\ After(i, 0) = p + MeasuredHead(media)
      BY <1>1, SecondPass
    <3>4. EntryCell(p, media, Len(media.fragments) + 1) = After(i, 0)
      BY <3>3, HeadPositions
    <3>5. HasCell(cells, size, DirectoryCell(i), Cell(4, p)) /\ p \in DOMAIN cells
      BY <2>1, <3>2 DEF HasHeader, HasHead, HasCell
    <3>6. ASSUME NEW j \in 1..Len(media.fragments)
          PROVE  \E q \in DOMAIN cells :
                   /\ EntryCell(p, media, Len(media.fragments) + 1) <= q
                   /\ HasCell(cells, size, EntryCell(p, media, j), Cell(4, q))
                   /\ DescribesFragment(cells, size, q, media, media.fragments[j])
      <4> DEFINE q == places[j]
      <4>1. After(i, 0) <= q
        BY <1>1, SecondPass
      <4>2. DescribesFragment(cells, size, q, media, media.fragments[j])
        BY <2>1, <3>1 DEF Contents, FragmentWritten
      <4>3. HasCell(cells, size, EntryCell(p, media, j), Cell(4, q))
        BY <3>2 DEF HasHead
      <4>4. q \in DOMAIN cells
        BY <4>2 DEF DescribesFragment, HasCell
      <4> QED BY <3>4, <4>1, <4>2, <4>3, <4>4
    <3>7. DescribesMedia(cells, size, p, media)
      BY <3>2, <3>6 DEF HasHead, DescribesMedia
    <3> QED BY <3>3, <3>5, <3>7
  <2> QED BY <2>1, <2>3 DEF Describes, DescribesSources, HasHeader
<1>2. IInv => IndexDescribes
  BY <1>1 DEF IndexDescribes
<1> QED
  BY <1>2, Invariance, PTL
=============================================================================
