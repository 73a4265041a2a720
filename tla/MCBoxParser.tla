---------------------------- MODULE MCBoxParser ----------------------------
(* Files for BoxParser, laid out from trees of boxes.  A tree is a box with *)
(* its children, or with a number of bytes of content and what is in them.  *)
EXTENDS BoxParser, SequencesExt

CONSTANTS MaxTables

Plain == [version |-> 0, flags |-> 0, count |-> 0, uniform |-> FALSE, entries |-> <<>>]

Box(type, says, bytes, content, kids) ==
  [type |-> type, says |-> says, bytes |-> bytes, content |-> content, kids |-> kids]

(* A box with what its type has in it, or with something else. *)
LeafOf(type, bytes, content) == Box(type, "other", bytes, content, <<>>)
Counting(n) == [Plain EXCEPT !.count = n]

Leaf(type, bytes) ==
  LeafOf(type, bytes, Counting(IF bytes < 12 THEN 0
                               ELSE IF type \in DOMAIN RecordSize THEN (bytes - 8) \div RecordSize[type]
                               ELSE IF type = "stsz" THEN (bytes - 12) \div 4 ELSE 0))
Hdlr(says) == Box("hdlr", says, 32, Plain, <<>>)
Tree(type, kids) == Box(type, "other", 0, Plain, kids)

Entry(as, at, box_end, config_end) ==
  [as |-> as, at |-> at, box_end |-> box_end, config_end |-> config_end]
Stsd(bytes, entries) == LeafOf("stsd", bytes, [Plain EXCEPT !.entries = entries])
Described(as) == Stsd(112, <<Entry(as, 8, 112, 112)>>)

RECURSIVE Size(_)
Size(tree) ==
  8 + tree.bytes + FoldLeft(LAMBDA sum, kid : sum + Size(kid), 0, tree.kids)

(* The boxes of a list of trees placed from start on, after those of list. *)
RECURSIVE Place(_, _, _, _)
Place(trees, start, parent, list) ==
  IF trees = <<>> THEN list
  ELSE LET tree == Head(trees)
           box  == [type |-> tree.type, says |-> tree.says, at |-> start,
                    size |-> Size(tree), parent |-> parent, content |-> tree.content]
           here == Append(list, box)
       IN  Place(Tail(trees), start + box.size, parent,
                 Place(tree.kids, start + 8, Len(here), here))

File(trees) ==
  LET full == FoldLeft(LAMBDA sum, tree : sum + Size(tree), 0, trees) IN
    [size |-> full, full |-> full, boxes |-> Place(trees, 0, 0, <<>>)]

(* Sample tables: some of the boxes the parser loads, one it does not know. *)
TableBoxes == {Described("vide"), Leaf("stsz", 16), Leaf("sdtp", 8), Leaf("stco", 16)}
Stbls ==
  {Tree("stbl", s) : s \in UNION {SetToSeqs(set) : set \in {t \in SUBSET TableBoxes :
                                     t # {} /\ Cardinality(t) <= MaxTables}}}

(* A minf ends with its stbl or with a box to skip. *)
Minfs == {Tree("minf", kids) : kids \in {<<stbl>> : stbl \in Stbls}
                                 \cup {<<Leaf("vmhd", 8), stbl, Leaf("free", 0)>> : stbl \in Stbls}}

Mdias(says) ==
  {Tree("mdia", kids) :
     kids \in UNION {{<<Leaf("mdhd", 24), Hdlr(says), minf>>, <<minf, Hdlr(says)>>} :
                     minf \in Minfs}}

Trak(mdia) == Tree("trak", <<Leaf("tkhd", 84), mdia>>)
EditedTrak(mdia) == Tree("trak", <<mdia, Leaf("edts", 8)>>)

PlainMdia(says) ==
  Tree("mdia", <<Hdlr(says), Tree("minf", <<Tree("stbl", <<Described(says), Leaf("stsz", 16)>>)>>)>>)

Moovs ==
  {Tree("moov", <<t>>) : t \in UNION {{Trak(m), EditedTrak(m)} : m \in Mdias("vide")}}
    \cup {Tree("moov", <<Leaf("mvhd", 16), Trak(PlainMdia(a)), EditedTrak(PlainMdia(b)), Leaf("udta", 0)>>) :
            a \in Handlers, b \in Handlers}

Ftyp == Leaf("ftyp", 8)
Mdat == Leaf("mdat", 40)

(* moov at the end, or before the data. *)
Whole == UNION {{File(<<Ftyp, Mdat, moov>>), File(<<moov, Mdat>>)} : moov \in Moovs}

SmallMoov == Tree("moov", <<Trak(PlainMdia("vide"))>>)
Small == File(<<Ftyp, SmallMoov, Mdat>>)

(* As large as given. *)
Filled(full) == File(<<Ftyp, SmallMoov, Leaf("mdat", full - (Small.full - 40))>>)

(* The last box, or one before, with a size that is not its extent; files    *)
(* cut short; boxes too large for the one around, or too small; the largest  *)
(* file that can be parsed, and the next one.                                *)
WithSize(f, type, size) ==
  [f EXCEPT !.boxes = [b \in DOMAIN @ |-> IF @[b].type = type THEN [@[b] EXCEPT !.size = size] ELSE @[b]]]

Odd ==
  {WithSize(Small, "mdat", 0), WithSize(File(<<Mdat, SmallMoov>>), "mdat", 1),
   WithSize(Small, "trak", 1000), WithSize(Small, "moov", 8), WithSize(Small, "tkhd", 8)}
    \cup {[Small EXCEPT !.size = s] : s \in 0..Small.full}
    \cup {WithSize(File(<<Mdat, SmallMoov>>), "moov", 0)}
    \cup {Filled(full) : full \in {U32 - 1, U32}}

(* A trak outside a moov is skipped; a track may have two descriptions; one  *)
(* movie may have two moov boxes.                                            *)
Doubled == Tree("mdia", <<Hdlr("soun"), Tree("minf", <<Tree("stbl", <<Described("soun"), Described("soun")>>)>>)>>)

Strange ==
  {File(<<Leaf("trak", 8), SmallMoov, Leaf("stbl", 4), Mdat>>),
   File(<<Tree("moov", <<Trak(Doubled)>>), Mdat>>),
   File(<<SmallMoov, Mdat, Tree("moov", <<EditedTrak(PlainMdia("soun")), Leaf("stsd", 8)>>)>>)}

(* What a track can hold in its tables, and what its parsers refuse or read  *)
(* past.                                                                     *)
Movie(says, leaves) ==
  File(<<Tree("moov", <<Trak(Tree("mdia", <<Hdlr(says), Tree("minf", <<Tree("stbl", leaves)>>)>>))>>), Mdat>>)

Tables ==
  {LeafOf("stsz", 16, content) : content \in {[Plain EXCEPT !.flags = 1], [Plain EXCEPT !.flags = 65536],
                                              Counting(1), Counting(2),
                                              [Counting(2) EXCEPT !.uniform = TRUE]}}
    \cup {Leaf("stsz", 8), LeafOf("ctts", 8, Counting(0))}
    \cup {LeafOf("ctts", 16, Counting(n)) : n \in 0..2}
    \cup {LeafOf("stco", 8, Counting(n)) : n \in {0, 1, U32 \div 4}}
    \cup {Leaf("stss", 12), Leaf("stts", 16), Leaf("co64", 24), Leaf("stsc", 20), Leaf("stss", 4),
          LeafOf("stts", 8, [Plain EXCEPT !.version = 1]), LeafOf("co64", 8, [Plain EXCEPT !.flags = 1])}

(* Entries that end the box or not, with a configuration or without. *)
Descriptions ==
  {Stsd(bytes, <<Entry(as, 8, box_end, config_end)>>) :
     bytes \in {10, 90, 94, 98, 112}, as \in Handlers, box_end \in {104, 112, 120}, config_end \in {112, 120}}
    \cup {Stsd(112, <<>>), Stsd(4, <<>>), Stsd(112, <<Entry("vide", 8, 100, 100)>>)}
    \cup {Stsd(206, <<Entry("vide", 8, 112, 112), Entry(as, 112, 206, 206)>>) : as \in {"vide", "soun"}}

Headers ==
  {<<Leaf("mdhd", 24), LeafOf("mdhd", 36, [Plain EXCEPT !.version = 1])>>,
   <<LeafOf("mdhd", 24, [Plain EXCEPT !.version = 1])>>, <<Leaf("mdhd", 36)>>,
   <<Box("hdlr", "vide", 24, Plain, <<>>)>>,
   <<Hdlr("soun"), Hdlr("vide"), Tree("minf", <<Tree("stbl", <<Described("vide")>>)>>)>>,
   <<Hdlr("soun"), Tree("minf", <<Tree("stbl", <<Described("soun"), Stsd(112, <<>>)>>)>>)>>,
   <<Hdlr("vide"), Tree("minf", <<Tree("stbl", <<Described("vide"), Stsd(94, <<Entry("vide", 8, 94, 94)>>)>>)>>)>>}

Contentful ==
  {Movie(says, <<leaf>>) : says \in Handlers, leaf \in Tables \cup Descriptions}
    \cup {File(<<Mdat, Tree("moov", <<Tree("trak", <<Tree("mdia", leaves)>>)>>)>>) : leaves \in Headers}
    \cup {File(<<Tree("moov", <<Tree("trak", <<LeafOf("tkhd", bytes, [Plain EXCEPT !.version = 1])>>)>>)>>) :
            bytes \in {84, 96}}

MCFiles == Whole \cup Odd \cup Strange \cup Contentful
=============================================================================
