----------------------------- MODULE Bootstrap -----------------------------
(***************************************************************************)
(* The bootstrap information of a manifest, byte by byte: get_manifest     *)
(* (mp4frag.cc) nests the segment and fragment run tables in an abst box   *)
(* and base64::encode (base64.cc) writes it, three bytes at a time, then   *)
(* one or two that are left.                                               *)
(*                                                                         *)
(* The rows are what Packager finds for the fragments of a source.  A byte *)
(* is four digits to the base QUARTER and a letter three of them, as 8 and *)
(* 6 bits are; the alphabet itself is left out.  (The names MInit, MNext,  *)
(* MSpec, of the manifest, let BytesProofs extend PacketBytes as well.)    *)
(***************************************************************************)
EXTENDS BigEndian

CONSTANTS
  QUARTER,    (* 4 in the code.                                             *)
  Tables      (* The run tables that are written to the end: see IsTable.   *)

LETTER == QUARTER * QUARTER * QUARTER

(* A row that is marked has no duration, and only the last one may be.  The *)
(* count of rows and their times are 32 bits wide, the duration 64.         *)
IsTable(t) ==
  /\ t.duration \in Nat /\ t.duration \div Power[7] < BYTE
  /\ t.rows \in Seq([start : 0..(WORD - 1), duration : 0..(WORD - 1), discontinuity : BOOLEAN])
  /\ Len(t.rows) < WORD
  /\ \A i \in 1..Len(t.rows) :
       t.rows[i].discontinuity => i = Len(t.rows) /\ t.rows[i].duration = 0

ASSUME QuarterAssumption == QUARTER \in Nat \ {0, 1} /\ BYTE = QUARTER * LETTER
ASSUME TablesAssumption == \A t \in Tables : IsTable(t)

VARIABLES
  table,            (* The run table: an input, never assigned.            *)
  afrt,             (* The content of its box, and the rows in it.         *)
  nrows,
  bootstrapinfo,    (* The abst box.                                       *)
  ptr,              (* Bytes of it that are encoded.                       *)
  text,             (* The letters written; PAD is "=".                    *)
  stage             (* "table", "encode", "done".                          *)

mvars == <<table, afrt, nrows, bootstrapinfo, ptr, text, stage>>

PAD == LETTER
ABST == 1
ASRT == 2
AFRT == 3

Zeros(n) == [i \in 1..n |-> 0]

(* Version 0, flags, version of the information, timescale, duration, ...   *)
AbstHead ==
  Zeros(4) \o Write(14, 4) \o Zeros(1) \o Write(1000, 4) \o Write(table.duration, 8)
    \o Zeros(8 + 5) \o <<1>>

AsrtContent == Zeros(5) \o Write(1, 4) \o Write(1, 4) \o Write(Len(table.rows), 4)

AfrtHead == Zeros(4) \o Write(1000, 4) \o Zeros(1) \o Write(Len(table.rows), 4)

RowBytes(r) ==
  Write(nrows + 1, 4) \o Write(r.start, 8) \o Write(r.duration, 4)
    \o (IF r.discontinuity THEN <<0>> ELSE <<>>)
-----------------------------------------------------------------------------
MInit ==
  /\ table \in Tables
  /\ afrt = AfrtHead /\ nrows = 0
  /\ bootstrapinfo = <<>>
  /\ ptr = 0 /\ text = <<>>
  /\ stage = "table"

AddRow ==
  /\ stage = "table" /\ nrows < Len(table.rows)
  /\ afrt' = afrt \o RowBytes(table.rows[nrows + 1])
  /\ nrows' = nrows + 1
  /\ UNCHANGED <<table, bootstrapinfo, ptr, text, stage>>

CloseBoxes ==
  /\ stage = "table" /\ nrows = Len(table.rows)
  /\ bootstrapinfo' = Box(ABST, AbstHead \o Box(ASRT, AsrtContent) \o <<1>> \o Box(AFRT, afrt))
  /\ stage' = "encode"
  /\ UNCHANGED <<table, afrt, nrows, ptr, text>>

Left == Len(bootstrapinfo) - ptr
Byte(i) == bootstrapinfo[ptr + i]

(* Parts of a byte: 6 high bits; 2 low and 4 high; 4 low and 2 high; 6 low. *)
High6(a) == a \div QUARTER
Low2(a) == (a % QUARTER) * (QUARTER * QUARTER)
High4(b) == b \div (QUARTER * QUARTER)
Low4(b) == (b % (QUARTER * QUARTER)) * QUARTER
High2(c) == c \div LETTER
Low6(c) == c % LETTER

EncodeTriple ==
  /\ stage = "encode" /\ Left >= 3
  /\ text' = text \o <<High6(Byte(1)), Low2(Byte(1)) + High4(Byte(2)),
                       Low4(Byte(2)) + High2(Byte(3)), Low6(Byte(3))>>
  /\ ptr' = ptr + 3
  /\ UNCHANGED <<table, afrt, nrows, bootstrapinfo, stage>>

RestLetters_Unshifted ==
  CASE Left = 0 -> <<>>
    [] Left = 1 -> <<High6(Byte(1)), Low2(Byte(1)), PAD, PAD>>
    [] Left = 2 -> <<High6(Byte(1)), Low2(Byte(1)) + High4(Byte(2)), Byte(2) % (QUARTER * QUARTER), PAD>>

RestLetters ==
  CASE Left = 0 -> <<>>
    [] Left = 1 -> <<High6(Byte(1)), Low2(Byte(1)), PAD, PAD>>
    [] Left = 2 -> <<High6(Byte(1)), Low2(Byte(1)) + High4(Byte(2)), Low4(Byte(2)), PAD>>

EncodeRest ==
  /\ stage = "encode" /\ Left < 3
  /\ text' = text \o RestLetters
  /\ stage' = "done"
  /\ UNCHANGED <<table, afrt, nrows, bootstrapinfo, ptr>>

MNext == AddRow \/ CloseBoxes \/ EncodeTriple \/ EncodeRest

MSpec == MInit /\ [][MNext]_mvars
-----------------------------------------------------------------------------
(* How a player reads the text: four letters are three bytes, less the      *)
(* padding; a box is as long as it says; a row has a byte more when its     *)
(* duration is 0.                                                           *)
Padding ==
  LET n == Len(text) IN
  IF n = 0 THEN 0 ELSE (IF text[n] = PAD THEN 1 ELSE 0) + (IF text[n - 1] = PAD THEN 1 ELSE 0)

(* The group of letters number g, counted from 0. *)
Group(g) ==
  LET letter(k) == text[4 * g + k] % LETTER
  IN  ((letter(1) * LETTER + letter(2)) * LETTER + letter(3)) * LETTER + letter(4)

Decoded ==
  [i \in 1..((Len(text) \div 4) * 3 - Padding) |->
     (Group((i - 1) \div 3) \div Power[2 - ((i - 1) % 3)]) % BYTE]

IsBox(bytes, p, name, size) ==
  /\ Read(bytes, p, 4) = size
  /\ \A i \in 1..4 : bytes[p + 3 + i] = Letters(name)[i]

RowAt(bytes, p) ==
  [start |-> Read(bytes, p + 4, 8), duration |-> Read(bytes, p + 12, 4),
   discontinuity |-> Read(bytes, p + 12, 4) = 0]

(* Where the rows begin, when the first one is at p, and where the last ends. *)
RowPlaces(bytes, p) ==
  LET at[k \in 1..(Len(table.rows) + 1)] ==
        IF k = 1 THEN p
        ELSE at[k - 1] + 16 + (IF RowAt(bytes, at[k - 1]).discontinuity THEN 1 ELSE 0)
  IN  at

ShowsTable(bytes) ==
  LET asrt == 9 + Len(AbstHead)
      afrtBox == asrt + 8 + Len(AsrtContent) + 1
      first == afrtBox + 8 + Len(AfrtHead)
      n == Len(table.rows)
      at == RowPlaces(bytes, first)
  IN  /\ IsBox(bytes, 1, ABST, Len(bytes))
      /\ IsBox(bytes, asrt, ASRT, 8 + Len(AsrtContent))
      /\ IsBox(bytes, afrtBox, AFRT, Len(bytes) + 1 - afrtBox)
      /\ Read(bytes, first - 4, 4) = n /\ Read(bytes, asrt + 8 + 5 + 8, 4) = n
      /\ Read(bytes, 9 + 13, 8) = table.duration
      /\ at[n + 1] = Len(bytes) + 1
      /\ \A i \in 1..n : RowAt(bytes, at[i]) = table.rows[i] /\ Read(bytes, at[i], 4) = i

(* A player that decodes the bootstrap information finds every box where   *)
(* the sizes say, and the rows of the run table, each with its number,      *)
(* start and duration: unless one has no duration and no mark, where the    *)
(* format expects a byte that the code does not write, or the whole has     *)
(* 4 GiB or more, which its first field cannot tell.                        *)
ReaderFindsRows ==
  stage = "done" =>
    /\ Decoded = bootstrapinfo
    /\ LET marked == \A i \in 1..Len(table.rows) :
                       table.rows[i].duration = 0 => table.rows[i].discontinuity
       IN  Len(bootstrapinfo) < WORD /\ marked => ShowsTable(Decoded)
=============================================================================
