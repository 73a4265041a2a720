----------------------------- MODULE BigEndian -----------------------------
(***************************************************************************)
(* Numbers as bytes, most significant first: serialize.hh in the tool, the *)
(* get and write helpers in the nginx module.                              *)
(***************************************************************************)
EXTENDS Integers, Sequences

CONSTANT BYTE     (* 256 values to a byte.  TLC scales it. *)

(* Two flags are the highest bits of a word. *)
ASSUME ByteAssumption == BYTE \in Nat \ {0} /\ BYTE % 4 = 0

(* Powers of BYTE, to those of the eight bytes of write64. *)
Power[k \in 0..8] == IF k = 0 THEN 1 ELSE BYTE * Power[k - 1]

U24 == Power[3]
WORD == Power[4]     (* The values of a uint32_t. *)

(* write16, write24, write32, write64: the low bytes of n. *)
Write(n, width) == [i \in 1..width |-> (n \div Power[width - i]) % BYTE]

(* get16, get24, get32 at position p. *)
Read(bytes, p, width) ==
  LET upto[i \in 0..width] == IF i = 0 THEN 0 ELSE upto[i - 1] * BYTE + bytes[p + i - 1]
  IN  upto[width]

(* The four letters of a box's name, as one number each. *)
Letters(name) == [i \in 1..4 |-> name]

(* writebox *)
Box(name, content) == Write(Len(content) + 8, 4) \o Letters(name) \o content
=============================================================================
