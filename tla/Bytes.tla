------------------------------- MODULE Bytes -------------------------------
(***************************************************************************)
(* Bytes and the parts of words, as ns-3's Buffer::Iterator writes and     *)
(* reads them: WriteU16 and WriteU32 write the low byte first.             *)
(***************************************************************************)
EXTENDS Integers, Sequences

Byte == 0..255

(* The width bits of x from bit low on: (x >> low) & mask. *)
Bits(x, low, width) == (x \div 2^low) % 2^width

U16(x) == <<Bits(x, 0, 8), Bits(x, 8, 8)>>
ReadU16(b, i) == b[i] + 256 * b[i + 1]

Bit(flag) == IF flag THEN 1 ELSE 0
IsSet(x, i) == Bits(x, i, 1) = 1

U32(x) == U16(Bits(x, 0, 16)) \o U16(x \div 2^16)
ReadU32(b, i) == ReadU16(b, i) + 2^16 * ReadU16(b, i + 2)

=============================================================================
