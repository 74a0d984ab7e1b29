----------------------------- MODULE FatPacking -----------------------------
(***************************************************************************)
(* How a FAT holds its entries, for the two readers of this repository:    *)
(* the bootloader's fat.c (BootFat) and the GBA loader's FatFs (FatFs).    *)
(***************************************************************************)
EXTENDS Integers

CeilDiv(a, b) == (a + b - 1) \div b

\* What ends a chain in a FAT whose entries have `kind' bits
EndMark(kind) ==
  IF kind = 12 THEN 4095 ELSE IF kind = 16 THEN 65535 ELSE 268435455

\* Byte p of a FAT with the entries Entry(0), Entry(1), ...: entries of 12 bits
\* are packed in pairs, the others are little endian
PackedByte(kind, Entry(_), p) ==
  LET even == Entry(2 * (p \div 3))
      odd == Entry(2 * (p \div 3) + 1)
      packed == << even % 256, even \div 256 + 16 * (odd % 16), odd \div 16 >>
  IN  IF kind = 12 THEN packed[1 + (p % 3)]
      ELSE LET size == kind \div 8
           IN  (Entry(p \div size) \div 256 ^ (p % size)) % 256
=============================================================================
