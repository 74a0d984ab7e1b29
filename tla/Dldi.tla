-------------------------------- MODULE Dldi --------------------------------
(***************************************************************************)
(* Patching the card's driver into a program.  A driver is linked to one   *)
(* address and runs at another: every pointer in it is moved.  miniboot    *)
(* and the GBA loader patch with dldi_patch_relocate, hbmenu and its       *)
(* bootloader with another implementation.                                 *)
(*                                                                         *)
(* An image is a driver, or the room a program keeps for one: the log2 of  *)
(* its size in bytes, the sections to fix, the log2 of the room, whether   *)
(* it is the stub without a card behind it, and its words.  The first ten  *)
(* words stand for the header, in whose place two functions stand for six. *)
(***************************************************************************)
EXTENDS Integers, FiniteSets, Sequences

text_start == 0
data_end == 1
glue_start == 2
glue_end == 3
got_start == 4
got_end == 5
bss_start == 6
bss_end == 7
startup == 8
HeaderWords == 0 .. 9
DO_code == 40           \* the first byte behind the header

SizeOf(log) == 2 ^ log
WordsOf(log) == 0 .. (SizeOf(log) \div 4) - 1

\* The sizes headers name.  Powers of two are stated here, not proved.
Logs == 0 .. 28
ASSUME SizesAssumption ==
  \A a, b \in Logs : SizeOf(a) \in Nat \ {0} /\ (a <= b => SizeOf(a) <= SizeOf(b))

IsImage(image) == DOMAIN image = {"log", "fix", "alloc", "stub", "w"}

\* memOffset: where an image runs
Address(image) ==
  IF image.w[text_start] = 0 THEN image.w[startup] - DO_code ELSE image.w[text_start]

\* All header words move
MoveHeader(w, offset) ==
  [i \in DOMAIN w |-> IF i \in HeaderWords THEN w[i] + offset ELSE w[i]]

\* A word after n looks at it, each of which moves it if it is in lo .. hi - 1
Moved(word, n, lo, hi, offset) ==
  LET after[k \in 0 .. 4] ==
        IF k = 0 THEN word
        ELSE after[k - 1] + (IF after[k - 1] \in lo .. hi - 1 THEN offset ELSE 0)
  IN  after[n]

\* The words of a section, bytes first .. last - 1 of the driver: the patchers
\* look at every fourth byte's word, or at every byte's
Sweep(w, first, last, step, lo, hi, offset) ==
  [i \in DOMAIN w |->
     Moved(w[i], Cardinality({a \in 4 * i .. 4 * i + 3 : a % step = 0 /\ a \in first .. last - 1}),
           lo, hi, offset)]

Clear(w, first, last) ==
  [i \in DOMAIN w |-> IF 4 * i \in first .. last - 1 THEN 0 ELSE w[i]]

\* Fault: the range is taken from the header when that has moved already.
dldi_relocate_Late(io, target) ==
  LET start == io.w[text_start]
      offset == target - start
      w1 == MoveHeader(io.w, offset)
      at(k) == w1[k] - target
      all == IF "all" \in io.fix
             THEN Sweep(w1, 0, at(data_end), 4, target, target + at(data_end), offset) ELSE w1
  IN  [io EXCEPT !.w = all]

\* miniboot's dldi_relocate.  Words of the global offset table may point
\* anywhere into the driver's size, others only up to the end of its data or of
\* a BSS within the size.
dldi_relocate(io, target) ==
  LET start == io.w[text_start]
      spaceEnd == start + SizeOf(io.log)
      allocEnd == IF /\ io.w[bss_start] \in start .. spaceEnd - 1
                     /\ io.w[bss_end] \in io.w[data_end] + 1 .. spaceEnd
                  THEN io.w[bss_end] ELSE io.w[data_end]
      offset == target - start
      w1 == MoveHeader(io.w, offset)
      at(k) == w1[k] - target
      all == IF "all" \in io.fix
             THEN Sweep(w1, 0, at(data_end), 4, start, allocEnd, offset) ELSE w1
      glue == IF "glue" \in io.fix
              THEN Sweep(all, at(glue_start), at(glue_end), 4, start, allocEnd, offset) ELSE all
      got == IF "got" \in io.fix
             THEN Sweep(glue, at(got_start), at(got_end), 4, start, spaceEnd, offset) ELSE glue
  IN  [io EXCEPT !.w = IF "bss" \in io.fix THEN Clear(got, at(bss_start), at(bss_end)) ELSE got]

\* Does dldi_patch_relocate accept the room it has found?
EnoughSpace(target, driver) == target.alloc >= driver.log

\* It writes all of the room, with what lies behind the driver if that is smaller
dldi_patch_relocate(target, driver) ==
  dldi_relocate([driver EXCEPT !.alloc = target.alloc,
                               !.w = [i \in WordsOf(target.alloc) |->
                                        IF i \in DOMAIN driver.w THEN driver.w[i] ELSE 0]],
                target.w[text_start])

\* A binary to be patched: its size in bytes and the words a search looks at,
\* "magic" and what follows it, at the offset of the room or elsewhere
Magic == <<"magic", "chis", "hm">>
MagicAt(data, k) == k + 2 \in DOMAIN data /\ [j \in 1 .. 3 |-> data[k + j - 1]] = Magic

\* The first occurrence of the whole string; the first word alone, too near the
\* end for the rest, ends the search
quickFind(data, size) ==
  LET ends == {k \in 1 .. size \div 4 :
                 data[k] = "magic" /\ (4 * (k - 1) + 12 > size \/ MagicAt(data, k))}
      first == CHOOSE k \in ends : \A j \in ends : k <= j
  IN  IF ends # {} /\ 4 * (first - 1) + 12 <= size THEN 4 * (first - 1) ELSE -1

\* Do dldiPatchLoader and dldiPatchBinary patch?  The stub is no driver.
Patchable(pAH, pDH) == ~pDH.stub /\ pDH.log <= pAH.alloc

\* Fault: the room is taken from the driver's own header.
dldiPatch_Room(pAH, pDH, clearBSS) ==
  LET offset == pAH.w[text_start] - pDH.w[text_start]
  IN  [pDH EXCEPT !.w = MoveHeader([i \in DOMAIN pAH.w |->
         IF i \in WordsOf(pDH.log) THEN pDH.w[i] ELSE pAH.w[i]], offset)]

\* dldiPatchLoader, and dldiPatchBinary (clearBSS).  The sections' bounds come
\* from the source's header; every word may point into all of the driver.
dldiPatch(pAH, pDH, clearBSS) ==
  LET ddmemStart == pDH.w[text_start]
      offset == Address(pAH) - ddmemStart
      ddmemEnd == ddmemStart + SizeOf(pDH.log)
      at(k) == pDH.w[k] - ddmemStart
      w1 == MoveHeader([i \in DOMAIN pAH.w |->
              IF i \in WordsOf(pDH.log) THEN pDH.w[i] ELSE pAH.w[i]], offset)
      all == IF "all" \in pDH.fix
             THEN Sweep(w1, 0, at(data_end), 1, ddmemStart, ddmemEnd, offset) ELSE w1
      glue == IF "glue" \in pDH.fix
              THEN Sweep(all, at(glue_start), at(glue_end), 1, ddmemStart, ddmemEnd, offset)
              ELSE all
      got == IF "got" \in pDH.fix
             THEN Sweep(glue, at(got_start), at(got_end), 1, ddmemStart, ddmemEnd, offset)
             ELSE glue
  IN  [pDH EXCEPT !.alloc = pAH.alloc,
                  !.w = IF clearBSS /\ "bss" \in pDH.fix
                        THEN Clear(got, at(bss_start), at(bss_end)) ELSE got]

-----------------------------------------------------------------------------
\* What moving a driver to an address means: a word of a section to fix that
\* points into the driver moves, the rest stays

InSection(d, k, flag, first, last) ==
  flag \in d.fix /\ 4 * k \in d.w[first] - d.w[text_start] .. d.w[last] - d.w[text_start] - 1

\* Up to where a driver's words may point
Extent(d) ==
  IF d.w[bss_end] > d.w[data_end] THEN d.w[bss_end] ELSE d.w[data_end]

PointsInto(d, k) ==
  \/ /\ InSection(d, k, "all", text_start, data_end) \/ InSection(d, k, "glue", glue_start, glue_end)
     /\ d.w[k] \in d.w[text_start] .. Extent(d) - 1
  \/ /\ InSection(d, k, "got", got_start, got_end)
     /\ d.w[k] \in d.w[text_start] .. d.w[text_start] + SizeOf(d.log) - 1

MovedTo(d, address) ==
  [k \in DOMAIN d.w |->
     IF k \in HeaderWords \/ PointsInto(d, k) THEN d.w[k] + address - d.w[text_start]
     ELSE IF InSection(d, k, "bss", bss_start, bss_end) THEN 0
     ELSE d.w[k]]
=============================================================================
