--------------------------- MODULE HbLaunchProofs ---------------------------
(***************************************************************************)
(* What HbLaunch promises, for every card, driver, room and binary: the    *)
(* driver's way to the program, the file browser's cursor, which file is   *)
(* started, and the arguments' way to the program.                         *)
(*                                                                         *)
(* A driver is relocated three times.  Carried says what an image holds    *)
(* after each time: the card's driver, moved to where the image runs.      *)
(* Keep says what a list of arguments means, Holds what VRAM means while   *)
(* they are packed.                                                        *)
(***************************************************************************)
EXTENDS HbLaunch, FiniteSetTheorems, SequenceTheorems, WellFoundedInduction, TLAPS

-----------------------------------------------------------------------------
\* Looking at a word

\* However often a word is looked at, it moves once if it points into the range
\* and not back into it, and not at all if it does not.
MovesOnce(word, n, lo, hi, offset) ==
  /\ Moved(word, n, lo, hi, offset) \in Int
  /\ n = 0 \/ word \notin lo .. hi - 1 => Moved(word, n, lo, hi, offset) = word
  /\ n # 0 /\ word \in lo .. hi - 1 /\ word + offset \notin lo .. hi - 1 =>
       Moved(word, n, lo, hi, offset) = word + offset

LEMMA MovedIs ==
  ASSUME NEW word \in Int, NEW n \in 0 .. 4, NEW lo \in Int, NEW hi \in Int, NEW offset \in Int
  PROVE  MovesOnce(word, n, lo, hi, offset)
<1> DEFINE Step(x) == x + (IF x \in lo .. hi - 1 THEN offset ELSE 0)
           Looks(f) == [k \in 0 .. 4 |->
                          IF k = 0 THEN word
                          ELSE f[k - 1] + (IF f[k - 1] \in lo .. hi - 1 THEN offset ELSE 0)]
<1>1. \E f : f = Looks(f)
  <2> DEFINE g == [k \in 0 .. 4 |->
                     IF k = 0 THEN word
                     ELSE IF k = 1 THEN Step(word)
                     ELSE IF k = 2 THEN Step(Step(word))
                     ELSE IF k = 3 THEN Step(Step(Step(word)))
                     ELSE Step(Step(Step(Step(word))))]
  <2> HIDE DEF Step
  <2>1. ASSUME NEW k \in 0 .. 4 PROVE g[k] = IF k = 0 THEN word ELSE Step(g[k - 1])
    BY SMT
  <2>2. g = [k \in 0 .. 4 |-> IF k = 0 THEN word ELSE Step(g[k - 1])]
    BY <2>1
  <2>3. g = Looks(g)
    BY <2>2 DEF Step
  <2>4. QED
    BY <2>3
<1>2. PICK f : f = Looks(f) /\ Moved(word, n, lo, hi, offset) = f[n]
  BY <1>1 DEF Moved
<1> HIDE DEF Looks
<1>3. f[0] = word /\ f[1] = Step(f[0]) /\ f[2] = Step(f[1]) /\ f[3] = Step(f[2]) /\ f[4] = Step(f[3])
  BY <1>2 DEF Looks
<1>4. QED
  <2> HIDE DEF Step
  <2>1. \A x \in Int : Step(x) \in Int
    BY DEF Step
  <2>2. f[n] \in Int
    BY <1>3, <2>1
  <2>3. QED
    BY <1>2, <1>3, <2>2 DEF MovesOnce, Step

\* The patchers look at every byte's word or at every fourth's.
Steps == {1, 4}

WordAt(w, i) == i \in Nat /\ i \in DOMAIN w /\ w[i] \in Int

\* One sweep over a section, if its flag is set
Pass(w, flag, fix, first, last, step, lo, hi, offset) ==
  IF flag \in fix THEN Sweep(w, first, last, step, lo, hi, offset) ELSE w

Passed(w, u, flag, fix, first, last, step, lo, hi, offset, i) ==
  /\ DOMAIN u = DOMAIN w /\ u[i] \in Int
  /\ w[i] \notin lo .. hi - 1 => u[i] = w[i]
  /\ w[i] + offset \notin lo .. hi - 1 => u[i] \in {w[i], w[i] + offset}
  /\ /\ flag \in fix /\ 4 * i \in first .. last - 1
     /\ w[i] \in lo .. hi - 1 /\ w[i] + offset \notin lo .. hi - 1
     => u[i] = w[i] + offset
  /\ flag \notin fix \/ (step = 4 /\ 4 * i \notin first .. last - 1) => u[i] = w[i]

LEMMA PassIs ==
  ASSUME NEW w, NEW flag, NEW fix, NEW first \in Int, NEW last \in Int, NEW step \in Steps,
         NEW lo \in Int, NEW hi \in Int, NEW offset \in Int,
         NEW i, WordAt(w, i)
  PROVE  Passed(w, Pass(w, flag, fix, first, last, step, lo, hi, offset),
                flag, fix, first, last, step, lo, hi, offset, i)
<1> USE DEF Steps, WordAt
<1> DEFINE seen == {a \in 4 * i .. 4 * i + 3 : a % step = 0 /\ a \in first .. last - 1}
           u == Pass(w, flag, fix, first, last, step, lo, hi, offset)
<1>1. CASE flag \notin fix
  BY <1>1 DEF Pass, Passed
<1>2. CASE flag \in fix
  <2>1. IsFiniteSet(4 * i .. 4 * i + 3) /\ Cardinality(4 * i .. 4 * i + 3) = 4
    <3>1. 4 * i \in Int /\ 4 * i + 3 \in Int /\ ~(4 * i > 4 * i + 3) /\ (4 * i + 3) - 4 * i + 1 = 4
      OBVIOUS
    <3>2. QED
      BY <3>1, FS_Interval
  <2>2. IsFiniteSet(seen) /\ Cardinality(seen) <= 4
    BY <2>1, FS_Subset
  <2>3. Cardinality(seen) \in Nat /\ (Cardinality(seen) = 0 <=> seen = {})
    BY <2>2, FS_CardinalityType, FS_EmptySet
  <2>4. Cardinality(seen) \in 0 .. 4
    <3> HIDE DEF seen
    <3>1. PICK c : c = Cardinality(seen)
      OBVIOUS
    <3>2. c \in Nat /\ c <= 4
      BY <2>2, <2>3, <3>1
    <3>3. QED
      BY <3>1, <3>2
  <2>5. u = [j \in DOMAIN w |->
               Moved(w[j], Cardinality({a \in 4 * j .. 4 * j + 3 :
                                          a % step = 0 /\ a \in first .. last - 1}),
                     lo, hi, offset)]
    BY <1>2 DEF Pass, Sweep
  <2>6. u[i] = Moved(w[i], Cardinality(seen), lo, hi, offset) /\ DOMAIN u = DOMAIN w
    BY <2>5
  <2>7. 4 * i \in first .. last - 1 => seen # {}
    <3>1. (4 * i) % step = 0
      OBVIOUS
    <3>2. 4 * i \in 4 * i .. 4 * i + 3
      OBVIOUS
    <3>3. QED
      BY <3>1, <3>2
  <2>8. step = 4 /\ 4 * i \notin first .. last - 1 => seen = {}
    <3>1. \A a \in 4 * i .. 4 * i + 3 : a % 4 = 0 => a = 4 * i
      OBVIOUS
    <3>2. QED
      BY <3>1
  <2> HIDE DEF seen, u
  <2>9. PICK n \in 0 .. 4 : n = Cardinality(seen)
    BY <2>4
  <2>10. /\ u[i] \in Int
         /\ n = 0 \/ w[i] \notin lo .. hi - 1 => u[i] = w[i]
         /\ n # 0 /\ w[i] \in lo .. hi - 1 /\ w[i] + offset \notin lo .. hi - 1 =>
              u[i] = w[i] + offset
    <3>1. PICK x \in Int : x = w[i]
      OBVIOUS
    <3>2. u[i] = Moved(x, n, lo, hi, offset)
      BY <2>6, <2>9, <3>1
    <3>3. MovesOnce(x, n, lo, hi, offset)
      BY <2>9, <3>1, MovedIs
    <3>4. QED
      BY <3>1, <3>2, <3>3 DEF MovesOnce
  <2>11. QED
    BY <1>2, <2>3, <2>6, <2>7, <2>8, <2>9, <2>10 DEF u, Passed
<1>3. QED
  BY <1>1, <1>2

\* The words of a section are cleared.
LEMMA ClearIs ==
  ASSUME NEW w, NEW first, NEW last
  PROVE  /\ DOMAIN Clear(w, first, last) = DOMAIN w
         /\ \A i \in DOMAIN w :
              Clear(w, first, last)[i] = IF 4 * i \in first .. last - 1 THEN 0 ELSE w[i]
BY DEF Clear

\* What either patcher makes of the words of driver d: three sweeps, of which
\* the last has a range of its own, and the BSS
Fixed(d, w, step, lo, hi, all, offset) ==
  LET At(k) == d.w[k] - d.w[text_start]
      w1 == Pass(w, "all", d.fix, 0, At(data_end), step, lo, hi, offset)
      w2 == Pass(w1, "glue", d.fix, At(glue_start), At(glue_end), step, lo, hi, offset)
      w3 == Pass(w2, "got", d.fix, At(got_start), At(got_end), step, lo, all, offset)
  IN  IF "bss" \in d.fix THEN Clear(w3, At(bss_start), At(bss_end)) ELSE w3

\* The word is in a section to fix and points into the section's range.
Pointer(d, k, word, lo, hi, all) ==
  \/ /\ InSection(d, k, "all", text_start, data_end) \/ InSection(d, k, "glue", glue_start, glue_end)
     /\ word \in lo .. hi - 1
  \/ InSection(d, k, "got", got_start, got_end) /\ word \in lo .. all - 1

Bss(d, k) == InSection(d, k, "bss", bss_start, bss_end)

HeaderInt(d) == \A k \in HeaderWords : d.w[k] \in Int

\* A pointer moves once, unless it would move back into a range; a word that
\* points nowhere stays, and so does one in no section if a sweep looks at whole
\* words only.
FixedAt(d, w, f, step, lo, hi, all, offset, k) ==
  /\ DOMAIN f = DOMAIN w /\ f[k] \in Int
  /\ Bss(d, k) => f[k] = 0
  /\ ~Bss(d, k) =>
       /\ w[k] \notin lo .. hi - 1 /\ w[k] \notin lo .. all - 1 => f[k] = w[k]
       /\ step = 4 /\ ~Pointer(d, k, w[k], lo, hi, all) => f[k] = w[k]
       /\ /\ w[k] + offset \notin lo .. hi - 1 /\ w[k] + offset \notin lo .. all - 1
          /\ Pointer(d, k, w[k], lo, hi, all)
          => f[k] = w[k] + offset

LEMMA FixedIs ==
  ASSUME NEW d, HeaderInt(d), NEW w, NEW step \in Steps,
         NEW lo \in Int, NEW hi \in Int, NEW all \in Int, NEW offset \in Int,
         NEW k, WordAt(w, k)
  PROVE  FixedAt(d, w, Fixed(d, w, step, lo, hi, all, offset), step, lo, hi, all, offset, k)
<1> DEFINE At(j) == d.w[j] - d.w[text_start]
           w1 == Pass(w, "all", d.fix, 0, At(data_end), step, lo, hi, offset)
           w2 == Pass(w1, "glue", d.fix, At(glue_start), At(glue_end), step, lo, hi, offset)
           w3 == Pass(w2, "got", d.fix, At(got_start), At(got_end), step, lo, all, offset)
           f == Fixed(d, w, step, lo, hi, all, offset)
           inAll == "all" \in d.fix /\ 4 * k \in 0 .. At(data_end) - 1
           inGlue == "glue" \in d.fix /\ 4 * k \in At(glue_start) .. At(glue_end) - 1
           inGot == "got" \in d.fix /\ 4 * k \in At(got_start) .. At(got_end) - 1
<1>1. At(data_end) \in Int /\ At(glue_start) \in Int /\ At(glue_end) \in Int
        /\ At(got_start) \in Int /\ At(got_end) \in Int
  BY DEF HeaderInt, HeaderWords, text_start, data_end, glue_start, glue_end, got_start, got_end
<1>2. /\ inAll <=> InSection(d, k, "all", text_start, data_end)
      /\ inGlue <=> InSection(d, k, "glue", glue_start, glue_end)
      /\ inGot <=> InSection(d, k, "got", got_start, got_end)
  <2>1. d.w[text_start] - d.w[text_start] = 0
    BY DEF HeaderInt, HeaderWords, text_start
  <2>2. QED
    BY <2>1 DEF InSection
<1>3. f = IF "bss" \in d.fix THEN Clear(w3, At(bss_start), At(bss_end)) ELSE w3
  BY DEF Fixed
<1> HIDE DEF At
<1>4. Passed(w, w1, "all", d.fix, 0, At(data_end), step, lo, hi, offset, k)
  <2>1. 0 \in Int
    OBVIOUS
  <2>2. QED
    BY <1>1, <2>1, PassIs, Zenon
<1>5. WordAt(w1, k) /\ DOMAIN w1 = DOMAIN w
  BY <1>4 DEF Passed, WordAt
<1> HIDE DEF w1
<1>6. Passed(w1, w2, "glue", d.fix, At(glue_start), At(glue_end), step, lo, hi, offset, k)
  BY <1>1, <1>5, PassIs
<1>7. WordAt(w2, k) /\ DOMAIN w2 = DOMAIN w
  BY <1>5, <1>6 DEF Passed, WordAt
<1> HIDE DEF w2
<1>8. Passed(w2, w3, "got", d.fix, At(got_start), At(got_end), step, lo, all, offset, k)
  BY <1>1, <1>7, PassIs
<1>9. WordAt(w3, k) /\ DOMAIN w3 = DOMAIN w
  BY <1>7, <1>8 DEF Passed, WordAt
<1> HIDE DEF w3
<1>10. /\ DOMAIN f = DOMAIN w
       /\ f[k] = IF Bss(d, k) THEN 0 ELSE w3[k]
  <2>1. Bss(d, k) <=> "bss" \in d.fix /\ 4 * k \in At(bss_start) .. At(bss_end) - 1
    BY DEF Bss, InSection, At
  <2>2. CASE "bss" \in d.fix
    <3>1. k \in DOMAIN w3
      BY <1>9 DEF WordAt
    <3>2. f = Clear(w3, At(bss_start), At(bss_end))
      BY <1>3, <2>2
    <3>3. QED
      BY <1>9, <2>1, <2>2, <3>1, <3>2, ClearIs
  <2>3. CASE "bss" \notin d.fix
    BY <1>3, <1>9, <2>1, <2>3
  <2>4. QED
    BY <2>2, <2>3
<1> HIDE DEF f, inAll, inGlue, inGot
<1>11. Pointer(d, k, w[k], lo, hi, all) <=>
         \/ (inAll \/ inGlue) /\ w[k] \in lo .. hi - 1
         \/ inGot /\ w[k] \in lo .. all - 1
  BY <1>2 DEF Pointer
<1>12. /\ w1[k] \in Int /\ w2[k] \in Int /\ w3[k] \in Int /\ w[k] \in Int
  BY <1>5, <1>7, <1>9 DEF WordAt
<1>13. ASSUME w[k] \notin lo .. hi - 1, w[k] \notin lo .. all - 1
       PROVE  w3[k] = w[k]
  BY <1>4, <1>6, <1>8, <1>13 DEF Passed
<1>14. ASSUME step = 4, ~Pointer(d, k, w[k], lo, hi, all)
       PROVE  w3[k] = w[k]
  <2>1. w1[k] = w[k]
    BY <1>4, <1>11, <1>14 DEF Passed, inAll
  <2>2. w2[k] = w[k]
    BY <1>6, <1>11, <1>14, <2>1 DEF Passed, inGlue
  <2>3. w3[k] = w[k]
    BY <1>8, <1>11, <1>14, <2>2 DEF Passed, inGot
  <2>4. QED
    BY <2>3
<1>15. ASSUME w[k] + offset \notin lo .. hi - 1, w[k] + offset \notin lo .. all - 1,
              Pointer(d, k, w[k], lo, hi, all)
       PROVE  w3[k] = w[k] + offset
  <2>1. /\ w1[k] \in {w[k], w[k] + offset}
        /\ inAll /\ w[k] \in lo .. hi - 1 => w1[k] = w[k] + offset
    BY <1>4, <1>15 DEF Passed, inAll
  <2>2. /\ w2[k] \in {w[k], w[k] + offset}
        /\ w1[k] = w[k] + offset => w2[k] = w[k] + offset
        /\ inGlue /\ w[k] \in lo .. hi - 1 => w2[k] = w[k] + offset
    BY <1>6, <1>15, <2>1 DEF Passed, inGlue
  <2>3. /\ w2[k] = w[k] + offset => w3[k] = w[k] + offset
        /\ inGot /\ w[k] \in lo .. all - 1 => w3[k] = w[k] + offset
    BY <1>8, <1>15, <2>2 DEF Passed, inGot
  <2>4. QED
    BY <1>11, <1>15, <2>1, <2>2, <2>3
<1>16. Bss(d, k) => f[k] = 0
  BY <1>10
<1>17. ASSUME ~Bss(d, k) PROVE f[k] = w3[k]
  BY <1>10, <1>17
<1>18. f[k] \in Int
  BY <1>10, <1>12
<1>19. FixedAt(d, w, f, step, lo, hi, all, offset, k)
  BY <1>10, <1>13, <1>14, <1>15, <1>16, <1>17, <1>18 DEF FixedAt
<1>20. QED
  BY <1>19 DEF f

-----------------------------------------------------------------------------
\* What the two patchers do

\* The driver's words in the room, its header moved
Written(p, x, offset) ==
  MoveHeader([i \in DOMAIN p.w |-> IF i \in WordsOf(x.log) THEN x.w[i] ELSE p.w[i]], offset)

PatchedInto(p, x, image, start, end, offset) ==
  /\ IsImage(image)
  /\ image.log = x.log /\ image.fix = x.fix /\ image.stub = x.stub
  /\ image.alloc = p.alloc
  /\ image.w = Fixed(x, Written(p, x, offset), 1, start, end, end, offset)

LEMMA DldiPatchIs ==
  ASSUME NEW p, NEW x, IsImage(x), NEW offset, offset = Address(p) - x.w[text_start],
         NEW end, end = x.w[text_start] + SizeOf(x.log)
  PROVE  PatchedInto(p, x, dldiPatch(p, x, TRUE), x.w[text_start], end, offset)
<1> DEFINE words == Fixed(x, Written(p, x, offset), 1, x.w[text_start], end, end, offset)
<1>1. dldiPatch(p, x, TRUE) = [x EXCEPT !.alloc = p.alloc, !.w = words]
  BY DEF dldiPatch, Fixed, Pass, Written
<1> HIDE DEF words
<1>2. QED
  BY <1>1 DEF PatchedInto, IsImage, words

\* miniboot's: the words of the global offset table may point further.
RelocatedTo(x, image, start, end, space, offset) ==
  /\ IsImage(image)
  /\ image.log = x.log /\ image.fix = x.fix /\ image.stub = x.stub
  /\ image.alloc = x.alloc
  /\ image.w = Fixed(x, MoveHeader(x.w, offset), 4, start, end, space, offset)

LEMMA RelocateIs ==
  ASSUME NEW x, IsImage(x), HeaderInt(x), HeaderWords \subseteq DOMAIN x.w, NEW target \in Int,
         NEW offset, offset = target - x.w[text_start],
         NEW space, space = x.w[text_start] + SizeOf(x.log),
         NEW end, end = IF /\ x.w[bss_start] \in x.w[text_start] .. space - 1
                           /\ x.w[bss_end] \in x.w[data_end] + 1 .. space
                        THEN x.w[bss_end] ELSE x.w[data_end]
  PROVE  RelocatedTo(x, dldi_relocate(x, target), x.w[text_start], end, space, offset)
<1> DEFINE words == Fixed(x, MoveHeader(x.w, offset), 4, x.w[text_start], end, space, offset)
           w1 == MoveHeader(x.w, offset)
<1>1. \A k \in HeaderWords : w1[k] - target = x.w[k] - x.w[text_start]
  <2>1. \A k \in HeaderWords : w1[k] = x.w[k] + offset
    BY DEF MoveHeader
  <2> HIDE DEF w1
  <2>2. text_start \in HeaderWords
    BY DEF text_start, HeaderWords
  <2>3. QED
    BY <2>1, <2>2 DEF HeaderInt
<1>2. /\ w1[data_end] - target = x.w[data_end] - x.w[text_start]
      /\ w1[glue_start] - target = x.w[glue_start] - x.w[text_start]
      /\ w1[glue_end] - target = x.w[glue_end] - x.w[text_start]
      /\ w1[got_start] - target = x.w[got_start] - x.w[text_start]
      /\ w1[got_end] - target = x.w[got_end] - x.w[text_start]
      /\ w1[bss_start] - target = x.w[bss_start] - x.w[text_start]
      /\ w1[bss_end] - target = x.w[bss_end] - x.w[text_start]
  BY <1>1 DEF HeaderWords, data_end, glue_start, glue_end, got_start, got_end, bss_start, bss_end
<1> HIDE DEF w1
<1>3. dldi_relocate(x, target) = [x EXCEPT !.w = words]
  BY <1>2, Zenon DEF dldi_relocate, Fixed, Pass, w1
<1> HIDE DEF words
<1>4. QED
  BY <1>3 DEF RelocatedTo, IsImage, words, w1

-----------------------------------------------------------------------------
\* A driver as every proper one

LEMMA DriverFacts ==
  ASSUME NEW d, ProperDriver(d)
  PROVE  /\ IsImage(d) /\ ~d.stub /\ d.log \in Logs
         /\ SizeOf(d.log) \in Nat \ {0}
         /\ HeaderInt(d) /\ d.w[text_start] \in Int
         /\ DOMAIN d.w = WordsOf(d.log) /\ HeaderWords \subseteq WordsOf(d.log)
         /\ \A k \in WordsOf(d.log) : k \in Nat /\ d.w[k] \in Int
         /\ \A k \in HeaderWords :
              d.w[k] \in d.w[text_start] .. d.w[text_start] + SizeOf(d.log)
<1>1. SizeOf(d.log) \in Nat \ {0}
  BY SizesAssumption DEF ProperDriver
<1>2. WordsOf(d.log) \subseteq Nat
  BY <1>1 DEF WordsOf
<1>3. HeaderWords \subseteq WordsOf(d.log)
  <2>1. SizeOf(d.log) >= 40
    BY DEF ProperDriver, DO_code
  <2>2. PICK size \in Nat : size = SizeOf(d.log)
    BY <1>1
  <2>3. (size \div 4) - 1 >= 9
    BY <2>1, <2>2
  <2>4. QED
    BY <2>2, <2>3 DEF HeaderWords, WordsOf
<1>4. DOMAIN d.w = WordsOf(d.log) /\ \A k \in WordsOf(d.log) : d.w[k] \in Int
  BY DEF ProperDriver
<1>5. text_start \in HeaderWords
  BY DEF text_start, HeaderWords
<1>6. QED
  BY <1>1, <1>2, <1>3, <1>4, <1>5 DEF ProperDriver, HeaderInt

LEMMA ExtentIs ==
  ASSUME NEW d, ProperDriver(d)
  PROVE  /\ Extent(d) \in Int /\ Extent(d) <= d.w[text_start] + SizeOf(d.log)
         /\ Extent(d) = IF /\ d.w[bss_start] \in d.w[text_start] .. d.w[text_start] + SizeOf(d.log) - 1
                           /\ d.w[bss_end] \in d.w[data_end] + 1 .. d.w[text_start] + SizeOf(d.log)
                        THEN d.w[bss_end] ELSE d.w[data_end]
<1>1. /\ bss_start \in HeaderWords /\ bss_end \in HeaderWords /\ data_end \in HeaderWords
  BY DEF bss_start, bss_end, data_end, HeaderWords
<1>2. d.w[bss_start] < d.w[text_start] + SizeOf(d.log)
  BY DEF ProperDriver
<1>3. QED
  BY <1>1, <1>2, DriverFacts DEF Extent

\* A pointer points into the driver, and no word of the BSS or the header is both.
LEMMA PointerFacts ==
  ASSUME NEW d, ProperDriver(d), NEW k \in WordsOf(d.log)
  PROVE  /\ PointsInto(d, k) => /\ d.w[k] \in d.w[text_start] .. d.w[text_start] + SizeOf(d.log) - 1
                                /\ ~Bss(d, k)
         /\ Bss(d, k) => k \notin HeaderWords
         /\ PointsInto(d, k) <=> Pointer(d, k, d.w[k], d.w[text_start], Extent(d),
                                         d.w[text_start] + SizeOf(d.log))
<1>1. PointsInto(d, k) <=> Pointer(d, k, d.w[k], d.w[text_start], Extent(d),
                                   d.w[text_start] + SizeOf(d.log))
  BY DriverFacts, ExtentIs DEF PointsInto, Pointer
<1>2. PointsInto(d, k) => d.w[k] \in d.w[text_start] .. d.w[text_start] + SizeOf(d.log) - 1
  BY DriverFacts, ExtentIs DEF PointsInto
<1>3. /\ data_end \in HeaderWords /\ glue_start \in HeaderWords /\ glue_end \in HeaderWords
      /\ got_start \in HeaderWords /\ got_end \in HeaderWords
      /\ bss_start \in HeaderWords /\ bss_end \in HeaderWords
  BY DEF data_end, glue_start, glue_end, got_start, got_end, bss_start, bss_end, HeaderWords
<1>4. ASSUME Bss(d, k)
      PROVE  /\ 4 * k >= d.w[bss_start] - d.w[text_start]
             /\ d.w[text_start] + DO_code <= d.w[bss_start] /\ d.w[data_end] <= d.w[bss_start]
             /\ d.w[glue_end] <= d.w[bss_start] /\ d.w[got_end] <= d.w[bss_start]
  <2>1. 4 * k >= d.w[bss_start] - d.w[text_start] /\ d.w[bss_end] > d.w[bss_start]
    BY <1>3, <1>4, DriverFacts DEF Bss, InSection
  <2>2. QED
    BY <2>1 DEF ProperDriver
<1>5. Bss(d, k) => k \notin HeaderWords
  BY <1>3, <1>4, DriverFacts DEF DO_code, HeaderWords
<1>6. Bss(d, k) => ~PointsInto(d, k)
  BY <1>3, <1>4, DriverFacts DEF PointsInto, InSection
<1>7. QED
  BY <1>1, <1>2, <1>5, <1>6

-----------------------------------------------------------------------------
\* An image at address a that carries the driver d

CarriedWord(d, x, a, k) ==
  /\ PointsInto(d, k) => x.w[k] = d.w[k] + a - d.w[text_start]
  /\ ~PointsInto(d, k) /\ ~Bss(d, k) /\ ~Lookalike(d.w[k]) => x.w[k] = d.w[k]

Carried(d, x, a) ==
  /\ IsImage(x) /\ x.log = d.log /\ x.fix = d.fix /\ ~x.stub
  /\ \A k \in WordsOf(d.log) : k \in DOMAIN x.w /\ x.w[k] \in Int
  /\ \A k \in HeaderWords : x.w[k] = d.w[k] + a - d.w[text_start]
  /\ \A k \in WordsOf(d.log) \ HeaderWords : CarriedWord(d, x, a, k)

SameSections(x, d) ==
  /\ x.fix = d.fix
  /\ x.w[data_end] - x.w[text_start] = d.w[data_end] - d.w[text_start]
  /\ x.w[glue_start] - x.w[text_start] = d.w[glue_start] - d.w[text_start]
  /\ x.w[glue_end] - x.w[text_start] = d.w[glue_end] - d.w[text_start]
  /\ x.w[got_start] - x.w[text_start] = d.w[got_start] - d.w[text_start]
  /\ x.w[got_end] - x.w[text_start] = d.w[got_end] - d.w[text_start]
  /\ x.w[bss_start] - x.w[text_start] = d.w[bss_start] - d.w[text_start]
  /\ x.w[bss_end] - x.w[text_start] = d.w[bss_end] - d.w[text_start]

\* Its sections are the driver's.
LEMMA CarriedSections ==
  ASSUME NEW d, ProperDriver(d), NEW a \in Int, NEW x, Carried(d, x, a)
  PROVE  /\ HeaderInt(x) /\ x.w[text_start] = a
         /\ SameSections(x, d)
<1>1. \A k \in HeaderWords : x.w[k] = d.w[k] + a - d.w[text_start] /\ d.w[k] \in Int
  BY DriverFacts DEF Carried, HeaderInt
<1>2. text_start \in HeaderWords
  BY DEF text_start, HeaderWords
<1>3. HeaderInt(x) /\ x.w[text_start] = a
  BY <1>1, <1>2 DEF HeaderInt
<1>4. \A k \in HeaderWords : x.w[k] - x.w[text_start] = d.w[k] - d.w[text_start]
  BY <1>1, <1>2
<1>5. x.fix = d.fix
  BY DEF Carried
<1>6. SameSections(x, d)
  BY <1>4, <1>5 DEF SameSections, HeaderWords, data_end, glue_start, glue_end, got_start, got_end, bss_start, bss_end
<1>7. QED
  BY <1>3, <1>6

\* Patching it into a room elsewhere carries it there, and those words of its
\* header that would not point into the room it comes from.
PatchedWord(d, a, p, y, b, k) ==
  /\ DOMAIN y.w = DOMAIN p.w /\ y.w[k] \in Int
  /\ Bss(d, k) => y.w[k] = 0
  /\ k \notin HeaderWords => CarriedWord(d, y, b, k)
  /\ /\ k \in HeaderWords
     /\ d.w[k] + b - d.w[text_start] \notin a .. a + SizeOf(d.log) - 1
     => y.w[k] = d.w[k] + b - d.w[text_start]

LEMMA CarryWord ==
  ASSUME NEW d, ProperDriver(d), NEW a \in Int, NEW x, Carried(d, x, a),
         NEW p, NEW b \in Int, b = Address(p), WordsOf(d.log) \subseteq DOMAIN p.w,
         b >= a + SizeOf(d.log) \/ b + SizeOf(d.log) <= a,
         \A v \in Int : v \in a .. a + SizeOf(d.log) - 1 => Lookalike(v),
         NEW k \in WordsOf(d.log)
  PROVE  PatchedWord(d, a, p, dldiPatch(p, x, TRUE), b, k)
<1> DEFINE y == dldiPatch(p, x, TRUE)
<1>1. PICK size \in Nat \ {0} : size = SizeOf(d.log)
  BY DriverFacts
<1>2. PICK s \in Int : s = d.w[text_start]
  BY DriverFacts
<1>3. PICK offset \in Int, end \in Int : offset = b - a /\ end = a + size
  OBVIOUS
<1>4. PICK w : w = Written(p, x, offset)
  OBVIOUS
<1>5. y.w = Fixed(d, w, 1, a, end, end, offset)
  <2>1. IsImage(x) /\ x.log = d.log
    BY DEF Carried
  <2>2. x.w[text_start] = a
    BY CarriedSections
  <2>3. offset = Address(p) - x.w[text_start] /\ end = x.w[text_start] + SizeOf(x.log)
    BY <1>1, <1>3, <2>1, <2>2
  <2>4. y.w = Fixed(x, w, 1, x.w[text_start], end, end, offset)
    <3>1. PatchedInto(p, x, y, x.w[text_start], end, offset)
      BY <2>1, <2>3, DldiPatchIs
    <3>2. QED
      BY <1>4, <3>1 DEF PatchedInto
  <2>5. Fixed(x, w, 1, a, end, end, offset) = Fixed(d, w, 1, a, end, end, offset)
    <3>1. SameSections(x, d)
      BY CarriedSections
    <3>2. QED
      BY <3>1, Zenon DEF SameSections, Fixed
  <2>6. QED
    BY <2>2, <2>4, <2>5
<1>6. DOMAIN w = DOMAIN p.w /\ k \in DOMAIN w
  BY <1>4 DEF Written, MoveHeader
<1>7. w[k] = IF k \in HeaderWords THEN x.w[k] + offset ELSE x.w[k]
  BY <1>4, <1>6 DEF Written, MoveHeader, Carried
<1>8. x.w[k] \in Int /\ k \in Nat /\ d.w[k] \in Int
  BY DriverFacts DEF Carried
<1>9. WordAt(w, k)
  BY <1>6, <1>7, <1>8, <1>3 DEF WordAt
<1>10. FixedAt(d, w, y.w, 1, a, end, end, offset, k)
  <2>1. 1 \in Steps /\ HeaderInt(d)
    BY DriverFacts DEF Steps
  <2>2. FixedAt(d, w, Fixed(d, w, 1, a, end, end, offset), 1, a, end, end, offset, k)
    BY <1>9, <2>1, FixedIs
  <2>3. QED
    BY <1>5, <2>2
<1> HIDE DEF y
<1>11. DOMAIN y.w = DOMAIN p.w /\ y.w[k] \in Int /\ (Bss(d, k) => y.w[k] = 0)
  BY <1>6, <1>10 DEF FixedAt
<1>12. ASSUME k \notin HeaderWords, PointsInto(d, k)
       PROVE  y.w[k] = d.w[k] + b - s
  <2>1. w[k] = d.w[k] + a - s
    BY <1>2, <1>7, <1>12 DEF Carried, CarriedWord
  <2>2. d.w[k] \in s .. s + size - 1 /\ ~Bss(d, k)
    BY <1>1, <1>2, <1>12, PointerFacts
  <2>3. w[k] \in a .. end - 1
    BY <1>3, <1>8, <2>1, <2>2
  <2>4. Pointer(d, k, w[k], a, end, end)
    BY <1>12, <2>3 DEF PointsInto, Pointer
  <2>5. w[k] + offset \notin a .. end - 1
    BY <1>1, <1>3, <2>1, <2>2
  <2>6. y.w[k] = w[k] + offset
    BY <1>10, <2>2, <2>4, <2>5 DEF FixedAt
  <2>7. QED
    BY <1>3, <1>8, <2>1, <2>6
<1>13. ASSUME k \notin HeaderWords, ~PointsInto(d, k), ~Bss(d, k), ~Lookalike(d.w[k])
       PROVE  y.w[k] = d.w[k]
  <2>1. w[k] = d.w[k]
    BY <1>7, <1>13 DEF Carried, CarriedWord
  <2>2. w[k] \notin a .. end - 1
    BY <1>1, <1>3, <1>8, <1>13, <2>1
  <2>3. QED
    BY <1>10, <1>13, <2>1, <2>2 DEF FixedAt
<1>14. ASSUME k \in HeaderWords, d.w[k] + b - s \notin a .. end - 1
       PROVE  y.w[k] = d.w[k] + b - s
  <2>1. w[k] = d.w[k] + a - s + offset
    BY <1>2, <1>7, <1>14 DEF Carried
  <2>2. d.w[k] \in s .. s + size /\ ~Bss(d, k)
    BY <1>1, <1>2, <1>14, DriverFacts, PointerFacts
  <2>3. w[k] = d.w[k] + b - s /\ w[k] \notin a .. end - 1
    BY <1>3, <1>8, <1>14, <2>1, <2>2
  <2>4. QED
    BY <1>10, <2>2, <2>3 DEF FixedAt
<1>15. k \notin HeaderWords => CarriedWord(d, y, b, k)
  BY <1>2, <1>12, <1>13 DEF CarriedWord
<1>16. ASSUME k \in HeaderWords, d.w[k] + b - d.w[text_start] \notin a .. a + SizeOf(d.log) - 1
       PROVE  y.w[k] = d.w[k] + b - d.w[text_start]
  BY <1>1, <1>2, <1>3, <1>14, <1>16
<1>17. PatchedWord(d, a, p, y, b, k)
  BY <1>11, <1>15, <1>16 DEF PatchedWord
<1>18. QED
  BY <1>17 DEF y

PatchedShape(d, p, y) ==
  IsImage(y) /\ y.log = d.log /\ y.fix = d.fix /\ ~y.stub /\ y.alloc = p.alloc

LEMMA CarryShape ==
  ASSUME NEW d, ProperDriver(d), NEW a \in Int, NEW x, Carried(d, x, a),
         NEW p, NEW b \in Int, b = Address(p)
  PROVE  PatchedShape(d, p, dldiPatch(p, x, TRUE))
<1> DEFINE y == dldiPatch(p, x, TRUE)
<1>1. IsImage(x) /\ x.log = d.log /\ x.fix = d.fix /\ ~x.stub
  BY DEF Carried
<1>2. PICK offset, end : offset = Address(p) - x.w[text_start] /\ end = x.w[text_start] + SizeOf(x.log)
  OBVIOUS
<1>3. PatchedInto(p, x, y, x.w[text_start], end, offset)
  BY <1>1, <1>2, DldiPatchIs
<1>4. QED
  BY <1>1, <1>3 DEF PatchedInto, PatchedShape

\* From a room to one behind it, all of the driver is carried.
LEMMA CarryBehind ==
  ASSUME NEW d, ProperDriver(d), NEW a \in Int, NEW x, Carried(d, x, a),
         NEW p, NEW b \in Int, b = Address(p), WordsOf(d.log) \subseteq DOMAIN p.w,
         b >= a + SizeOf(d.log),
         \A v \in Int : v \in a .. a + SizeOf(d.log) - 1 => Lookalike(v)
  PROVE  Carried(d, dldiPatch(p, x, TRUE), b)
<1> DEFINE y == dldiPatch(p, x, TRUE)
<1>1. IsImage(y) /\ y.log = d.log /\ y.fix = d.fix /\ ~y.stub
  <2>1. PatchedShape(d, p, y)
    BY CarryShape
  <2>2. QED
    BY <2>1 DEF PatchedShape
<1>2. ASSUME NEW k \in WordsOf(d.log)
      PROVE  /\ k \in DOMAIN y.w /\ y.w[k] \in Int
             /\ k \notin HeaderWords => CarriedWord(d, y, b, k)
             /\ k \in HeaderWords => y.w[k] = d.w[k] + b - d.w[text_start]
  <2>1. k \in HeaderWords => d.w[k] + b - d.w[text_start] \notin a .. a + SizeOf(d.log) - 1
    BY DriverFacts
  <2>2. PatchedWord(d, a, p, y, b, k)
    BY CarryWord
  <2>3. QED
    BY <2>1, <2>2 DEF PatchedWord
<1> HIDE DEF y
<1>3. HeaderWords \subseteq WordsOf(d.log)
  BY DriverFacts
<1>4. Carried(d, y, b)
  BY <1>1, <1>2, <1>3 DEF Carried
<1>5. QED
  BY <1>4 DEF y

\* From a room to one before it, the driver arrives: what its header says of the
\* end of the driver may be moved twice there.
Delivered(d, y, b) ==
  /\ ~y.stub /\ y.w[text_start] = b
  /\ \A k \in DOMAIN d.w \ HeaderWords : ~Lookalike(d.w[k]) => y.w[k] = MovedTo(d, b)[k]

LEMMA CarryBefore ==
  ASSUME NEW d, ProperDriver(d), NEW a \in Int, NEW x, Carried(d, x, a),
         NEW p, NEW b \in Int, b = Address(p), WordsOf(d.log) \subseteq DOMAIN p.w,
         b + SizeOf(d.log) <= a,
         \A v \in Int : v \in a .. a + SizeOf(d.log) - 1 => Lookalike(v)
  PROVE  Delivered(d, dldiPatch(p, x, TRUE), b)
<1> DEFINE y == dldiPatch(p, x, TRUE)
<1>1. ~y.stub
  <2>1. PatchedShape(d, p, y)
    BY CarryShape
  <2>2. QED
    BY <2>1 DEF PatchedShape
<1>2. ASSUME NEW k \in WordsOf(d.log)
      PROVE  PatchedWord(d, a, p, y, b, k)
  BY CarryWord
<1> HIDE DEF y
<1>3. y.w[text_start] = b
  <2>1. text_start \in HeaderWords /\ text_start \in WordsOf(d.log)
    BY DriverFacts DEF text_start, HeaderWords
  <2>2. d.w[text_start] + b - d.w[text_start] = b
    BY DriverFacts
  <2>3. b \notin a .. a + SizeOf(d.log) - 1
    BY DriverFacts
  <2>4. QED
    BY <1>2, <2>1, <2>2, <2>3 DEF PatchedWord
<1>4. ASSUME NEW k \in WordsOf(d.log) \ HeaderWords, ~Lookalike(d.w[k])
      PROVE  y.w[k] = MovedTo(d, b)[k]
  <2>1. CarriedWord(d, y, b, k) /\ (Bss(d, k) => y.w[k] = 0)
    BY <1>2, <1>4 DEF PatchedWord
  <2>2. MovedTo(d, b)[k] = IF PointsInto(d, k) THEN d.w[k] + b - d.w[text_start]
                           ELSE IF Bss(d, k) THEN 0 ELSE d.w[k]
    BY <1>4, DriverFacts DEF MovedTo, Bss
  <2>3. QED
    BY <1>4, <2>1, <2>2 DEF CarriedWord
<1>5. Delivered(d, y, b)
  BY <1>1, <1>3, <1>4, DriverFacts DEF Delivered
<1>6. QED
  BY <1>5 DEF y

\* miniboot moves the driver into hbmenu, from behind its room; its variables
\* then hold anything.
LEMMA FirstCarry ==
  ASSUME NEW d, ProperDriver(d), NEW p, NEW b \in Int, b = p.w[text_start],
         WordsOf(d.log) \subseteq WordsOf(p.alloc),
         b + SizeOf(d.log) < d.w[text_start],
         NEW y, y = dldi_patch_relocate(p, d),
         NEW z, z = [y EXCEPT !.w = [k \in DOMAIN y.w |->
                                       IF Bss(d, k) THEN y.w[text_start] ELSE y.w[k]]]
  PROVE  Carried(d, z, b) /\ z.alloc = p.alloc
<1>1. PICK size \in Nat \ {0} : size = SizeOf(d.log)
  BY DriverFacts
<1>2. PICK s \in Int : s = d.w[text_start]
  BY DriverFacts
<1>3. PICK w : w = [i \in WordsOf(p.alloc) |-> IF i \in DOMAIN d.w THEN d.w[i] ELSE 0]
  OBVIOUS
<1>4. PICK x : x = [d EXCEPT !.alloc = p.alloc, !.w = w]
  OBVIOUS
<1>5. y = dldi_relocate(x, b)
  BY <1>3, <1>4 DEF dldi_patch_relocate
<1>6. IsImage(x) /\ x.log = d.log /\ x.fix = d.fix /\ ~x.stub /\ x.alloc = p.alloc /\ x.w = w
  BY <1>4, DriverFacts DEF IsImage
<1>7. \A k \in WordsOf(d.log) : k \in DOMAIN w /\ w[k] = d.w[k]
  BY <1>3, DriverFacts
<1>8. \A k \in HeaderWords : k \in DOMAIN w /\ x.w[k] = d.w[k] /\ d.w[k] \in Int
  BY <1>6, <1>7, DriverFacts
<1>9. HeaderInt(x) /\ HeaderWords \subseteq DOMAIN x.w
  BY <1>6, <1>8 DEF HeaderInt
<1>10. SameSections(x, d) /\ x.w[text_start] = s
  BY <1>2, <1>6, <1>8 DEF SameSections, HeaderWords, text_start, data_end, glue_start, glue_end,
     got_start, got_end, bss_start, bss_end
<1>11. PICK offset \in Int, space \in Int, end \in Int :
         offset = b - s /\ space = s + size /\ end = Extent(d)
  BY <1>1, <1>2, ExtentIs
<1>12. end = IF /\ x.w[bss_start] \in x.w[text_start] .. space - 1
                /\ x.w[bss_end] \in x.w[data_end] + 1 .. space
             THEN x.w[bss_end] ELSE x.w[data_end]
  <2>1. x.w[bss_start] = d.w[bss_start] /\ x.w[bss_end] = d.w[bss_end] /\ x.w[data_end] = d.w[data_end]
    BY <1>8 DEF HeaderWords, bss_start, bss_end, data_end
  <2>2. d.w[bss_start] \in Int /\ d.w[bss_end] \in Int /\ d.w[data_end] \in Int
    BY <1>8 DEF HeaderWords, bss_start, bss_end, data_end
  <2>3. Extent(d) = IF /\ d.w[bss_start] \in s .. s + size - 1
                       /\ d.w[bss_end] \in d.w[data_end] + 1 .. s + size
                    THEN d.w[bss_end] ELSE d.w[data_end]
    BY <1>1, <1>2, ExtentIs
  <2>4. QED
    BY <1>1, <1>10, <1>11, <2>1, <2>2, <2>3
<1>13. PICK w1 : w1 = MoveHeader(w, offset)
  OBVIOUS
<1>14. RelocatedTo(x, y, s, end, space, offset)
  <2>1. offset = b - x.w[text_start] /\ space = x.w[text_start] + SizeOf(x.log)
    BY <1>1, <1>6, <1>10, <1>11
  <2>2. RelocatedTo(x, dldi_relocate(x, b), x.w[text_start], end, space, offset)
    BY <1>6, <1>9, <1>12, <2>1, RelocateIs
  <2>3. QED
    BY <1>5, <1>10, <2>2
<1>15. y.w = Fixed(d, w1, 4, s, end, space, offset)
  <2>1. y.w = Fixed(x, w1, 4, s, end, space, offset)
    BY <1>6, <1>13, <1>14 DEF RelocatedTo
  <2>2. Fixed(x, w1, 4, s, end, space, offset) = Fixed(d, w1, 4, s, end, space, offset)
    BY <1>10, Zenon DEF SameSections, Fixed
  <2>3. QED
    BY <2>1, <2>2
<1>16. ASSUME NEW k \in WordsOf(d.log)
       PROVE  /\ k \in DOMAIN y.w /\ y.w[k] \in Int
              /\ k \in HeaderWords => y.w[k] = d.w[k] + b - s
              /\ k \notin HeaderWords => CarriedWord(d, y, b, k)
  <2>1. k \in DOMAIN w1 /\ w1[k] = IF k \in HeaderWords THEN d.w[k] + offset ELSE d.w[k]
    BY <1>7, <1>13 DEF MoveHeader
  <2>2. d.w[k] \in Int /\ k \in Nat
    BY DriverFacts
  <2>3. WordAt(w1, k)
    BY <1>11, <2>1, <2>2 DEF WordAt
  <2>4. 4 \in Steps /\ HeaderInt(d)
    BY DriverFacts DEF Steps
  <2>5. FixedAt(d, w1, Fixed(d, w1, 4, s, end, space, offset), 4, s, end, space, offset, k)
    BY <2>3, <2>4, FixedIs
  <2>6. FixedAt(d, w1, y.w, 4, s, end, space, offset, k)
    BY <1>15, <2>5
  <2>7. Pointer(d, k, d.w[k], s, end, space) <=> PointsInto(d, k)
    BY <1>1, <1>2, <1>11, PointerFacts
  <2>8. end <= space
    BY <1>1, <1>2, <1>11, ExtentIs
  <2>9. b + size < s
    BY <1>1, <1>2
  <2>10. ASSUME k \in HeaderWords PROVE y.w[k] = d.w[k] + b - s
    <3>1. d.w[k] \in s .. s + size /\ ~Bss(d, k)
      BY <1>1, <1>2, <2>10, DriverFacts, PointerFacts
    <3>2. w1[k] = d.w[k] + b - s /\ w1[k] \notin s .. end - 1 /\ w1[k] \notin s .. space - 1
      BY <1>11, <2>1, <2>2, <2>9, <2>10, <3>1
    <3>3. QED
      BY <2>6, <3>1, <3>2 DEF FixedAt
  <2>11. ASSUME k \notin HeaderWords, PointsInto(d, k) PROVE y.w[k] = d.w[k] + b - s
    <3>1. d.w[k] \in s .. s + size - 1 /\ ~Bss(d, k)
      BY <1>1, <1>2, <2>11, PointerFacts
    <3>2. w1[k] + offset \notin s .. end - 1 /\ w1[k] + offset \notin s .. space - 1
      BY <1>11, <2>1, <2>2, <2>9, <2>11, <3>1
    <3>3. y.w[k] = w1[k] + offset
      BY <2>1, <2>6, <2>7, <2>11, <3>1, <3>2 DEF FixedAt
    <3>4. QED
      BY <1>11, <2>1, <2>2, <2>11, <3>3
  <2>12. ASSUME k \notin HeaderWords, ~PointsInto(d, k), ~Bss(d, k) PROVE y.w[k] = d.w[k]
    BY <2>1, <2>6, <2>7, <2>12 DEF FixedAt
  <2>13. k \in DOMAIN y.w /\ y.w[k] \in Int
    BY <2>1, <2>6 DEF FixedAt
  <2>14. QED
    BY <1>2, <2>10, <2>11, <2>12, <2>13 DEF CarriedWord
<1>17. y.w[text_start] = b /\ text_start \in HeaderWords
  <2>1. text_start \in HeaderWords /\ text_start \in WordsOf(d.log)
    BY DriverFacts DEF text_start, HeaderWords
  <2>2. QED
    BY <1>2, <1>16, <2>1
<1>18. /\ IsImage(z) /\ z.log = d.log /\ z.fix = d.fix /\ ~z.stub /\ z.alloc = p.alloc
       /\ z.w = [k \in DOMAIN y.w |-> IF Bss(d, k) THEN b ELSE y.w[k]]
  BY <1>6, <1>14, <1>17 DEF RelocatedTo, IsImage
<1>19. ASSUME NEW k \in WordsOf(d.log)
       PROVE  /\ k \in DOMAIN z.w /\ z.w[k] \in Int
              /\ k \in HeaderWords => z.w[k] = d.w[k] + b - s
              /\ k \notin HeaderWords => CarriedWord(d, z, b, k)
  <2>1. k \in DOMAIN y.w /\ z.w[k] = IF Bss(d, k) THEN b ELSE y.w[k]
    BY <1>16, <1>18
  <2>2. (PointsInto(d, k) \/ k \in HeaderWords) => ~Bss(d, k)
    BY PointerFacts
  <2>3. QED
    BY <1>16, <1>18, <2>1, <2>2 DEF CarriedWord
<1>20. QED
  BY <1>2, <1>18, <1>19, DriverFacts DEF Carried

-----------------------------------------------------------------------------
\* The search for the room

Less == {p \in Nat \X Nat : p[1] < p[2]}

LEMMA LeastExists ==
  ASSUME NEW S, S \subseteq Nat, NEW k \in S
  PROVE  \E m \in S : \A j \in S : m <= j
<1>1. IsWellFoundedOn(Less, Nat)
  <2>1. OpToRel(<, Nat) = Less
    BY DEF OpToRel, Less
  <2>2. QED
    BY <2>1, NatLessThanWellFounded
<1>2. PICK m \in S : \A j \in S : ~(<<j, m>> \in Less)
  BY <1>1, WFMin
<1>3. ASSUME NEW j \in S PROVE m <= j
  <2>1. j \in Nat /\ m \in Nat
    OBVIOUS
  <2>2. ~(j < m)
    BY <1>2, <2>1 DEF Less
  <2>3. QED
    BY <2>1, <2>2
<1>4. QED
  BY <1>3

\* A room is found, unless the first word of the string alone stands so near
\* the end that the search ends there: before that, it has passed the room.
LEMMA QuickFinds ==
  ASSUME NEW data, NEW size \in Nat, NEW k \in 1 .. (size \div 4) - 2, MagicAt(data, k)
  PROVE  quickFind(data, size) >= 0
<1> DEFINE ends == {j \in 1 .. size \div 4 :
                      data[j] = "magic" /\ (4 * (j - 1) + 12 > size \/ MagicAt(data, j))}
           first == CHOOSE j \in ends : \A i \in ends : j <= i
<1>1. data[k] = "magic"
  <2>1. [j \in 1 .. 3 |-> data[k + j - 1]] = <<"magic", "chis", "hm">>
    BY DEF MagicAt, Magic
  <2>2. [j \in 1 .. 3 |-> data[k + j - 1]][1] = data[k + 1 - 1] /\ k + 1 - 1 = k
    OBVIOUS
  <2>3. QED
    BY <2>1, <2>2
<1>2. k \in ends
  BY <1>1
<1>3. ends \subseteq Nat
  OBVIOUS
<1>4. \E m \in ends : \A j \in ends : m <= j
  <2> HIDE DEF ends
  <2>1. QED
    BY <1>2, <1>3, LeastExists
<1>5. first \in ends /\ first <= k
  BY <1>2, <1>4
<1>6. quickFind(data, size) = IF ends # {} /\ 4 * (first - 1) + 12 <= size THEN 4 * (first - 1) ELSE -1
  BY DEF quickFind
<1>7. first \in Nat /\ first >= 1
  BY <1>5
<1> HIDE DEF ends, first
<1>8. 4 * (first - 1) + 12 <= size
  <2>1. 4 * (size \div 4) <= size
    OBVIOUS
  <2>2. first <= (size \div 4) - 2
    BY <1>5, <1>7
  <2>3. QED
    BY <1>7, <2>1, <2>2
<1>9. QED
  BY <1>2, <1>6, <1>7, <1>8

-----------------------------------------------------------------------------
\* The three relocations

LEMMA RoomFacts ==
  ASSUME NEW r, ProperRoom(r)
  PROVE  /\ r.alloc \in Logs /\ DOMAIN r.w = WordsOf(r.alloc)
         /\ SizeOf(r.alloc) \in Nat \ {0} /\ Address(r) \in Int /\ Address(r) # 0
<1>1. SizeOf(r.alloc) \in Nat \ {0} /\ SizeOf(r.alloc) >= 40
  BY SizesAssumption DEF ProperRoom, DO_code
<1>2. text_start \in WordsOf(r.alloc) /\ startup \in WordsOf(r.alloc)
  <2>1. PICK size \in Nat : size = SizeOf(r.alloc) /\ size >= 40
    BY <1>1
  <2>2. (size \div 4) - 1 >= 9
    BY <2>1
  <2>3. QED
    BY <2>1, <2>2 DEF WordsOf, text_start, startup
<1>3. r.w[text_start] \in Int /\ r.w[startup] \in Int
  BY <1>2 DEF ProperRoom
<1>4. QED
  BY <1>1, <1>3 DEF ProperRoom, Address, DO_code

\* A driver that fits a room occupies some of its words.
LEMMA Fits ==
  ASSUME NEW a \in Logs, NEW b \in Logs, a <= b
  PROVE  SizeOf(a) <= SizeOf(b) /\ WordsOf(a) \subseteq WordsOf(b)
<1>1. SizeOf(a) \in Nat /\ SizeOf(b) \in Nat /\ SizeOf(a) <= SizeOf(b)
  BY SizesAssumption
<1>2. PICK m \in Nat, n \in Nat : m = SizeOf(a) /\ n = SizeOf(b) /\ m <= n
  BY <1>1
<1>3. m \div 4 <= n \div 4
  BY <1>2
<1>4. QED
  BY <1>1, <1>2, <1>3 DEF WordsOf

\* Where the images lie, from the highest address down
LEMMA Places ==
  ASSUME NEW d \in Drivers
  PROVE  /\ ProperDriver(d) /\ ProperRoom(HbmenuRoom) /\ ProperRoom(LoaderRoom)
         /\ Address(HbmenuRoom) = HbmenuRoom.w[text_start]
         /\ Address(LoaderRoom) + SizeOf(LoaderRoom.alloc) <= d.w[text_start]
         /\ Address(HbmenuRoom) + SizeOf(HbmenuRoom.alloc) <= Address(LoaderRoom)
         /\ \A p \in ProgramRooms :
              ProperRoom(p) /\ Address(p) + SizeOf(p.alloc) <= Address(LoaderRoom)
BY LaunchAssumption DEF Apart, Address

LEMMA LookalikeIs ==
  ASSUME NEW room \in {HbmenuRoom, LoaderRoom}, ProperRoom(room), NEW d, ProperDriver(d),
         SizeOf(d.log) <= SizeOf(room.alloc),
         NEW v \in Int, v \in Address(room) .. Address(room) + SizeOf(d.log) - 1
  PROVE  Lookalike(v)
BY RoomFacts, DriverFacts DEF Lookalike

MenuPcs == {"menu", "browse", "fill", "stat", "pack", "patch", "failed"}

\* Where the driver has got to
CarryInv ==
  /\ driver \in Drivers /\ binary \in Binaries
  /\ pc = "boot" => hbmenu = HbmenuRoom
  /\ pc \in {"boot"} \cup MenuPcs => loader = LoaderRoom
  /\ pc \in MenuPcs =>
       driver.log <= HbmenuRoom.alloc /\ Carried(driver, hbmenu, Address(HbmenuRoom))
  /\ pc = "load" =>
       driver.log <= LoaderRoom.alloc /\ Carried(driver, loader, Address(LoaderRoom))
  /\ pc \notin {"arguments", "started"} => program \in ProgramRooms
  /\ pc \in {"arguments", "started"} /\ HasRoom /\ driver.log <= program.alloc =>
       Delivered(driver, program, Address(program))

LEMMA CarryBoot ==
  ASSUME CarryInv, MinibootPatch
  PROVE  CarryInv'
<1>1. /\ driver' = driver /\ binary' = binary /\ loader' = loader /\ program' = program
      /\ pc = "boot" /\ driver \in Drivers /\ hbmenu = HbmenuRoom /\ loader = LoaderRoom
      /\ program \in ProgramRooms /\ binary \in Binaries
  BY DEF MinibootPatch, Goto, CarryInv
<1>2. CASE pc' = "stopped"
  BY <1>1, <1>2 DEF CarryInv, MenuPcs
<1>3. CASE pc' = "menu"
  <2>1. EnoughSpace(hbmenu, driver)
    BY <1>3 DEF MinibootPatch, Goto
  <2>2. PICK d : d = driver
    OBVIOUS
  <2>3. PICK y : y = dldi_patch_relocate(HbmenuRoom, d)
    OBVIOUS
  <2>4. PICK z : z = [y EXCEPT !.w = [k \in DOMAIN y.w |->
                                        IF Bss(d, k) THEN y.w[text_start] ELSE y.w[k]]]
    OBVIOUS
  <2>5. hbmenu' = z
    BY <1>1, <1>3, <2>2, <2>3, <2>4 DEF MinibootPatch, Goto, Bss
  <2>6. Carried(d, z, Address(HbmenuRoom)) /\ d.log <= HbmenuRoom.alloc
    <3>1. d \in Drivers
      BY <1>1, <2>2
    <3>2. /\ ProperDriver(d) /\ ProperRoom(HbmenuRoom) /\ ProperRoom(LoaderRoom)
          /\ Address(HbmenuRoom) = HbmenuRoom.w[text_start]
          /\ Address(LoaderRoom) + SizeOf(LoaderRoom.alloc) <= d.w[text_start]
          /\ Address(HbmenuRoom) + SizeOf(HbmenuRoom.alloc) <= Address(LoaderRoom)
      BY <3>1, Places
    <3>3. d.log <= HbmenuRoom.alloc
      BY <1>1, <2>1, <2>2, <3>2, RoomFacts, DriverFacts DEF EnoughSpace, Logs
    <3>4. SizeOf(d.log) <= SizeOf(HbmenuRoom.alloc) /\ WordsOf(d.log) \subseteq WordsOf(HbmenuRoom.alloc)
      BY <3>2, <3>3, RoomFacts, DriverFacts, Fits
    <3>5. PICK b \in Int : b = HbmenuRoom.w[text_start] /\ b = Address(HbmenuRoom)
      BY <3>2, RoomFacts
    <3>6. b + SizeOf(d.log) < d.w[text_start]
      BY <3>2, <3>4, <3>5, RoomFacts, DriverFacts
    <3>7. Carried(d, z, b)
      BY <2>3, <2>4, <3>2, <3>4, <3>5, <3>6, FirstCarry
    <3>8. QED
      BY <3>3, <3>5, <3>7
  <2>7. Carried(driver, hbmenu, Address(HbmenuRoom))' /\ (driver.log <= HbmenuRoom.alloc)'
    BY <1>1, <2>2, <2>5, <2>6
  <2>8. QED
    BY <1>1, <1>3, <2>7 DEF CarryInv, MenuPcs
<1>4. QED
  BY <1>2, <1>3 DEF MinibootPatch, Goto

LEMMA CarryLoader ==
  ASSUME CarryInv, PatchLoader
  PROVE  CarryInv'
<1>1. /\ driver' = driver /\ binary' = binary /\ program' = program
      /\ pc = "patch" /\ driver \in Drivers /\ loader = LoaderRoom
      /\ program \in ProgramRooms /\ binary \in Binaries
      /\ driver.log <= HbmenuRoom.alloc /\ Carried(driver, hbmenu, Address(HbmenuRoom))
  BY DEF PatchLoader, Goto, CarryInv, MenuPcs
<1>2. CASE pc' = "stopped"
  BY <1>1, <1>2 DEF CarryInv, MenuPcs
<1>3. CASE pc' = "load"
  <2>1. Patchable(loader, hbmenu)
    BY <1>3 DEF PatchLoader, Goto
  <2>2. PICK d : d = driver
    OBVIOUS
  <2>3. PICK x : x = hbmenu
    OBVIOUS
  <2>4. PICK y : y = dldiPatch(LoaderRoom, x, TRUE)
    OBVIOUS
  <2>5. loader' = y
    BY <1>1, <1>3, <2>1, <2>3, <2>4 DEF PatchLoader, Goto
  <2>6. Carried(d, y, Address(LoaderRoom)) /\ d.log <= LoaderRoom.alloc
    <3>1. d \in Drivers
      BY <1>1, <2>2
    <3>2. /\ ProperDriver(d) /\ ProperRoom(HbmenuRoom) /\ ProperRoom(LoaderRoom)
          /\ Address(HbmenuRoom) + SizeOf(HbmenuRoom.alloc) <= Address(LoaderRoom)
      BY <3>1, Places
    <3>3. PICK a \in Int : a = Address(HbmenuRoom)
      BY <3>2, RoomFacts
    <3>4. PICK b \in Int : b = Address(LoaderRoom)
      BY <3>2, RoomFacts
    <3>5. d.log <= HbmenuRoom.alloc /\ Carried(d, x, a)
      BY <1>1, <2>2, <2>3, <3>3
    <3>6. d.log <= LoaderRoom.alloc
      BY <1>1, <2>1, <2>3, <3>5 DEF Patchable, Carried
    <3>7. SizeOf(d.log) <= SizeOf(HbmenuRoom.alloc)
      BY <3>2, <3>5, RoomFacts, DriverFacts, Fits
    <3>8. WordsOf(d.log) \subseteq DOMAIN LoaderRoom.w
      BY <3>2, <3>6, RoomFacts, DriverFacts, Fits
    <3>9. b >= a + SizeOf(d.log)
      BY <3>2, <3>3, <3>4, <3>7, RoomFacts, DriverFacts
    <3>10. \A v \in Int : v \in a .. a + SizeOf(d.log) - 1 => Lookalike(v)
      BY <3>2, <3>3, <3>7, LookalikeIs
    <3>11. Carried(d, y, b)
      BY <2>4, <3>2, <3>4, <3>5, <3>8, <3>9, <3>10, CarryBehind
    <3>12. QED
      BY <3>4, <3>6, <3>11
  <2>7. Carried(driver, loader, Address(LoaderRoom))' /\ (driver.log <= LoaderRoom.alloc)'
    BY <1>1, <2>2, <2>5, <2>6
  <2>8. QED
    BY <1>1, <1>3, <2>7 DEF CarryInv, MenuPcs
<1>4. QED
  BY <1>2, <1>3 DEF PatchLoader, Goto

LEMMA CarryProgram ==
  ASSUME CarryInv, PatchProgram
  PROVE  CarryInv'
<1>1. /\ driver' = driver /\ binary' = binary
      /\ pc = "load" /\ pc' = "arguments" /\ driver \in Drivers
      /\ program \in ProgramRooms /\ binary \in Binaries
      /\ driver.log <= LoaderRoom.alloc /\ Carried(driver, loader, Address(LoaderRoom))
  BY DEF PatchProgram, Goto, CarryInv, MenuPcs
<1>2. PICK d, x, p, y : d = driver /\ x = loader /\ p = program /\ y = dldiPatch(p, x, TRUE)
  OBVIOUS
<1>3. program' = IF quickFind(binary.words, binary.size) >= 0 /\ Patchable(p, x) THEN y ELSE p
  BY <1>2 DEF PatchProgram
<1>4. /\ ProperDriver(d) /\ ProperRoom(p) /\ ProperRoom(LoaderRoom)
      /\ Address(p) + SizeOf(p.alloc) <= Address(LoaderRoom)
  BY <1>1, <1>2, Places
<1>5. PICK a \in Int : a = Address(LoaderRoom)
  BY <1>4, RoomFacts
<1>6. PICK b \in Int : b = Address(p)
  BY <1>4, RoomFacts
<1>7. d.log <= LoaderRoom.alloc /\ Carried(d, x, a)
  BY <1>1, <1>2, <1>5
<1>8. y.alloc = p.alloc
  <2>1. PatchedShape(d, p, y)
    BY <1>2, <1>4, <1>6, <1>7, CarryShape
  <2>2. QED
    BY <2>1 DEF PatchedShape
<1>9. program'.alloc = p.alloc
  BY <1>3, <1>8
<1>10. ASSUME HasRoom, d.log <= p.alloc
       PROVE  program' = y /\ Delivered(d, y, Address(y))
  <2>1. quickFind(binary.words, binary.size) >= 0
    <3>1. PICK k \in 1 .. (binary.size \div 4) - 2 : MagicAt(binary.words, k)
      BY <1>10 DEF HasRoom
    <3>2. binary.size \in Nat
      BY <1>1, LaunchAssumption
    <3>3. PICK data : data = binary.words
      OBVIOUS
    <3>4. PICK size \in Nat : size = binary.size
      BY <3>2
    <3>5. quickFind(data, size) >= 0
      BY <3>1, <3>3, <3>4, QuickFinds
    <3>6. QED
      BY <3>3, <3>4, <3>5
  <2>2. Patchable(p, x)
    BY <1>7, <1>10 DEF Patchable, Carried
  <2>3. SizeOf(d.log) <= SizeOf(LoaderRoom.alloc)
    BY <1>4, <1>7, RoomFacts, DriverFacts, Fits
  <2>4. SizeOf(d.log) <= SizeOf(p.alloc) /\ WordsOf(d.log) \subseteq DOMAIN p.w
    BY <1>4, <1>10, RoomFacts, DriverFacts, Fits
  <2>5. b + SizeOf(d.log) <= a
    BY <1>4, <1>5, <1>6, <2>4, RoomFacts, DriverFacts
  <2>6. \A v \in Int : v \in a .. a + SizeOf(d.log) - 1 => Lookalike(v)
    BY <1>4, <1>5, <2>3, LookalikeIs
  <2>7. Delivered(d, y, b)
    BY <1>2, <1>4, <1>6, <1>7, <2>4, <2>5, <2>6, CarryBefore
  <2>8. Address(y) = b
    BY <1>4, <1>6, <2>7, RoomFacts DEF Delivered, Address
  <2>9. QED
    BY <1>3, <2>1, <2>2, <2>7, <2>8
<1>11. ASSUME HasRoom, (driver.log <= program.alloc)'
       PROVE  Delivered(driver, program, Address(program))'
  <2>1. program' = y /\ Delivered(d, y, Address(y))
    BY <1>1, <1>2, <1>9, <1>10, <1>11
  <2>2. QED
    BY <1>1, <1>2, <2>1
<1>12. HasRoom' = HasRoom
  BY <1>1 DEF HasRoom
<1>13. QED
  BY <1>1, <1>11, <1>12 DEF CarryInv, MenuPcs

\* The other steps leave the images alone.
LEMMA CarryKept ==
  ASSUME CarryInv, UNCHANGED images,
         \/ pc' = pc
         \/ pc \in MenuPcs /\ pc' \in MenuPcs
         \/ pc = "arguments" /\ pc' = "started"
  PROVE  CarryInv'
<1>1. /\ driver' = driver /\ binary' = binary /\ hbmenu' = hbmenu /\ loader' = loader
      /\ program' = program
  BY DEF images
<1>2. HasRoom' = HasRoom
  BY <1>1 DEF HasRoom
<1>3. QED
  BY <1>1, <1>2 DEF CarryInv, MenuPcs

LEMMA CarryAlways == Spec => []CarryInv
<1>1. Init => CarryInv
  BY DEF Init, CarryInv, MenuPcs
<1>2. CarryInv /\ [Next]_vars => CarryInv'
  <2> SUFFICES ASSUME CarryInv, [Next]_vars PROVE CarryInv'
    OBVIOUS
  <2>1. CASE MinibootPatch
    BY <2>1, CarryBoot
  <2>2. CASE PatchLoader
    BY <2>2, CarryLoader
  <2>3. CASE PatchProgram
    BY <2>3, CarryProgram
  <2>4. CASE Hotkey
    <3>1. UNCHANGED images /\ pc = "menu" /\ pc' \in {"fill", "browse"}
      BY <2>4 DEF Hotkey, Goto
    <3>2. QED
      BY <3>1, CarryKept DEF MenuPcs
  <2>5. CASE Browse
    <3>1. UNCHANGED images /\ pc' = pc
      BY <2>5 DEF Browse
    <3>2. QED
      BY <3>1, CarryKept
  <2>6. CASE Chosen
    <3>1. UNCHANGED images /\ pc = "browse" /\ pc' = "fill"
      BY <2>6 DEF Chosen, Goto
    <3>2. QED
      BY <3>1, CarryKept DEF MenuPcs
  <2>7. CASE FillArray
    <3>1. UNCHANGED images /\ pc = "fill" /\ pc' \in {"stat", "failed"}
      BY <2>7 DEF FillArray, Goto
    <3>2. QED
      BY <3>1, CarryKept DEF MenuPcs
  <2>8. CASE Stat
    <3>1. UNCHANGED images /\ pc = "stat" /\ pc' \in {"pack", "failed"}
      BY <2>8 DEF Stat, Goto
    <3>2. QED
      BY <3>1, CarryKept DEF MenuPcs
  <2>9. CASE PackArguments
    <3>1. UNCHANGED images /\ pc = "pack" /\ pc' = "patch"
      BY <2>9 DEF PackArguments, Goto
    <3>2. QED
      BY <3>1, CarryKept DEF MenuPcs
  <2>10. CASE PassArguments
    <3>1. UNCHANGED images /\ pc = "arguments" /\ pc' = "started"
      BY <2>10 DEF PassArguments, Goto
    <3>2. QED
      BY <3>1, CarryKept
  <2>11. CASE Continue
    <3>1. UNCHANGED images /\ pc = "failed" /\ pc' = "browse"
      BY <2>11 DEF Continue, Goto
    <3>2. QED
      BY <3>1, CarryKept DEF MenuPcs
  <2>12. CASE UNCHANGED vars
    <3>1. UNCHANGED images /\ pc' = pc
      BY <2>12 DEF vars
    <3>2. QED
      BY <3>1, CarryKept
  <2>13. QED
    BY <2>1, <2>2, <2>3, <2>4, <2>5, <2>6, <2>7, <2>8, <2>9, <2>10, <2>11, <2>12 DEF Next
<1>3. QED
  BY <1>1, <1>2, PTL DEF Spec

\* A program with room for the driver gets it, whole and moved once, for every
\* driver, room and binary (dldi_patch.c:19-86, nds_loader_arm9.c:159-265,
\* dldi_patcher.c:73-222).
THEOREM DriverMovedOnce == Spec => []RelocatedOnce
<1>1. CarryInv => RelocatedOnce
  BY DEF CarryInv, RelocatedOnce, Delivered
<1>2. QED
  BY <1>1, CarryAlways, PTL

-----------------------------------------------------------------------------
\* The cursor

\* A card with finitely many files lists finitely many entries.
LEMMA ListedFinite ==
  ASSUME IsFiniteSet(DOMAIN files), NEW dir
  PROVE  IsFiniteSet(Listed(dir))
<1> DEFINE prefix == Under(Located(dir, dir))
           below == {p \in DOMAIN files : IsPrefix(prefix, p) /\ p # prefix}
           rest(p) == SubSeq(p, Len(prefix) + 1, Len(p))
           slash(p) == SelectInSeq(rest(p), LAMBDA c : c = "/")
           Entry(p) == [name |-> IF slash(p) = 0 THEN rest(p) ELSE SubSeq(rest(p), 1, slash(p) - 1),
                        isDirectory |-> slash(p) # 0]
           up == IF IsSuffix(<<"/">>, dir) THEN {} ELSE {[name |-> Up, isDirectory |-> TRUE]}
           image == {Entry(p) : p \in below}
<1>1. Names(dir) = image \cup up
  BY DEF Names
<1> HIDE DEF Entry, up
<1>2. IsFiniteSet(below)
  BY FS_Subset
<1> HIDE DEF below
<1>3. IsFiniteSet(image)
  <2>1. [p \in below |-> Entry(p)] \in Surjection(below, image)
    BY DEF Surjection
  <2>2. QED
    BY <1>2, <2>1, FS_Surjection
<1>4. IsFiniteSet(up)
  BY FS_EmptySet, FS_Singleton DEF up
<1>5. IsFiniteSet(Names(dir))
  BY <1>1, <1>3, <1>4, FS_Union
<1>6. Listed(dir) \subseteq Names(dir)
  BY DEF Listed
<1>7. QED
  BY <1>5, <1>6, FS_Subset

LEMMA ContentsAre ==
  ASSUME IsFiniteSet(DOMAIN files), NEW dir
  PROVE  /\ Len(getDirectoryContents(dir)) \in Nat
         /\ DOMAIN getDirectoryContents(dir) = 1 .. Len(getDirectoryContents(dir))
         /\ getDirectoryContents(dir) # <<>> => Len(getDirectoryContents(dir)) > 0
<1>1. Cardinality(Listed(dir)) \in Nat
  BY ListedFinite, FS_CardinalityType
<1>2. PICK c \in Nat : c = Cardinality(Listed(dir))
  BY <1>1
<1> DEFINE e(n) == CHOOSE f \in Listed(dir) : Cardinality({g \in Listed(dir) : Before(g, f)}) = n - 1
<1>3. getDirectoryContents(dir) = [n \in 1 .. c |-> e(n)]
  BY <1>2 DEF getDirectoryContents
<1> HIDE DEF e
<1>4. Len([n \in 1 .. c |-> e(n)]) = c
  OBVIOUS
<1>5. c = 0 => [n \in 1 .. c |-> e(n)] = <<>>
  OBVIOUS
<1>6. QED
  BY <1>3, <1>4, <1>5

\* What is listed depends on the card alone.
LEMMA ContentsKept ==
  ASSUME files' = files, NEW dir
  PROVE  getDirectoryContents(dir)' = getDirectoryContents(dir)
<1>1. Names(dir)' = Names(dir)
  BY DEF Names, SelectInSeq
<1>2. argsGetExtensionList(files)' = argsGetExtensionList(files)
  BY DEF argsGetExtensionList
<1>3. Listed(dir)' = Listed(dir)
  BY <1>1, <1>2 DEF Listed
<1>4. QED
  BY <1>3 DEF getDirectoryContents

\* The cursor after a key is on an entry again, and the screen follows it.
LEMMA CursorIs ==
  ASSUME NEW pressed, fileOffset \in Int, Len(dirContents) \in Nat, Len(dirContents) > 0
  PROVE  Cursor(pressed) \in 0 .. Len(dirContents) - 1
<1>1. PICK n \in Nat : n = Len(dirContents) /\ n > 0
  OBVIOUS
<1> DEFINE step(key, m) == IF key \in pressed THEN m ELSE 0
           moved == fileOffset + step("down", 1) - step("up", 1)
                    + step("right", ENTRY_PAGE_LENGTH) - step("left", ENTRY_PAGE_LENGTH)
<1>2. moved \in Int
  BY ScreenAssumption
<1>3. Cursor(pressed) = IF moved < 0 THEN n - 1 ELSE IF moved >= n THEN 0 ELSE moved
  BY <1>1 DEF Cursor
<1> HIDE DEF moved
<1>4. QED
  BY <1>1, <1>2, <1>3

LEMMA ScrolledIs ==
  ASSUME screenOffset \in Int, NEW offset \in Int
  PROVE  /\ Scrolled(offset) \in Int
         /\ offset \in Scrolled(offset) .. Scrolled(offset) + ENTRIES_PER_SCREEN - 1
BY ScreenAssumption DEF Scrolled

\* The cursor is on an entry, the entry on the screen, and the screen shows the
\* current directory from screenOffset on.
CursorShown ==
  /\ fileOffset \in 0 .. Len(dirContents) - 1
  /\ fileOffset \in screenOffset .. screenOffset + ENTRIES_PER_SCREEN - 1
  /\ drawn = <<cwd, screenOffset>>
  /\ dirContents = getDirectoryContents(cwd)

BrowseInv ==
  /\ files \in Cards
  /\ at = "keys" => CursorShown /\ screenOffset \in Int /\ Len(dirContents) > 0

\* The two steps that show entries
LEMMA FirstShown ==
  ASSUME files \in Cards, files' = files, NEW dir, ShowFirst(dir)
  PROVE  BrowseInv'
<1>1. IsFiniteSet(DOMAIN files)
  BY LaunchAssumption DEF ProperCard
<1>2. /\ cwd' = dir /\ dirContents' = getDirectoryContents(dir)
      /\ fileOffset' = 0 /\ screenOffset' = 0 /\ drawn' = <<dir, 0>>
      /\ at' = "keys" => dirContents' # <<>>
  BY DEF ShowFirst
<1>3. PICK d : d = dir
  OBVIOUS
<1>4. getDirectoryContents(cwd)' = getDirectoryContents(d)
  <2>1. getDirectoryContents(d)' = getDirectoryContents(d)
    BY ContentsKept
  <2>2. cwd' = d
    BY <1>2, <1>3
  <2>3. QED
    BY <2>1, <2>2
<1>5. ASSUME at' = "keys" PROVE Len(dirContents') \in Nat /\ Len(dirContents') > 0
  <2>1. getDirectoryContents(d) # <<>> /\ dirContents' = getDirectoryContents(d)
    BY <1>2, <1>3, <1>5
  <2>2. QED
    BY <1>1, <2>1, ContentsAre
<1>6. ASSUME at' = "keys" PROVE CursorShown'
  <2>1. fileOffset' \in 0 .. Len(dirContents') - 1
    BY <1>2, <1>5, <1>6
  <2>2. fileOffset' \in screenOffset' .. screenOffset' + ENTRIES_PER_SCREEN - 1
    BY <1>2, ScreenAssumption
  <2>3. QED
    BY <1>2, <1>3, <1>4, <2>1, <2>2 DEF CursorShown
<1>7. QED
  BY <1>2, <1>5, <1>6 DEF BrowseInv

LEMMA PressShown ==
  ASSUME BrowseInv, NEW pressed, Press(pressed)
  PROVE  BrowseInv'
<1>1. /\ files \in Cards /\ files' = files /\ at = "keys"
      /\ CursorShown /\ screenOffset \in Int /\ Len(dirContents) > 0
  BY DEF BrowseInv, Press
<1>2. dirContents = getDirectoryContents(cwd)
  BY <1>1 DEF CursorShown
<1>3. Len(dirContents) \in Nat
  BY <1>1, <1>2, ContentsAre, LaunchAssumption DEF ProperCard
<1>4. fileOffset \in Int
  BY <1>1 DEF CursorShown
<1>5. PICK offset \in Int : offset = Cursor(pressed) /\ offset \in 0 .. Len(dirContents) - 1
  BY <1>1, <1>3, <1>4, CursorIs
<1>6. CASE /\ fileOffset' = offset /\ screenOffset' = Scrolled(offset)
           /\ drawn' = IF screenOffset' = screenOffset THEN drawn ELSE <<cwd, screenOffset'>>
           /\ UNCHANGED <<cwd, dirContents, at, chosen>>
  <2>1. /\ fileOffset' = offset /\ screenOffset' = Scrolled(offset)
        /\ drawn' = IF screenOffset' = screenOffset THEN drawn ELSE <<cwd, screenOffset'>>
        /\ cwd' = cwd /\ dirContents' = dirContents
    BY <1>6
  <2>2. PICK d : d = cwd
    OBVIOUS
  <2>3. getDirectoryContents(cwd)' = getDirectoryContents(cwd)
    <3>1. getDirectoryContents(d)' = getDirectoryContents(d)
      BY <1>1, ContentsKept
    <3>2. cwd' = d
      BY <2>1, <2>2
    <3>3. QED
      BY <2>2, <3>1, <3>2
  <2>4. fileOffset' \in 0 .. Len(dirContents') - 1
    BY <1>5, <2>1
  <2>5. screenOffset' \in Int /\ fileOffset' \in screenOffset' .. screenOffset' + ENTRIES_PER_SCREEN - 1
    BY <1>1, <2>1, ScrolledIs
  <2>6. drawn' = <<cwd', screenOffset'>>
    BY <1>1, <2>1 DEF CursorShown
  <2>7. CursorShown'
    BY <1>2, <2>1, <2>3, <2>4, <2>5, <2>6 DEF CursorShown
  <2>8. QED
    BY <1>1, <2>1, <2>5, <2>7 DEF BrowseInv
<1>7. CASE at' = "chosen"
  BY <1>1, <1>7 DEF BrowseInv
<1>8. CASE \E dir : ShowFirst(dir)
  BY <1>1, <1>8, FirstShown
<1>9. QED
  BY <1>5, <1>6, <1>7, <1>8 DEF Press

LEMMA BrowseKept ==
  ASSUME BrowseInv, [Next]_vars
  PROVE  BrowseInv'
<1>1. CASE Browse
  <2>1. CASE browseForFile
    <3>1. files \in Cards /\ files' = files /\ ShowFirst(cwd)
      BY <1>1, <2>1 DEF Browse, browseForFile, BrowseInv
    <3>2. QED
      BY <3>1, FirstShown
  <2>2. CASE \E pressed \in SUBSET Keys \ {{}} : Press(pressed)
    BY <2>2, PressShown
  <2>3. QED
    BY <1>1, <2>1, <2>2 DEF Browse
<1>2. CASE Chosen
  BY <1>2 DEF Chosen, Return, BrowseInv
<1>3. CASE UNCHANGED <<files, browser>>
  <2>1. /\ files' = files /\ cwd' = cwd /\ dirContents' = dirContents /\ at' = at
        /\ fileOffset' = fileOffset /\ screenOffset' = screenOffset /\ drawn' = drawn
    BY <1>3 DEF browser
  <2>2. PICK d : d = cwd
    OBVIOUS
  <2>3. getDirectoryContents(cwd)' = getDirectoryContents(cwd)
    <3>1. getDirectoryContents(d)' = getDirectoryContents(d)
      BY <2>1, ContentsKept
    <3>2. cwd' = d
      BY <2>1, <2>2
    <3>3. QED
      BY <2>2, <3>1, <3>2
  <2>4. CursorShown' <=> CursorShown
    BY <2>1, <2>3 DEF CursorShown
  <2>5. QED
    BY <2>1, <2>4 DEF BrowseInv
<1>4. CASE MinibootPatch \/ Hotkey \/ FillArray \/ Stat \/ PackArguments \/ PatchLoader
           \/ PatchProgram \/ PassArguments \/ Continue \/ UNCHANGED vars
  <2>1. UNCHANGED <<files, browser>>
    BY <1>4 DEF MinibootPatch, Hotkey, FillArray, Stat, PackArguments, PatchLoader,
       PatchProgram, PassArguments, Continue, vars
  <2>2. QED
    BY <1>3, <2>1
<1>5. QED
  BY <1>1, <1>2, <1>4 DEF Next

\* A file is returned in one step only, with A.
LEMMA ReturnedIs ==
  ASSUME BrowseInv, Next, at = "keys", at' = "chosen"
  PROVE  \E pressed : /\ Press(pressed) /\ cwd' = cwd /\ fileOffset' = Cursor(pressed)
                      /\ chosen' = dirContents[Cursor(pressed) + 1].name
                      /\ ~dirContents[Cursor(pressed) + 1].isDirectory
<1>1. Browse
  <2>1. at' = at \/ at' = "away" \/ Browse
    BY DEF Next, MinibootPatch, Hotkey, FillArray, Stat, PackArguments, PatchLoader,
       PatchProgram, PassArguments, Continue, Chosen, Return, browser
  <2>2. QED
    BY <2>1
<1>2. PICK pressed : Press(pressed)
  BY <1>1 DEF Browse, browseForFile
<1>3. \A dir : ~ShowFirst(dir)
  BY DEF ShowFirst
<1>4. QED
  BY <1>2, <1>3 DEF Press

\* Whatever was paged, wrapped and entered before, the file returned when A is
\* pressed without moving the cursor is the one whose row has the star, for cards,
\* directories and screens of every size (file_browse.cpp:160-218).
THEOREM StarredChosen == Spec => StarredReturned
<1>1. Init => BrowseInv
  BY DEF Init, BrowseInv
<1>2. BrowseInv /\ [Next]_vars => BrowseInv'
  BY BrowseKept
<1> DEFINE Step == at = "keys" /\ at' = "chosen" /\ fileOffset' = fileOffset =>
                     drawn[1] = cwd' /\ Starred.name = chosen' /\ ~Starred.isDirectory
<1>3. BrowseInv /\ [Next]_vars => [Step]_browser
  <2> SUFFICES ASSUME BrowseInv, Next, at = "keys", at' = "chosen", fileOffset' = fileOffset
               PROVE  drawn[1] = cwd' /\ Starred.name = chosen' /\ ~Starred.isDirectory
    BY DEF vars, browser
  <2>1. PICK pressed : /\ Press(pressed) /\ cwd' = cwd /\ fileOffset' = Cursor(pressed)
                       /\ chosen' = dirContents[Cursor(pressed) + 1].name
                       /\ ~dirContents[Cursor(pressed) + 1].isDirectory
    BY ReturnedIs
  <2>2. CursorShown /\ screenOffset \in Int /\ files \in Cards
    BY DEF BrowseInv
  <2>3. IsFiniteSet(DOMAIN files)
    BY <2>2, LaunchAssumption DEF ProperCard
  <2>4. PICK contents : contents = dirContents /\ contents = getDirectoryContents(cwd)
    BY <2>2 DEF CursorShown
  <2>5. DOMAIN contents = 1 .. Len(contents) /\ Len(contents) \in Nat
    BY <2>3, <2>4, ContentsAre
  <2>6. fileOffset \in 0 .. Len(contents) - 1
    BY <2>2, <2>4 DEF CursorShown
  <2>7. StarRow \in 0 .. ENTRIES_PER_SCREEN - 1 /\ screenOffset + StarRow + 1 = fileOffset + 1
    BY <2>2, ScreenAssumption DEF CursorShown, StarRow
  <2>8. drawn[1] = cwd /\ drawn[2] = screenOffset
    BY <2>2 DEF CursorShown
  <2>9. fileOffset + 1 \in DOMAIN contents
    BY <2>5, <2>6
  <2>10. Starred = contents[fileOffset + 1]
    BY <2>4, <2>7, <2>8, <2>9 DEF Starred
  <2>11. QED
    BY <2>1, <2>4, <2>8, <2>10
<1>4. QED
  BY <1>1, <1>2, <1>3, PTL DEF Spec, StarredReturned

-----------------------------------------------------------------------------
\* Paths

LEMMA MinIs ==
  ASSUME NEW S, S \subseteq Nat, NEW k \in S
  PROVE  Min(S) \in S /\ \A j \in S : Min(S) <= j
BY LeastExists DEF Min

\* The first character of s that ends a C string is the k-th.
FirstNul(s, k) ==
  k \in 1 .. Len(s) /\ s[k] = "NUL" /\ \A i \in 1 .. k - 1 : s[i] # "NUL"

\* A C string is all of the text or what is before its first NUL.
LEMMA CStringIs ==
  ASSUME NEW X, NEW s \in Seq(X)
  PROVE  \/ (\A i \in 1 .. Len(s) : s[i] # "NUL") /\ CString(s) = s
         \/ \E k : FirstNul(s, k) /\ CString(s) = SubSeq(s, 1, k - 1)
<1> DEFINE nuls == {i \in 1 .. Len(s) : s[i] = "NUL"}
           nul == IF nuls # {} THEN Min(nuls) ELSE 0
<1>1. CString(s) = IF nul = 0 THEN s ELSE SubSeq(s, 1, nul - 1)
  BY DEF CString, SelectInSeq
<1>2. CASE nuls = {}
  BY <1>1, <1>2
<1>3. CASE nuls # {}
  <2>1. nuls \subseteq Nat
    OBVIOUS
  <2>2. Min(nuls) \in nuls /\ \A j \in nuls : Min(nuls) <= j
    <3> HIDE DEF nuls
    <3>1. QED
      BY <1>3, <2>1, MinIs
  <2>3. PICK m : m = Min(nuls)
    OBVIOUS
  <2>4. m \in nuls /\ \A j \in nuls : m <= j
    BY <2>2, <2>3
  <2>5. FirstNul(s, m)
    BY <2>4 DEF FirstNul
  <2>6. CString(s) = SubSeq(s, 1, m - 1)
    <3>1. nul = m /\ m # 0
      BY <1>3, <2>3, <2>4
    <3>2. QED
      BY <1>1, <3>1
  <2>7. QED
    BY <2>5, <2>6
<1>4. QED
  BY <1>2, <1>3

LEMMA OneFirstNul ==
  ASSUME NEW s, Len(s) \in Nat, NEW k, NEW n, FirstNul(s, k), FirstNul(s, n)
  PROVE  k = n
<1>1. k \in 1 .. Len(s) /\ n \in 1 .. Len(s) /\ s[k] = "NUL" /\ s[n] = "NUL"
  BY DEF FirstNul
<1>2. ~(k < n) /\ ~(n < k)
  BY <1>1 DEF FirstNul
<1>3. QED
  BY <1>1, <1>2

LEMMA CStringOf ==
  ASSUME NEW s \in Seq(Chars)
  PROVE  CString(s) = s
<1>1. \A i \in 1 .. Len(s) : s[i] # "NUL"
  BY CharsAssumption
<1>2. QED
  BY <1>1, CStringIs DEF FirstNul

\* What is before the first NUL of a path behind a directory without one
LEMMA CStringCat ==
  ASSUME NEW b \in Seq(Chars), NEW X, NEW w \in Seq(X)
  PROVE  /\ CString(b \o w) = b \o CString(w)
         /\ CString(w) \in Seq(X)
         /\ CString(w) # <<>> => w # <<>> /\ CString(w)[1] = w[1]
<1> DEFINE Y == Chars \cup X
<1>1. b \in Seq(Y) /\ w \in Seq(Y)
  BY SeqMonotonic
<1>2. /\ b \o w \in Seq(Y) /\ Len(b \o w) = Len(b) + Len(w)
      /\ \A i \in 1 .. Len(b) : (b \o w)[i] = b[i] /\ b[i] # "NUL"
      /\ \A i \in 1 .. Len(w) : (b \o w)[Len(b) + i] = w[i]
  BY <1>1, CharsAssumption
<1> HIDE DEF Y
<1>3. CASE (\A i \in 1 .. Len(w) : w[i] # "NUL") /\ CString(w) = w
  <2>1. \A i \in 1 .. Len(b \o w) : (b \o w)[i] # "NUL"
    <3> SUFFICES ASSUME NEW i \in 1 .. Len(b) + Len(w) PROVE (b \o w)[i] # "NUL"
      BY <1>2
    <3>1. CASE i <= Len(b)
      BY <1>2, <3>1
    <3>2. CASE i > Len(b)
      <4>1. i - Len(b) \in 1 .. Len(w) /\ Len(b) + (i - Len(b)) = i
        BY <3>2
      <4>2. QED
        BY <1>2, <1>3, <4>1
    <3>3. QED
      BY <3>1, <3>2
  <2>2. CString(b \o w) = b \o w
    BY <1>2, <2>1, CStringIs DEF FirstNul
  <2>3. QED
    BY <1>3, <2>2
<1>4. ASSUME NEW k, FirstNul(w, k), CString(w) = SubSeq(w, 1, k - 1)
      PROVE  /\ CString(b \o w) = b \o CString(w)
             /\ CString(w) \in Seq(X)
             /\ CString(w) # <<>> => w # <<>> /\ CString(w)[1] = w[1]
  <2>1. k \in 1 .. Len(w)
    BY <1>4 DEF FirstNul
  <2>2. FirstNul(b \o w, Len(b) + k)
    <3>1. \A i \in 1 .. Len(b) + k - 1 : (b \o w)[i] # "NUL"
      <4> SUFFICES ASSUME NEW i \in 1 .. Len(b) + k - 1 PROVE (b \o w)[i] # "NUL"
        OBVIOUS
      <4>1. CASE i <= Len(b)
        BY <1>2, <4>1
      <4>2. CASE i > Len(b)
        <5>1. i - Len(b) \in 1 .. k - 1 /\ Len(b) + (i - Len(b)) = i
          BY <4>2, <2>1
        <5>2. w[i - Len(b)] # "NUL"
          BY <1>4, <5>1 DEF FirstNul
        <5>3. PICK j : j = i - Len(b)
          OBVIOUS
        <5>4. j \in 1 .. Len(w) /\ Len(b) + j = i
          BY <5>1, <5>3, <2>1
        <5>5. (b \o w)[Len(b) + j] = w[j]
          BY <1>2, <5>4
        <5>6. QED
          BY <5>2, <5>3, <5>4, <5>5
      <4>3. QED
        BY <4>1, <4>2, <2>1, <1>1
    <3>2. QED
      BY <1>2, <1>4, <2>1, <3>1 DEF FirstNul
  <2>3. CString(b \o w) = SubSeq(b \o w, 1, Len(b) + k - 1)
    <3>1. ~(\A i \in 1 .. Len(b \o w) : (b \o w)[i] # "NUL")
      BY <2>2 DEF FirstNul
    <3>2. PICK n : FirstNul(b \o w, n) /\ CString(b \o w) = SubSeq(b \o w, 1, n - 1)
      BY <1>2, <3>1, CStringIs
    <3>3. Len(b \o w) \in Nat
      BY <1>2
    <3>4. n = Len(b) + k
      BY <2>2, <3>2, <3>3, OneFirstNul
    <3>5. QED
      BY <3>2, <3>4, <2>1, <1>1
  <2>4. SubSeq(b \o w, 1, Len(b) + k - 1) = b \o SubSeq(w, 1, k - 1)
    <3>1. /\ SubSeq(b \o w, 1, Len(b) + k - 1) \in Seq(Y)
          /\ Len(SubSeq(b \o w, 1, Len(b) + k - 1)) = Len(b) + k - 1
          /\ \A i \in 1 .. Len(b) + k - 1 : SubSeq(b \o w, 1, Len(b) + k - 1)[i] = (b \o w)[i]
      BY <1>2, <2>1
    <3>2. /\ SubSeq(w, 1, k - 1) \in Seq(Y) /\ Len(SubSeq(w, 1, k - 1)) = k - 1
          /\ \A i \in 1 .. k - 1 : SubSeq(w, 1, k - 1)[i] = w[i]
      BY <1>1, <2>1
    <3>3. /\ b \o SubSeq(w, 1, k - 1) \in Seq(Y)
          /\ Len(b \o SubSeq(w, 1, k - 1)) = Len(b) + (k - 1)
          /\ \A i \in 1 .. Len(b) : (b \o SubSeq(w, 1, k - 1))[i] = b[i]
          /\ \A i \in 1 .. k - 1 : (b \o SubSeq(w, 1, k - 1))[Len(b) + i] = w[i]
      BY <1>1, <3>2, <2>1
    <3>4. ASSUME NEW i \in 1 .. Len(b) + k - 1
          PROVE  (b \o w)[i] = (b \o SubSeq(w, 1, k - 1))[i]
      <4>1. CASE i <= Len(b)
        BY <1>2, <3>3, <4>1
      <4>2. CASE i > Len(b)
        <5>1. PICK j : j = i - Len(b)
          OBVIOUS
        <5>2. j \in 1 .. k - 1 /\ j \in 1 .. Len(w) /\ Len(b) + j = i
          BY <4>2, <2>1, <5>1
        <5>3. QED
          BY <1>2, <3>3, <5>2
      <4>3. QED
        BY <4>1, <4>2, <2>1, <1>1
    <3>5. Len(b) + (k - 1) = Len(b) + k - 1
      BY <2>1
    <3> DEFINE p == SubSeq(b \o w, 1, Len(b) + k - 1)
               q == b \o SubSeq(w, 1, k - 1)
    <3>6. p \in Seq(Y) /\ q \in Seq(Y) /\ Len(p) = Len(q)
      BY <3>1, <3>3, <3>5
    <3>7. \A i \in 1 .. Len(p) : p[i] = q[i]
      BY <3>1, <3>4
    <3> HIDE DEF p, q
    <3>8. p = q
      BY <3>6, <3>7, SeqEqual
    <3>9. QED
      BY <3>8 DEF p, q
  <2>5. /\ SubSeq(w, 1, k - 1) \in Seq(X)
        /\ SubSeq(w, 1, k - 1) # <<>> => w # <<>> /\ SubSeq(w, 1, k - 1)[1] = w[1]
    BY <2>1
  <2>6. QED
    BY <1>4, <2>3, <2>4, <2>5
<1>5. QED
  BY <1>3, <1>4, CStringIs

LEMMA EndsInSlash ==
  ASSUME NEW X, NEW s \in Seq(X)
  PROVE  IsSuffix(<<"/">>, s) <=> s # <<>> /\ s[Len(s)] = "/"
<1> DEFINE one == <<"/">>
           r == Reverse(s)
           o == Reverse(one)
<1>1. IsSuffix(one, s) <=> Len(o) <= Len(r) /\ SubSeq(o, 1, Len(o)) = SubSeq(r, 1, Len(o))
  BY DEF IsSuffix, IsPrefix
<1>2. r \in Seq(X) /\ Len(r) = Len(s) /\ (Len(s) > 0 => r[1] = s[Len(s)])
  BY DEF Reverse
<1>3. o \in Seq({"/"}) /\ Len(o) = 1 /\ o[1] = "/"
  BY DEF Reverse
<1> HIDE DEF r, o
<1>4. SubSeq(o, 1, 1) \in Seq({"/"}) /\ Len(SubSeq(o, 1, 1)) = 1 /\ SubSeq(o, 1, 1)[1] = "/"
  BY <1>3
<1>5. CASE Len(s) = 0
  <2>1. s = <<>>
    BY <1>5
  <2>2. QED
    BY <1>1, <1>2, <1>3, <1>5, <2>1
<1>6. CASE Len(s) > 0
  <2>1. SubSeq(r, 1, 1) \in Seq(X) /\ Len(SubSeq(r, 1, 1)) = 1 /\ SubSeq(r, 1, 1)[1] = s[Len(s)]
    BY <1>2, <1>6
  <2>2. SubSeq(o, 1, 1) = SubSeq(r, 1, 1) <=> s[Len(s)] = "/"
    <3> DEFINE a == SubSeq(o, 1, 1)
               b == SubSeq(r, 1, 1)
    <3>1. a \in Seq({"/"} \cup X) /\ b \in Seq({"/"} \cup X)
      BY <1>4, <2>1, SeqMonotonic
    <3>2. Len(a) = 1 /\ Len(b) = 1 /\ a[1] = "/" /\ b[1] = s[Len(s)]
      BY <1>4, <2>1
    <3> HIDE DEF a, b
    <3>3. a[1] = b[1] => a = b
      <4>1. SUFFICES ASSUME a[1] = b[1] PROVE a = b
        OBVIOUS
      <4>2. \A i \in 1 .. Len(a) : a[i] = b[i]
        BY <3>2, <4>1
      <4>3. QED
        BY <3>1, <3>2, <4>2, SeqEqual
    <3>4. a = b <=> s[Len(s)] = "/"
      BY <3>2, <3>3
    <3>5. QED
      BY <3>4 DEF a, b
  <2>3. s # <<>>
    BY <1>6
  <2>4. QED
    BY <1>1, <1>2, <1>3, <1>6, <2>2, <2>3
<1>7. QED
  BY <1>5, <1>6

\* A working directory, and a path in one
IsDir(dir) == dir \in Seq(Chars) /\ Len(dir) >= 2 /\ dir[1] = "fat:" /\ dir[2] = "/"

LEMMA UnderIs ==
  ASSUME NEW dir \in Seq(Chars), dir # <<>>
  PROVE  /\ Under(dir) \in Seq(Chars) /\ Len(Under(dir)) >= Len(dir)
         /\ Under(dir)[Len(Under(dir))] = "/"
         /\ Under(dir)[1] = dir[1] /\ \A i \in 1 .. Len(dir) : Under(dir)[i] = dir[i]
<1>0. "/" \in Chars /\ <<"/">> \in Seq(Chars) /\ Len(dir) \in Nat \ {0}
  <2>1. "/" \in Chars
    BY CharsAssumption
  <2>2. Len(dir) \in Nat \ {0}
    BY EmptySeq
  <2>3. QED
    BY <2>1, <2>2
<1>1. CASE IsSuffix(<<"/">>, dir)
  <2>1. Under(dir) = dir
    <3>1. Under(dir) = dir \o <<>>
      BY <1>1 DEF Under
    <3>2. QED
      BY <3>1, ConcatEmptySeq
  <2>2. QED
    BY <1>0, <1>1, <2>1, EndsInSlash
<1>2. CASE ~IsSuffix(<<"/">>, dir)
  <2>1. Under(dir) = dir \o <<"/">>
    BY <1>2 DEF Under
  <2>2. QED
    BY <1>0, <2>1
<1>3. QED
  BY <1>1, <1>2

\* A path from the root, with or without its device
Whole(w) == w # <<>> /\ (w[1] = "/" \/ (Len(w) >= 2 /\ w[1] = "fat:" /\ w[2] = "/"))

LEMMA PrefixOf ==
  ASSUME NEW X, NEW r \in Seq(X), NEW w \in Seq(X)
  PROVE  IsPrefix(r, w) <=> Len(r) <= Len(w) /\ \A i \in 1 .. Len(r) : r[i] = w[i]
<1>1. PICK n \in Nat : n = Len(r)
  OBVIOUS
<1>2. CASE n > Len(w)
  BY <1>1, <1>2 DEF IsPrefix
<1>3. CASE n <= Len(w)
  <2> DEFINE a == SubSeq(r, 1, n)
             b == SubSeq(w, 1, n)
  <2>1. /\ a \in Seq(X) /\ Len(a) = n /\ (\A i \in 1 .. n : a[i] = r[i])
        /\ b \in Seq(X) /\ Len(b) = n /\ (\A i \in 1 .. n : b[i] = w[i])
    BY <1>1, <1>3
  <2>2. IsPrefix(r, w) <=> a = b
    BY <1>1, <1>3 DEF IsPrefix
  <2> HIDE DEF a, b
  <2>3. a = b <=> \A i \in 1 .. n : a[i] = b[i]
    BY <2>1, SeqEqual
  <2>4. QED
    BY <1>1, <1>3, <2>1, <2>2, <2>3
<1>4. QED
  BY <1>1, <1>2, <1>3

LEMMA WholeIs ==
  ASSUME NEW X, NEW w \in Seq(X)
  PROVE  IsAbsolute(w) <=> Whole(w)
<1>1. PICK Y : Y = X \cup {"/", "fat:"}
  OBVIOUS
<1>2. w \in Seq(Y)
  BY <1>1, SeqMonotonic
<1>3. PICK r \in Seq(Y) : r = <<"/">> /\ Len(r) = 1 /\ r[1] = "/"
  <2>1. "/" \in Y
    BY <1>1
  <2>2. <<"/">> \in Seq(Y) /\ Len(<<"/">>) = 1 /\ <<"/">>[1] = "/"
    BY <2>1
  <2>3. QED
    BY <2>2
<1>4. PICK s \in Seq(Y) : s = <<"fat:", "/">> /\ Len(s) = 2 /\ s[1] = "fat:" /\ s[2] = "/"
  <2>1. "/" \in Y /\ "fat:" \in Y
    BY <1>1
  <2>2. <<"fat:", "/">> \in Seq(Y)
    BY <2>1
  <2>3. Len(<<"fat:", "/">>) = 2 /\ <<"fat:", "/">>[1] = "fat:" /\ <<"fat:", "/">>[2] = "/"
    OBVIOUS
  <2>4. QED
    BY <2>2, <2>3
<1>5. IsPrefix(r, w) <=> Len(w) >= 1 /\ w[1] = "/"
  <2>1. IsPrefix(r, w) <=> Len(r) <= Len(w) /\ \A i \in 1 .. Len(r) : r[i] = w[i]
    BY <1>2, PrefixOf
  <2>2. 1 .. 1 = {1}
    OBVIOUS
  <2>3. QED
    BY <1>2, <1>3, <2>1, <2>2
<1>6. IsPrefix(s, w) <=> Len(w) >= 2 /\ w[1] = "fat:" /\ w[2] = "/"
  <2>1. IsPrefix(s, w) <=> Len(s) <= Len(w) /\ \A i \in 1 .. Len(s) : s[i] = w[i]
    BY <1>2, PrefixOf
  <2>2. 1 .. 2 = {1, 2}
    OBVIOUS
  <2>3. QED
    BY <1>2, <1>4, <2>1, <2>2
<1>7. w # <<>> <=> Len(w) >= 1
  <2>1. w # <<>> => Len(w) \in Nat \ {0}
    BY EmptySeq
  <2>2. Len(<<>>) = 0
    OBVIOUS
  <2>3. QED
    BY <2>1, <2>2
<1>8. Len(w) >= 2 => Len(w) >= 1
  OBVIOUS
<1>9. QED
  BY <1>3, <1>4, <1>5, <1>6, <1>7, <1>8 DEF IsAbsolute, Whole

LEMMA AbsIs ==
  ASSUME NEW X, NEW w \in Seq(X), NEW dir
  PROVE  /\ w = <<>> \/ Whole(w) => toAbsPath(w, dir) = w
         /\ ~(w = <<>> \/ Whole(w)) => toAbsPath(w, dir) = Under(dir) \o w
BY WholeIs DEF toAbsPath

\* An absolute path stays what it is, with and without its device.
LEMMA LocatedAbs ==
  ASSUME NEW X, NEW w \in Seq(X), NEW dir, IsDir(dir),
         NEW paths, \A p \in paths : IsPath(p),
         Located(toAbsPath(w, dir), dir) \in paths
  PROVE  Located(w, dir) = Located(toAbsPath(w, dir), dir)
<1>1. CASE w = <<>> \/ Whole(w)
  BY <1>1, AbsIs
<1>2. CASE ~(w = <<>> \/ Whole(w))
  <2> DEFINE b == Under(dir)
             c == CString(w)
  <2>1. b \in Seq(Chars) /\ Len(b) >= 2 /\ b[Len(b)] = "/" /\ b[1] = "fat:" /\ b[2] = "/"
    <3>1. /\ b \in Seq(Chars) /\ Len(b) >= Len(dir) /\ b[Len(b)] = "/"
          /\ \A i \in 1 .. Len(dir) : b[i] = dir[i]
      BY UnderIs DEF IsDir
    <3> HIDE DEF b
    <3>2. QED
      BY <3>1 DEF IsDir
  <2>2. toAbsPath(w, dir) = b \o w
    BY <1>2, AbsIs
  <2>3. CString(b \o w) = b \o c /\ c \in Seq(X) /\ (c # <<>> => c[1] = w[1])
    BY <2>1, CStringCat
  <2>4. PICK d, e : d = b /\ e = c
    OBVIOUS
  <2> HIDE DEF b, c
  <2>5. PICK t : t = d \o e
    OBVIOUS
  <2>6. /\ t \in Seq(Chars \cup X) /\ Len(t) = Len(d) + Len(e)
        /\ \A i \in 1 .. Len(d) : t[i] = d[i]
        /\ \A i \in 1 .. Len(e) : t[Len(d) + i] = e[i]
    <3>1. d \in Seq(Chars \cup X) /\ e \in Seq(Chars \cup X)
      BY <2>1, <2>3, <2>4, SeqMonotonic
    <3>2. QED
      BY <2>5, <3>1
  <2>7. PICK n \in Nat : n = Len(d) /\ n >= 2
    BY <2>1, <2>4
  <2>8. PICK m \in Nat : m = Len(e)
    BY <2>3, <2>4
  <2>9. /\ Tail(t) \in Seq(Chars \cup X) /\ Len(Tail(t)) = n + m - 1
        /\ \A i \in 1 .. n + m - 1 : Tail(t)[i] = t[i + 1]
    BY <2>6, <2>7, <2>8
  <2>10. t # <<>> /\ t[1] = "fat:" /\ Tail(t) # <<>> /\ Tail(t)[1] = "/"
    <3>1. 1 \in 1 .. Len(d) /\ 2 \in 1 .. Len(d) /\ 1 \in 1 .. n + m - 1
      BY <2>7, <2>8
    <3>2. t[1] = "fat:" /\ t[2] = "/"
      BY <2>1, <2>4, <2>6, <3>1
    <3>3. Tail(t)[1] = t[1 + 1]
      BY <2>9, <3>1
    <3>4. n + m # 0 /\ n + m - 1 # 0
      BY <2>7, <2>8
    <3>5. Len(t) = n + m /\ Len(<<>>) = 0
      BY <2>6, <2>7, <2>8
    <3>6. t # <<>> /\ Tail(t) # <<>>
      BY <2>9, <3>4, <3>5
    <3>7. QED
      BY <3>2, <3>3, <3>6
  <2>11. Located(b \o w, dir) = Tail(t)
    BY <2>3, <2>4, <2>5, <2>10 DEF Located, OnDevice
  <2>12. IsPath(Tail(t))
    BY <2>2, <2>11
  <2>13. m # 0
    <3> SUFFICES ASSUME m = 0 PROVE FALSE
      OBVIOUS
    <3>1. n - 1 \in DOMAIN Tail(t) /\ Tail(t)[n - 1] = "/" /\ Len(Tail(t)) = n - 1
      BY <2>1, <2>4, <2>6, <2>7, <2>9
    <3>2. n - 1 < Len(Tail(t))
      BY <2>12, <3>1 DEF IsPath
    <3>3. QED
      BY <2>7, <3>1, <3>2
  <2>14. e # <<>> /\ e[1] = w[1]
    BY <2>3, <2>4, <2>8, <2>13
  <2>15. e[1] # "fat:"
    <3>1. n \in DOMAIN Tail(t) /\ Tail(t)[n] = e[1]
      BY <2>6, <2>7, <2>8, <2>9, <2>13
    <3>2. QED
      BY <2>12, <3>1 DEF IsPath
  <2>16. e[1] # "/"
    BY <1>2, <2>14 DEF Whole
  <2>17. Located(w, dir) = Tail(d) \o e
    <3>1. d # <<>> /\ d[1] = "fat:"
      BY <2>1, <2>4, EmptySeq
    <3>2. QED
      BY <2>4, <2>14, <2>15, <2>16, <3>1 DEF Located, OnDevice, b, c
  <2>18. Tail(d) \o e = Tail(t)
    <3>1. PICK s : s = Tail(d)
      OBVIOUS
    <3>2. s \in Seq(Chars \cup X) /\ Len(s) = n - 1 /\ \A i \in 1 .. n - 1 : s[i] = d[i + 1]
      <4>1. d \in Seq(Chars \cup X)
        BY <2>1, <2>4, SeqMonotonic
      <4>2. QED
        BY <2>7, <3>1, <4>1
    <3>3. e \in Seq(Chars \cup X)
      BY <2>3, <2>4, SeqMonotonic
    <3>4. PICK q : q = s \o e
      OBVIOUS
    <3>5. /\ q \in Seq(Chars \cup X) /\ Len(q) = Len(s) + Len(e)
          /\ \A i \in 1 .. Len(s) : q[i] = s[i]
          /\ \A i \in 1 .. Len(e) : q[Len(s) + i] = e[i]
      <4>1. PICK Y : Y = Chars \cup X
        OBVIOUS
      <4>2. s \in Seq(Y) /\ e \in Seq(Y)
        BY <3>2, <3>3, <4>1
      <4>3. /\ s \o e \in Seq(Y) /\ Len(s \o e) = Len(s) + Len(e)
            /\ \A i \in 1 .. Len(s) : (s \o e)[i] = s[i]
            /\ \A i \in 1 .. Len(e) : (s \o e)[Len(s) + i] = e[i]
        BY <4>2
      <4>4. QED
        BY <3>4, <4>1, <4>3
    <3>6. PICK l \in Nat : l = n - 1
      BY <2>7
    <3>7. /\ Len(q) = l + m /\ n + m - 1 = l + m
          /\ \A i \in 1 .. l : q[i] = d[i + 1]
          /\ \A i \in 1 .. m : q[l + i] = e[i]
      BY <2>7, <2>8, <3>2, <3>5, <3>6
    <3>8. ASSUME NEW i \in 1 .. l + m PROVE q[i] = Tail(t)[i]
      <4>1. Tail(t)[i] = t[i + 1]
        BY <2>9, <3>7
      <4>2. CASE i <= l
        <5>1. i \in 1 .. l /\ i + 1 \in 1 .. Len(d)
          BY <2>7, <3>6, <4>2
        <5>2. QED
          BY <2>6, <3>7, <4>1, <5>1
      <4>3. CASE i > l
        <5>1. PICK j \in 1 .. m : i = l + j /\ i + 1 = n + j
          <6>1. i - l \in 1 .. m /\ i = l + (i - l) /\ i + 1 = n + (i - l)
            BY <2>7, <2>8, <3>6, <4>3
          <6>2. QED
            BY <6>1
        <5>2. q[i] = e[j]
          BY <3>7, <5>1
        <5>3. t[n + j] = e[j]
          BY <2>6, <2>7, <2>8
        <5>4. QED
          BY <4>1, <5>1, <5>2, <5>3
      <4>4. i <= l \/ i > l
        <5>1. i \in Int
          OBVIOUS
        <5>2. QED
          BY <3>6, <5>1
      <4>5. QED
        BY <4>2, <4>3, <4>4
    <3>9. Len(q) = Len(Tail(t)) /\ \A i \in 1 .. Len(q) : q[i] = Tail(t)[i]
      BY <2>9, <3>7, <3>8
    <3>10. q = Tail(t)
      BY <2>9, <3>5, <3>9, SeqEqual
    <3>11. QED
      BY <3>1, <3>4, <3>10
  <2>19. QED
    BY <2>2, <2>11, <2>17, <2>18
<1>3. QED
  BY <1>1, <1>2

-----------------------------------------------------------------------------
\* Listings

\* In a strict order each number of predecessors is some element's.
LEMMA RankExists ==
  ASSUME NEW S, IsFiniteSet(S), NEW R,
         \A a \in S : <<a, a>> \notin R,
         \A a, b \in S : a # b => <<a, b>> \in R \/ <<b, a>> \in R,
         \A a, b, c \in S : <<a, b>> \in R /\ <<b, c>> \in R => <<a, c>> \in R,
         NEW n \in 1 .. Cardinality(S)
  PROVE  \E e \in S : Cardinality({f \in S : <<f, e>> \in R}) = n - 1
<1> DEFINE below(e) == {f \in S : <<f, e>> \in R}
           N == Cardinality(S)
           r == [e \in S |-> Cardinality(below(e))]
<1>1. N \in Nat
  BY FS_CardinalityType
<1>2. \A e \in S : IsFiniteSet(below(e)) /\ Cardinality(below(e)) \in Nat
  <2> TAKE e \in S
  <2>1. below(e) \in SUBSET S
    OBVIOUS
  <2> HIDE DEF below
  <2>2. QED
    BY <2>1, FS_Subset, FS_CardinalityType
<1>3. \A e \in S : Cardinality(below(e)) \in 0 .. N - 1
  <2> TAKE e \in S
  <2>1. below(e) \in SUBSET S /\ below(e) # S
    OBVIOUS
  <2> HIDE DEF below
  <2>2. Cardinality(below(e)) <= N /\ Cardinality(below(e)) # N
    BY <2>1, FS_Subset
  <2>3. QED
    BY <1>1, <1>2, <2>2
<1>4. \A d, e \in S : <<d, e>> \in R => Cardinality(below(d)) < Cardinality(below(e))
  <2> SUFFICES ASSUME NEW d \in S, NEW e \in S, <<d, e>> \in R
               PROVE  Cardinality(below(d)) < Cardinality(below(e))
    OBVIOUS
  <2>1. below(d) \in SUBSET below(e) /\ below(d) # below(e)
    OBVIOUS
  <2> HIDE DEF below
  <2>2. Cardinality(below(d)) <= Cardinality(below(e)) /\ Cardinality(below(d)) # Cardinality(below(e))
    BY <1>2, <2>1, FS_Subset
  <2>3. QED
    BY <1>2, <2>2
<1>5. r \in [S -> 0 .. N - 1]
  BY <1>3
<1>6. \A d, e \in S : r[d] = r[e] => d = e
  <2> SUFFICES ASSUME NEW d \in S, NEW e \in S, d # e PROVE r[d] # r[e]
    OBVIOUS
  <2>1. <<d, e>> \in R \/ <<e, d>> \in R
    OBVIOUS
  <2>2. r[d] = Cardinality(below(d)) /\ r[e] = Cardinality(below(e))
    OBVIOUS
  <2> HIDE DEF r, below
  <2>3. Cardinality(below(d)) < Cardinality(below(e)) \/ Cardinality(below(e)) < Cardinality(below(d))
    BY <1>4, <2>1
  <2>4. Cardinality(below(d)) \in Nat /\ Cardinality(below(e)) \in Nat
    BY <1>2
  <2>5. QED
    BY <2>2, <2>3, <2>4
<1>7. r \in Injection(S, 0 .. N - 1)
  <2> HIDE DEF r
  <2>1. QED
    BY <1>5, <1>6 DEF Injection, IsInjective
<1>8. IsFiniteSet(0 .. N - 1) /\ Cardinality(0 .. N - 1) = N
  <2> HIDE DEF N
  <2>1. PICK m \in Int : m = N - 1 /\ m + 1 = N /\ m >= -1
    BY <1>1
  <2>2. /\ IsFiniteSet(0 .. m)
        /\ Cardinality(0 .. m) = IF 0 > m THEN 0 ELSE m - 0 + 1
    BY FS_Interval
  <2>3. Cardinality(0 .. m) = m + 1
    BY <2>1, <2>2
  <2>4. QED
    BY <2>1, <2>2, <2>3
<1>9. r \in Surjection(S, 0 .. N - 1)
  BY <1>7, <1>8, FS_Injection
<1>10. n - 1 \in 0 .. N - 1
  BY <1>1
<1>11. PICK e \in S : r[e] = n - 1
  <2> HIDE DEF r, N
  <2>1. QED
    BY <1>9, <1>10 DEF Surjection
<1>12. QED
  BY <1>11

LEMMA SubSeqIs ==
  ASSUME NEW X, NEW s \in Seq(X), NEW i \in 0 .. Len(s), NEW j \in i .. Len(s)
  PROVE  /\ SubSeq(s, i + 1, j) \in Seq(X) /\ Len(SubSeq(s, i + 1, j)) = j - i
         /\ \A k \in 1 .. j - i : SubSeq(s, i + 1, j)[k] = s[i + k]
<1>1. \A k \in i + 1 .. j : s[k] \in X
  OBVIOUS
<1>2. /\ SubSeq(s, i + 1, j) \in Seq(X)
      /\ Len(SubSeq(s, i + 1, j)) = IF i + 1 <= j THEN j - (i + 1) + 1 ELSE 0
      /\ \A k \in 1 .. j - (i + 1) + 1 : SubSeq(s, i + 1, j)[k] = s[(i + 1) + k - 1]
  BY <1>1, SubSeqProperties
<1>3. (IF i + 1 <= j THEN j - (i + 1) + 1 ELSE 0) = j - i /\ j - (i + 1) + 1 = j - i
  OBVIOUS
<1>4. ASSUME NEW k \in 1 .. j - i PROVE SubSeq(s, i + 1, j)[k] = s[i + k]
  <2>1. k \in 1 .. j - (i + 1) + 1 /\ (i + 1) + k - 1 = i + k
    OBVIOUS
  <2>2. QED
    BY <1>2, <2>1
<1>5. QED
  BY <1>2, <1>3, <1>4

\* A name in a path
IsName(name) ==
  /\ name \in Seq(Chars) /\ name # <<>> /\ name[1] # "/"
  /\ \A i \in 1 .. Len(name) : name[i] # "fat:" /\ name[i] # "/"

\* What is behind a slash of a path, up to the next one, is a name.
LEMMA NameIs ==
  ASSUME NEW card, ProperCard(card), NEW p \in DOMAIN card,
         NEW i \in 1 .. Len(p), NEW j \in 1 .. Len(p), p[i] = "/", i < j,
         j = Len(p) \/ p[j + 1] = "/",
         \A k \in i + 1 .. j : p[k] # "/"
  PROVE  IsName(SubSeq(p, i + 1, j)) /\ SubSeq(p, i + 1, j) \in Range(Order)
<1>0. IsPath(p) /\ p \in Seq(Chars)
  BY DEF ProperCard, IsPath
<1>1. IsPath(p) /\ p \in Seq(Chars) /\ DOMAIN p = 1 .. Len(p)
  BY <1>0
<1>2. SubSeq(p, i + 1, j) \in Range(Order)
  BY <1>1 DEF ProperCard
<1> DEFINE s == SubSeq(p, i + 1, j)
<1>3. s \in Seq(Chars) /\ Len(s) = j - i /\ \A k \in 1 .. j - i : s[k] = p[i + k]
  BY <1>0, SubSeqIs
<1> HIDE DEF s
<1>4. s[1] = p[i + 1] /\ s # <<>> /\ p[i + 1] # "/"
  BY <1>3
<1>5. \A k \in 1 .. Len(s) : s[k] # "fat:" /\ s[k] # "/"
  <2> TAKE k \in 1 .. Len(s)
  <2>1. k \in 1 .. j - i
    BY <1>3
  <2>2. s[k] = p[i + k]
    BY <1>3, <2>1
  <2>3. i + k \in 1 .. Len(p)
    BY <2>1, <1>0
  <2>4. i + k \in i + 1 .. j
    BY <2>1
  <2>5. QED
    BY <1>1, <2>2, <2>3, <2>4 DEF IsPath
<1>6. QED
  BY <1>2, <1>3, <1>4, <1>5 DEF IsName, s

\* The first place of character c in s, 0 if there is none
PlacesOf(s, c) == {i \in 1 .. Len(s) : s[i] = c}
FirstOf(s, c) == IF PlacesOf(s, c) # {} THEN Min(PlacesOf(s, c)) ELSE 0

LEMMA FirstOfIs ==
  ASSUME NEW X, NEW s \in Seq(X), NEW c
  PROVE  \/ FirstOf(s, c) = 0 /\ \A i \in 1 .. Len(s) : s[i] # c
         \/ \E k \in 1 .. Len(s) :
              FirstOf(s, c) = k /\ s[k] = c /\ \A i \in 1 .. k - 1 : s[i] # c
<1>1. CASE PlacesOf(s, c) = {}
  BY <1>1 DEF FirstOf, PlacesOf
<1>2. CASE PlacesOf(s, c) # {}
  <2>1. PlacesOf(s, c) \subseteq Nat
    BY DEF PlacesOf
  <2>2. /\ Min(PlacesOf(s, c)) \in PlacesOf(s, c)
        /\ \A j \in PlacesOf(s, c) : Min(PlacesOf(s, c)) <= j
    BY <1>2, <2>1, MinIs
  <2>3. PICK k : k = FirstOf(s, c)
    OBVIOUS
  <2>4. k \in PlacesOf(s, c) /\ \A j \in PlacesOf(s, c) : k <= j
    BY <1>2, <2>2, <2>3 DEF FirstOf
  <2>5. \A i \in 1 .. k - 1 : s[i] # c
    BY <2>4 DEF PlacesOf
  <2>6. QED
    BY <2>3, <2>4, <2>5 DEF PlacesOf
<1>3. QED
  BY <1>1, <1>2

\* The directory dir as a beginning of the paths below it
Prefix(dir) == Under(Located(dir, dir))

LEMMA PrefixIs ==
  ASSUME NEW dir, IsDir(dir)
  PROVE  /\ Prefix(dir) \in Seq(Chars) /\ Len(Prefix(dir)) >= 1
         /\ Prefix(dir)[Len(Prefix(dir))] = "/"
<1>1. CString(dir) = dir
  BY CStringOf DEF IsDir
<1>2. PICK d \in Seq(Chars) : d = dir /\ Len(d) >= 2 /\ d[1] = "fat:" /\ d[2] = "/"
  BY DEF IsDir
<1>3. Tail(d) \in Seq(Chars) /\ Len(Tail(d)) = Len(d) - 1 /\ Tail(d)[1] = "/" /\ d # <<>>
  <2>1. /\ Tail(d) \in Seq(Chars) /\ Len(Tail(d)) = Len(d) - 1
        /\ \A i \in 1 .. Len(d) - 1 : Tail(d)[i] = d[i + 1]
    BY <1>2
  <2>2. 1 \in 1 .. Len(d) - 1
    BY <1>2
  <2>3. d # <<>>
    <3>1. Len(<<>>) = 0
      OBVIOUS
    <3>2. QED
      BY <1>2, <3>1
  <2>4. QED
    BY <1>2, <2>1, <2>2, <2>3
<1>4. PICK s : s = Tail(d)
  OBVIOUS
<1>5. s \in Seq(Chars) /\ s # <<>> /\ s[1] = "/" /\ Len(s) >= 1
  <2>1. Len(s) >= 1 /\ Len(<<>>) = 0
    BY <1>2, <1>3, <1>4
  <2>2. s # <<>>
    BY <2>1
  <2>3. QED
    BY <1>3, <1>4, <2>1, <2>2
<1>6. Located(dir, dir) = s
  BY <1>1, <1>2, <1>3, <1>4, <1>5 DEF Located, OnDevice
<1>7. /\ Under(s) \in Seq(Chars) /\ Len(Under(s)) >= Len(s)
      /\ Under(s)[Len(Under(s))] = "/"
  BY <1>5, UnderIs
<1>8. Len(Under(s)) >= 1
  BY <1>5, <1>7
<1>9. QED
  BY <1>6, <1>7, <1>8 DEF Prefix

\* What is listed of a path p behind the directory prefix
Rest(prefix, p) == SubSeq(p, Len(prefix) + 1, Len(p))
Entry(prefix, p) ==
  [name |-> IF FirstOf(Rest(prefix, p), "/") = 0 THEN Rest(prefix, p)
            ELSE SubSeq(Rest(prefix, p), 1, FirstOf(Rest(prefix, p), "/") - 1),
   isDirectory |-> FirstOf(Rest(prefix, p), "/") # 0]

LEMMA EntryIs ==
  ASSUME NEW card, ProperCard(card), NEW p \in DOMAIN card,
         NEW m \in Seq(Chars), Len(m) >= 1, m[Len(m)] = "/", IsPrefix(m, p), p # m
  PROVE  /\ Entry(m, p) \in [name : Range(Order), isDirectory : BOOLEAN]
         /\ IsName(Entry(m, p).name)
<1>0. IsPath(p) /\ p \in Seq(Chars)
  BY DEF ProperCard, IsPath
<1>1. PICK n \in Nat : n = Len(m) /\ n >= 1
  OBVIOUS
<1>2. n <= Len(p) /\ p[n] = "/"
  <2>1. n <= Len(p) /\ SubSeq(m, 1, n) = SubSeq(p, 1, n)
    BY <1>1 DEF IsPrefix
  <2>2. SubSeq(m, 1, n)[n] = m[n] /\ SubSeq(p, 1, n)[n] = p[n]
    BY <1>0, <1>1, <2>1
  <2>3. QED
    BY <1>1, <2>1, <2>2
<1>3. n \in DOMAIN p /\ n < Len(p) /\ p[n + 1] # "/"
  <2>1. n \in DOMAIN p
    BY <1>0, <1>1, <1>2
  <2>2. QED
    BY <1>0, <1>2, <2>1 DEF IsPath
<1>4. PICK r : r = Rest(m, p)
  OBVIOUS
<1>5. r \in Seq(Chars) /\ Len(r) = Len(p) - n /\ \A k \in 1 .. Len(p) - n : r[k] = p[n + k]
  <2>1. r = SubSeq(p, n + 1, Len(p))
    BY <1>1, <1>4 DEF Rest
  <2>2. QED
    BY <1>0, <1>2, <2>1, SubSeqIs
<1>6. CASE FirstOf(r, "/") = 0 /\ \A i \in 1 .. Len(r) : r[i] # "/"
  <2>1. Entry(m, p) = [name |-> r, isDirectory |-> FALSE]
    BY <1>4, <1>6 DEF Entry
  <2>2. \A k \in n + 1 .. Len(p) : p[k] # "/"
    <3> TAKE k \in n + 1 .. Len(p)
    <3>1. PICK i \in 1 .. Len(p) - n : k = n + i
      <4>1. k - n \in 1 .. Len(p) - n /\ k = n + (k - n)
        BY <1>0
      <4>2. QED
        BY <4>1
    <3>2. QED
      BY <1>5, <1>6, <3>1
  <2>3. r = SubSeq(p, n + 1, Len(p))
    BY <1>1, <1>4 DEF Rest
  <2>4. IsName(r) /\ r \in Range(Order)
    <3>1. n \in 1 .. Len(p) /\ Len(p) \in 1 .. Len(p)
      BY <1>0, <1>1, <1>3
    <3>2. QED
      BY <1>2, <1>3, <2>2, <2>3, <3>1, NameIs
  <2>5. QED
    BY <2>1, <2>4
<1>7. ASSUME NEW k \in 1 .. Len(r), FirstOf(r, "/") = k, r[k] = "/",
             \A i \in 1 .. k - 1 : r[i] # "/"
      PROVE  /\ Entry(m, p) \in [name : Range(Order), isDirectory : BOOLEAN]
             /\ IsName(Entry(m, p).name)
  <2>1. Entry(m, p) = [name |-> SubSeq(r, 1, k - 1), isDirectory |-> TRUE]
    <3>1. k # 0
      BY <1>5
    <3>2. QED
      BY <1>4, <1>7, <3>1 DEF Entry
  <2>2. PICK j \in Nat : j = n + k - 1
    <3>1. k \in Nat \ {0}
      BY <1>5
    <3>2. n + k - 1 \in Nat
      BY <3>1
    <3>3. QED
      BY <3>2
  <2>3. k # 1
    BY <1>3, <1>5, <1>7
  <2>4. n < j /\ j < Len(p) /\ j + 1 = n + k /\ j - n = k - 1
    BY <1>0, <1>5, <2>2, <2>3
  <2>5. p[j + 1] = "/"
    BY <1>5, <1>7, <2>4
  <2>6. \A i \in n + 1 .. j : p[i] # "/"
    <3> TAKE i \in n + 1 .. j
    <3>1. i - n \in 1 .. k - 1 /\ i - n \in 1 .. Len(r) /\ i = n + (i - n)
      BY <2>4
    <3>2. r[i - n] # "/"
      BY <1>7, <3>1
    <3>3. r[i - n] = p[n + (i - n)]
      BY <1>5, <3>1
    <3>4. QED
      BY <3>1, <3>2, <3>3
  <2>7. SubSeq(r, 1, k - 1) = SubSeq(p, n + 1, j)
    <3> DEFINE a == SubSeq(r, 1, k - 1)
               b == SubSeq(p, n + 1, j)
    <3>1. a \in Seq(Chars) /\ Len(a) = k - 1 /\ \A i \in 1 .. k - 1 : a[i] = r[i]
      BY <1>5
    <3>2. b \in Seq(Chars) /\ Len(b) = j - n /\ \A i \in 1 .. j - n : b[i] = p[n + i]
      <4>1. n \in 0 .. Len(p) /\ j \in n .. Len(p)
        BY <1>0, <2>4
      <4>2. QED
        BY <1>0, <4>1, SubSeqIs
    <3> HIDE DEF a, b
    <3>3. \A i \in 1 .. Len(a) : a[i] = b[i]
      BY <1>5, <2>4, <3>1, <3>2
    <3>4. Len(a) = Len(b)
      BY <2>4, <3>1, <3>2
    <3>5. a = b
      BY <3>1, <3>2, <3>3, <3>4, SeqEqual
    <3>6. QED
      BY <3>5 DEF a, b
  <2>8. IsName(SubSeq(p, n + 1, j)) /\ SubSeq(p, n + 1, j) \in Range(Order)
    <3>1. n \in 1 .. Len(p) /\ j \in 1 .. Len(p)
      BY <1>0, <1>1, <2>4
    <3>2. QED
      BY <1>2, <2>4, <2>5, <2>6, <3>1, NameIs
  <2>9. PICK x : x = SubSeq(p, n + 1, j)
    OBVIOUS
  <2>10. Entry(m, p) = [name |-> x, isDirectory |-> TRUE]
    BY <2>1, <2>7, <2>9
  <2>11. IsName(x) /\ x \in Range(Order)
    BY <2>8, <2>9
  <2>12. QED
    BY <2>10, <2>11
<1>8. QED
  BY <1>5, <1>6, <1>7, FirstOfIs

LEMMA NamesAre ==
  ASSUME ProperCard(files), NEW dir, IsDir(dir), NEW e \in Names(dir)
  PROVE  /\ e \in [name : Range(Order), isDirectory : BOOLEAN]
         /\ (e.name = Up /\ e.isDirectory) \/ IsName(e.name)
<1> DEFINE prefix == Under(Located(dir, dir))
           below == {p \in DOMAIN files : IsPrefix(prefix, p) /\ p # prefix}
           up == IF IsSuffix(<<"/">>, dir) THEN {} ELSE {[name |-> Up, isDirectory |-> TRUE]}
<1>1. Names(dir) = {Entry(prefix, p) : p \in below} \cup up
  BY DEF Names, SelectInSeq, Entry, Rest, FirstOf, PlacesOf
<1>2. prefix = Prefix(dir)
  BY DEF Prefix
<1> HIDE DEF up, prefix
<1>3. CASE e \in up
  <2>1. e = [name |-> Up, isDirectory |-> TRUE]
    BY <1>3 DEF up
  <2>2. Up \in Range(Order)
    BY OrderAssumption
  <2>3. PICK x : x = Up
    OBVIOUS
  <2>4. e.name = x /\ e.isDirectory = TRUE
    BY <2>1, <2>3
  <2>5. QED
    BY <2>1, <2>2, <2>3, <2>4
<1>4. CASE e \notin up
  <2>1. PICK p \in below : e = Entry(prefix, p)
    BY <1>1, <1>4
  <2>2. PICK m : m = prefix
    OBVIOUS
  <2>3. m \in Seq(Chars) /\ Len(m) >= 1 /\ m[Len(m)] = "/"
    BY <1>2, <2>2, PrefixIs
  <2>4. p \in DOMAIN files /\ IsPrefix(m, p) /\ p # m
    BY <2>2
  <2>5. QED
    BY <2>1, <2>2, <2>3, <2>4, EntryIs
<1>5. QED
  BY <1>3, <1>4

\* A name has one place in the order.
LEMMA RankIs ==
  ASSUME NEW a \in Range(Order)
  PROVE  Rank(a) \in Nat /\ Order[Rank(a)] = a
<1>1. \E i \in DOMAIN Order : Order[i] = a
  BY DEF Range
<1>2. Rank(a) \in DOMAIN Order /\ Order[Rank(a)] = a
  BY <1>1 DEF Rank
<1>3. DOMAIN Order \subseteq Nat
  BY OrderAssumption
<1>4. QED
  BY <1>2, <1>3

\* Entries are in a strict order.
LEMMA BeforeIs ==
  ASSUME NEW S, S \subseteq [name : Range(Order), isDirectory : BOOLEAN]
  PROVE  /\ \A a \in S : ~Before(a, a)
         /\ \A a, b \in S : a # b => Before(a, b) \/ Before(b, a)
         /\ \A a, b, c \in S : Before(a, b) /\ Before(b, c) => Before(a, c)
<1>1. \A a \in S : Rank(a.name) \in Nat /\ Order[Rank(a.name)] = a.name /\ a.isDirectory \in BOOLEAN
  BY RankIs
<1>2. \A a \in S : ~Before(a, a)
  BY <1>1 DEF Before
<1>3. ASSUME NEW a \in S, NEW b \in S, a # b
      PROVE  Before(a, b) \/ Before(b, a)
  <2>1. a.isDirectory = b.isDirectory => Rank(a.name) # Rank(b.name)
    BY <1>1, <1>3
  <2>2. QED
    BY <1>1, <2>1 DEF Before
<1>4. ASSUME NEW a \in S, NEW b \in S, NEW c \in S, Before(a, b), Before(b, c)
      PROVE  Before(a, c)
  BY <1>1, <1>4 DEF Before
<1>5. QED
  BY <1>2, <1>3, <1>4

\* Every row of the screen is an entry of the directory.
LEMMA ContentsListed ==
  ASSUME ProperCard(files), NEW dir, IsDir(dir), IsFiniteSet(Listed(dir)),
         NEW n \in 1 .. Cardinality(Listed(dir))
  PROVE  getDirectoryContents(dir)[n] \in Listed(dir)
<1> DEFINE S == Listed(dir)
           R == {p \in S \X S : Before(p[1], p[2])}
<1>1. S \subseteq [name : Range(Order), isDirectory : BOOLEAN]
  BY NamesAre DEF Listed
<1> HIDE DEF S
<1>2. /\ \A a \in S : <<a, a>> \notin R
      /\ \A a, b \in S : a # b => <<a, b>> \in R \/ <<b, a>> \in R
      /\ \A a, b, c \in S : <<a, b>> \in R /\ <<b, c>> \in R => <<a, c>> \in R
  BY <1>1, BeforeIs
<1>3. \A e, f \in S : <<f, e>> \in R <=> Before(f, e)
  OBVIOUS
<1> HIDE DEF R
<1>4. PICK e \in S : Cardinality({f \in S : <<f, e>> \in R}) = n - 1
  BY <1>2, RankExists DEF S
<1>5. {f \in S : <<f, e>> \in R} = {f \in S : Before(f, e)}
  BY <1>3
<1>6. \E g \in S : Cardinality({f \in S : Before(f, g)}) = n - 1
  BY <1>4, <1>5
<1>7. getDirectoryContents(dir)[n] = CHOOSE g \in S : Cardinality({f \in S : Before(f, g)}) = n - 1
  BY DEF getDirectoryContents, S
<1>8. QED
  BY <1>6, <1>7 DEF S

-----------------------------------------------------------------------------
\* The first word of a file

\* f concatenates the first n of the texts.
Concat(texts, n, f) ==
  f = [i \in 1 .. n |-> IF i = 1 THEN texts[i] ELSE f[i - 1] \o texts[i]]

LEMMA ConcatExists ==
  ASSUME NEW texts, NEW n \in Nat
  PROVE  \E f : Concat(texts, n, f)
<1> DEFINE missing == {k \in Nat : ~\E f : Concat(texts, k, f)}
<1> SUFFICES ASSUME missing # {} PROVE FALSE
  OBVIOUS
<1>1. PICK m \in missing : \A j \in missing : m <= j
  <2>1. missing \subseteq Nat
    OBVIOUS
  <2> HIDE DEF missing
  <2>2. QED
    BY <2>1, LeastExists
<1>2. m # 0
  <2>1. Concat(texts, 0, <<>>)
    BY DEF Concat
  <2>2. QED
    BY <2>1
<1>3. m - 1 \in Nat /\ m - 1 \notin missing /\ m \in Nat
  BY <1>1, <1>2
<1>4. PICK f : Concat(texts, m - 1, f)
  BY <1>3
<1> DEFINE g == [i \in 1 .. m |->
                   IF i < m THEN f[i] ELSE IF m = 1 THEN texts[1] ELSE f[m - 1] \o texts[m]]
<1>5. ASSUME NEW i \in 1 .. m
      PROVE  g[i] = IF i = 1 THEN texts[i] ELSE g[i - 1] \o texts[i]
  <2>1. CASE i < m
    <3>1. i \in 1 .. m - 1
      BY <1>3, <2>1
    <3>2. f[i] = IF i = 1 THEN texts[i] ELSE f[i - 1] \o texts[i]
      BY <1>4, <3>1 DEF Concat
    <3>3. g[i] = f[i] /\ (i # 1 => g[i - 1] = f[i - 1])
      BY <1>3, <2>1
    <3> HIDE DEF g
    <3>4. QED
      BY <3>2, <3>3
  <2>2. CASE i = m
    <3>1. g[i] = IF m = 1 THEN texts[1] ELSE f[m - 1] \o texts[m]
      BY <2>2
    <3>2. m # 1 => g[m - 1] = f[m - 1]
      BY <1>3
    <3> HIDE DEF g
    <3>3. QED
      BY <2>2, <3>1, <3>2
  <2>3. QED
    BY <1>3, <2>1, <2>2
<1>6. g = [i \in 1 .. m |-> g[i]]
  OBVIOUS
<1> HIDE DEF g
<1>7. g = [i \in 1 .. m |-> IF i = 1 THEN texts[i] ELSE g[i - 1] \o texts[i]]
  BY <1>5, <1>6
<1>8. Concat(texts, m, g)
  BY <1>7 DEF Concat
<1>9. QED
  BY <1>1, <1>8

\* The first characters of the first i texts together are those of the first one
\* that is not empty.
Blank(texts, i) == \A k \in 1 .. i : texts[k] = <<>>
FirstText(texts, k) == texts[k] # <<>> /\ Blank(texts, k - 1)
Begins(texts, i, s) ==
  /\ Blank(texts, i) => s = <<>>
  /\ \A k \in 1 .. i : FirstText(texts, k) => s # <<>> /\ s[1] = texts[k][1]

LEMMA FlattenIs ==
  ASSUME NEW X, NEW texts \in Seq(Seq(X))
  PROVE  FlattenSeq(texts) \in Seq(X) /\ Begins(texts, Len(texts), FlattenSeq(texts))
<1> DEFINE N == Len(texts)
<1>1. N \in Nat
  OBVIOUS
<1>2. CASE N = 0
  <2>1. FlattenSeq(texts) = texts /\ texts = <<>>
    BY <1>2 DEF FlattenSeq
  <2>2. QED
    BY <1>2, <2>1 DEF Begins
<1>3. CASE N # 0
  <2>1. \E f : Concat(texts, N, f)
    BY <1>1, ConcatExists
  <2>2. PICK f : Concat(texts, N, f) /\ FlattenSeq(texts) = f[N]
    BY <1>3, <2>1 DEF FlattenSeq, Concat
  <2> DEFINE Good(i) == f[i] \in Seq(X) /\ Begins(texts, i, f[i])
             bad == {i \in 1 .. N : ~Good(i)}
  <2>3. f[1] = texts[1] /\ \A i \in 2 .. N : f[i] = f[i - 1] \o texts[i]
    <3> DEFINE g == [i \in 1 .. N |-> IF i = 1 THEN texts[i] ELSE f[i - 1] \o texts[i]]
    <3>1. f = g
      BY <2>2 DEF Concat
    <3>2. g[1] = texts[1] /\ \A i \in 2 .. N : g[i] = f[i - 1] \o texts[i]
      <4> HIDE DEF N
      <4>1. 1 \in 1 .. N /\ \A i \in 2 .. N : i \in 1 .. N /\ i # 1
        BY <1>1, <1>3
      <4>2. QED
        BY <4>1
    <3> HIDE DEF g
    <3>3. QED
      BY <3>1, <3>2
  <2>4. Good(1)
    <3>1. Begins(texts, 1, texts[1])
      BY <1>1, <1>3 DEF Begins, Blank, FirstText
    <3>2. QED
      BY <1>1, <1>3, <2>3, <3>1
  <2>5. ASSUME NEW i \in 2 .. N, Good(i - 1) PROVE Good(i)
    <3>1. texts[i] \in Seq(X)
      BY <1>1
    <3>2. PICK a \in Seq(X) : a = f[i - 1] /\ Begins(texts, i - 1, a)
      BY <2>5
    <3>3. PICK b \in Seq(X) : b = texts[i]
      BY <3>1
    <3>4. f[i] = a \o b
      BY <2>3, <3>2, <3>3
    <3>5. a \o b \in Seq(X)
      OBVIOUS
    <3>6. Blank(texts, i) => a \o b = <<>>
      <4>1. Blank(texts, i) => Blank(texts, i - 1) /\ b = <<>>
        BY <1>1, <3>3 DEF Blank
      <4>2. QED
        BY <3>2, <4>1, ConcatEmptySeq DEF Begins
    <3>7. ASSUME NEW k \in 1 .. i, FirstText(texts, k)
          PROVE  a \o b # <<>> /\ (a \o b)[1] = texts[k][1]
      <4>1. CASE k = i
        <5>1. a = <<>>
          BY <3>2, <3>7, <4>1 DEF Begins, FirstText
        <5>2. a \o b = b /\ b # <<>>
          BY <3>3, <3>7, <4>1, <5>1, ConcatEmptySeq DEF FirstText
        <5>3. QED
          BY <3>3, <4>1, <5>2
      <4>2. CASE k # i
        <5>1. k \in 1 .. i - 1
          BY <4>2
        <5>2. a # <<>> /\ a[1] = texts[k][1]
          BY <3>2, <3>7, <5>1 DEF Begins
        <5>3. a \o b # <<>> /\ (a \o b)[1] = a[1]
          BY <5>2
        <5>4. QED
          BY <5>2, <5>3
      <4>3. QED
        BY <4>1, <4>2
    <3>8. Begins(texts, i, a \o b)
      BY <3>6, <3>7 DEF Begins
    <3>9. QED
      BY <3>4, <3>5, <3>8
  <2> HIDE DEF Good
  <2>6. Good(N)
    <3> SUFFICES ASSUME ~Good(N) PROVE FALSE
      OBVIOUS
    <3>1. N \in bad /\ bad \subseteq Nat
      BY <1>1, <1>3
    <3>2. PICK m \in bad : \A j \in bad : m <= j
      <4> HIDE DEF bad
      <4>1. QED
        BY <3>1, LeastExists
    <3>3. m # 1
      BY <2>4, <3>2
    <3>4. m \in 2 .. N /\ m - 1 \in 1 .. N /\ m - 1 \notin bad
      BY <1>1, <3>2, <3>3
    <3>5. Good(m - 1)
      BY <3>4
    <3>6. QED
      BY <2>5, <3>2, <3>4, <3>5
  <2>7. QED
    BY <2>2, <2>6 DEF Good
<1>4. QED
  BY <1>2, <1>3

LEMMA NumbersRank ==
  ASSUME NEW S, S \subseteq Int, IsFiniteSet(S), NEW n \in 1 .. Cardinality(S)
  PROVE  \E e \in S : Cardinality({f \in S : f < e}) = n - 1
<1> DEFINE R == {p \in S \X S : p[1] < p[2]}
<1>1. \A a \in S : a \in Int
  OBVIOUS
<1>2. /\ \A a \in S : <<a, a>> \notin R
      /\ \A a, b \in S : a # b => <<a, b>> \in R \/ <<b, a>> \in R
      /\ \A a, b, c \in S : <<a, b>> \in R /\ <<b, c>> \in R => <<a, c>> \in R
  BY <1>1
<1>3. \A e, f \in S : <<f, e>> \in R <=> f < e
  OBVIOUS
<1> HIDE DEF R
<1>4. PICK e \in S : Cardinality({f \in S : <<f, e>> \in R}) = n - 1
  BY <1>2, RankExists
<1>5. {f \in S : <<f, e>> \in R} = {f \in S : f < e}
  BY <1>3
<1>6. QED
  BY <1>4, <1>5

\* Words of text are texts.
WordStarts(s) == {i \in DOMAIN s : s[i] \notin SEPARATORS /\ (i = 1 \/ ~(s[i - 1] \notin SEPARATORS))}
NthStart(s, n) == CHOOSE i \in WordStarts(s) : Cardinality({j \in WordStarts(s) : j < i}) = n - 1
WordEnds(s, i) == {j \in i .. Len(s) + 1 : j = Len(s) + 1 \/ ~(s[j] \notin SEPARATORS)}

LEMMA WordsAre ==
  ASSUME NEW s
  PROVE  Words(s) = [n \in 1 .. Cardinality(WordStarts(s)) |->
                       SubSeq(s, NthStart(s, n), Min(WordEnds(s, NthStart(s, n))) - 1)]
BY DEF Words, Runs, WordStarts, NthStart, WordEnds

LEMMA WordsType ==
  ASSUME NEW X, NEW s \in Seq(X)
  PROVE  Words(s) \in Seq(Seq(X)) /\ (s = <<>> => Words(s) = <<>>)
<1>1. WordStarts(s) \subseteq 1 .. Len(s)
  BY DEF WordStarts
<1>2. IsFiniteSet(1 .. Len(s))
  BY FS_Interval
<1>3. IsFiniteSet(WordStarts(s)) /\ Cardinality(WordStarts(s)) \in Nat
  BY <1>1, <1>2, FS_Subset, FS_CardinalityType
<1>4. ASSUME NEW n \in 1 .. Cardinality(WordStarts(s)) PROVE NthStart(s, n) \in WordStarts(s)
  <2>1. \E e \in WordStarts(s) : Cardinality({f \in WordStarts(s) : f < e}) = n - 1
    <3>1. PICK S : S = WordStarts(s)
      OBVIOUS
    <3>2. S \subseteq Int /\ IsFiniteSet(S) /\ n \in 1 .. Cardinality(S)
      BY <1>1, <1>3, <3>1
    <3>3. \E e \in S : Cardinality({f \in S : f < e}) = n - 1
      BY <3>2, NumbersRank
    <3>4. QED
      BY <3>1, <3>3
  <2>2. QED
    BY <2>1 DEF NthStart
<1>5. ASSUME NEW i \in 1 .. Len(s) PROVE SubSeq(s, i, Min(WordEnds(s, i)) - 1) \in Seq(X)
  <2>1. WordEnds(s, i) \subseteq Nat /\ Len(s) + 1 \in WordEnds(s, i)
    BY DEF WordEnds
  <2>2. Min(WordEnds(s, i)) \in WordEnds(s, i)
    BY <2>1, MinIs
  <2>3. PICK e \in i .. Len(s) + 1 : e = Min(WordEnds(s, i))
    BY <2>2 DEF WordEnds
  <2>4. SubSeq(s, i, e - 1) \in Seq(X)
    <3>1. \A j \in i .. e - 1 : s[j] \in X
      BY <2>3
    <3>2. QED
      BY <2>3, <3>1, SubSeqProperties
  <2>5. QED
    BY <2>3, <2>4
<1>6. Words(s) \in Seq(Seq(X))
  <2> DEFINE W(n) == SubSeq(s, NthStart(s, n), Min(WordEnds(s, NthStart(s, n))) - 1)
  <2>1. \A n \in 1 .. Cardinality(WordStarts(s)) : W(n) \in Seq(X)
    BY <1>1, <1>4, <1>5
  <2>2. Words(s) = [n \in 1 .. Cardinality(WordStarts(s)) |-> W(n)]
    BY WordsAre
  <2> HIDE DEF W
  <2>3. QED
    BY <1>3, <2>1, <2>2
<1>7. s = <<>> => Words(s) = <<>>
  <2> SUFFICES ASSUME s = <<>> PROVE Words(s) = <<>>
    OBVIOUS
  <2>1. WordStarts(s) = {}
    BY <1>1
  <2>2. Cardinality(WordStarts(s)) = 0
    BY <2>1, FS_EmptySet
  <2>3. QED
    BY <2>2, WordsAre
<1>8. QED
  BY <1>6, <1>7

\* The arguments of a line: none if it is empty, an empty one if it has no word
LEMMA LineArgsAre ==
  ASSUME NEW X, NEW s \in Seq(X)
  PROVE  /\ LineArgs(s) \in Seq(Seq(X))
         /\ LineArgs(s) = <<>> => Words(s) = <<>>
         /\ LineArgs(s) = Words(s) \/ (LineArgs(s) # <<>> /\ LineArgs(s)[1] = <<>>)
         /\ Words(s) # <<>> => LineArgs(s) = Words(s)
<1>1. CASE Words(s) = <<>> /\ s # <<>>
  <2>1. LineArgs(s) = << <<>> >>
    BY <1>1 DEF LineArgs
  <2>2. <<>> \in Seq(X)
    BY EmptySeq
  <2>3. PICK empty \in Seq(X) : empty = <<>>
    BY <2>2
  <2>4. <<empty>> \in Seq(Seq(X)) /\ <<empty>> # <<>> /\ <<empty>>[1] = empty
    OBVIOUS
  <2>5. QED
    BY <1>1, <2>1, <2>3, <2>4
<1>2. CASE ~(Words(s) = <<>> /\ s # <<>>)
  <2>1. LineArgs(s) = Words(s)
    BY <1>2 DEF LineArgs
  <2>2. Words(s) \in Seq(Seq(X))
    BY WordsType
  <2>3. QED
    BY <2>1, <2>2
<1>3. QED
  BY <1>1, <1>2

\* A text as the line buffer may hold it
Text == Chars \cup {"NUL", Junk}

LEMMA MaxIs ==
  ASSUME NEW n \in Nat, NEW S, S \subseteq 1 .. n, S # {}
  PROVE  Max(S) \in S
<1> DEFINE D == {n - j : j \in S}
<1>1. D \subseteq Nat /\ D # {}
  <2>1. \A j \in S : n - j \in Nat
    OBVIOUS
  <2>2. QED
    BY <2>1
<1>2. PICK m \in D : \A d \in D : m <= d
  <2> HIDE DEF D
  <2>1. QED
    BY <1>1, LeastExists
<1>3. PICK k \in S : m = n - k
  BY <1>2
<1>4. \A j \in S : k >= j
  <2> TAKE j \in S
  <2>1. n - j \in D
    OBVIOUS
  <2>2. n - k <= n - j
    BY <1>2, <1>3, <2>1
  <2>3. j \in Nat /\ k \in Nat
    OBVIOUS
  <2>4. QED
    BY <2>2, <2>3
<1>5. QED
  BY <1>3, <1>4 DEF Max

LEMMA LineIs ==
  ASSUME NEW lines \in Seq(Seq(Chars)), NEW k \in 1 .. Len(lines)
  PROVE  /\ line_sv(lines, k) \in Seq(Text)
         /\ ~Contains(lines[k], "#") => line_sv(lines, k) = lines[k]
<1> DEFINE line == lines[k]
           pos == FirstOf(line, "#") - 1
<1>1. line \in Seq(Chars) /\ line \in Seq(Text)
  <2>1. line \in Seq(Chars)
    OBVIOUS
  <2>2. QED
    BY <2>1, SeqMonotonic DEF Text
<1>2. line_sv(lines, k) =
        IF pos < 0 THEN line ELSE [i \in 1 .. 2 * Len(line) - pos |-> Held(lines, k, i)]
  BY DEF line_sv, SelectInSeq, FirstOf, PlacesOf
<1>3. ASSUME NEW i \in Nat \ {0} PROVE Held(lines, k, i) \in Text
  <2> DEFINE reach == {j \in 1 .. k : Len(lines[j]) + 1 >= i}
  <2>1. CASE reach = {}
    BY <2>1 DEF Held, Text
  <2>2. CASE reach # {}
    <3>1. reach \subseteq 1 .. k /\ k \in Nat
      OBVIOUS
    <3>2. Max(reach) \in reach
      <4> HIDE DEF reach
      <4>1. QED
        BY <2>2, <3>1, MaxIs
    <3>3. PICK m \in 1 .. k : m = Max(reach)
      BY <3>2
    <3>4. PICK text \in Seq(Chars) : text = lines[m]
      OBVIOUS
    <3>5. Held(lines, k, i) = IF i <= Len(text) THEN text[i] ELSE "NUL"
      BY <2>2, <3>3, <3>4 DEF Held
    <3>6. QED
      BY <3>5 DEF Text
  <2>3. QED
    BY <2>1, <2>2
<1>4. CASE FirstOf(line, "#") = 0 /\ \A i \in 1 .. Len(line) : line[i] # "#"
  <2>1. line_sv(lines, k) = line
    BY <1>2, <1>4
  <2>2. QED
    BY <1>1, <2>1
<1>5. ASSUME NEW h \in 1 .. Len(line), FirstOf(line, "#") = h, line[h] = "#"
      PROVE  line_sv(lines, k) \in Seq(Text) /\ Contains(lines[k], "#")
  <2>1. PICK n \in Nat : n = 2 * Len(line) - pos
    <3>1. 2 * Len(line) - (h - 1) \in Nat
      BY <1>1
    <3>2. QED
      BY <1>5, <3>1
  <2>2. line_sv(lines, k) = [i \in 1 .. n |-> Held(lines, k, i)]
    <3>1. ~(pos < 0)
      BY <1>1, <1>5
    <3>2. QED
      BY <1>2, <2>1, <3>1
  <2>3. \A i \in 1 .. n : Held(lines, k, i) \in Text
    BY <1>3
  <2>4. line_sv(lines, k) \in Seq(Text)
    BY <2>2, <2>3
  <2>5. QED
    BY <1>5, <2>4 DEF Contains
<1>6. QED
  BY <1>1, <1>4, <1>5, FirstOfIs

\* The arguments of each line
Listing(lines) == [k \in DOMAIN lines |-> LineArgs(line_sv(lines, k))]

LEMMA ListingIs ==
  ASSUME NEW lines \in Seq(Seq(Chars))
  PROVE  /\ Listing(lines) \in Seq(Seq(Seq(Text))) /\ Len(Listing(lines)) = Len(lines)
         /\ \A k \in 1 .. Len(lines) : Listing(lines)[k] = LineArgs(line_sv(lines, k))
<1>1. PICK n \in Nat : n = Len(lines) /\ DOMAIN lines = 1 .. n
  OBVIOUS
<1>2. \A k \in 1 .. n : LineArgs(line_sv(lines, k)) \in Seq(Seq(Text))
  BY <1>1, LineIs, LineArgsAre
<1>3. Listing(lines) = [k \in 1 .. n |-> LineArgs(line_sv(lines, k))]
  BY <1>1 DEF Listing
<1>4. QED
  BY <1>1, <1>2, <1>3

\* Two parsers: the first argument, if it is not empty, is the program.
LEMMA SameFirst ==
  ASSUME NEW lines \in Seq(Seq(Chars)),
         parseArgFileAll(lines) # <<>>, parseArgFileAll(lines)[1] # <<>>
  PROVE  parseArgFileNds(lines) = parseArgFileAll(lines)[1]
<1> DEFINE all == parseArgFileAll(lines)
           K == {k \in 1 .. Len(lines) : Listing(lines)[k] # <<>>}
           with == {k \in DOMAIN lines : Words(line_sv(lines, k)) # <<>>}
<1>1. Begins(Listing(lines), Len(lines), all)
  <2>1. all = FlattenSeq(Listing(lines))
    BY DEF parseArgFileAll, Listing
  <2>2. PICK texts \in Seq(Seq(Seq(Text))) : texts = Listing(lines) /\ Len(texts) = Len(lines)
    BY ListingIs
  <2> HIDE DEF all
  <2>3. Begins(texts, Len(texts), FlattenSeq(texts))
    BY FlattenIs
  <2>4. QED
    BY <2>1, <2>2, <2>3
<1>2. PICK m \in K : \A j \in K : m <= j
  <2>1. K # {}
    <3> SUFFICES ASSUME K = {} PROVE FALSE
      OBVIOUS
    <3>1. Blank(Listing(lines), Len(lines))
      BY DEF Blank
    <3>2. QED
      BY <1>1, <3>1 DEF Begins
  <2>2. K \subseteq Nat
    OBVIOUS
  <2> HIDE DEF K
  <2>3. QED
    BY <2>1, <2>2, LeastExists
<1>3. m \in 1 .. Len(lines) /\ m \in Nat /\ \A j \in 1 .. m - 1 : j \notin K /\ j \in 1 .. Len(lines)
  <2>1. m \in 1 .. Len(lines) /\ Len(lines) \in Nat
    OBVIOUS
  <2> HIDE DEF K
  <2>2. QED
    BY <1>2, <2>1
<1>4. FirstText(Listing(lines), m)
  BY <1>3 DEF FirstText, Blank
<1>5. all # <<>> /\ all[1] = Listing(lines)[m][1]
  BY <1>1, <1>3, <1>4 DEF Begins
<1>6. PICK s \in Seq(Text) : s = line_sv(lines, m)
  BY <1>3, LineIs
<1>7. Listing(lines)[m] = LineArgs(s)
  BY <1>3, <1>6, ListingIs
<1>8. LineArgs(s) = Words(s) /\ Words(s) # <<>> /\ all[1] = Words(s)[1]
  <2>1. LineArgs(s) # <<>> /\ LineArgs(s)[1] # <<>>
    BY <1>4, <1>5, <1>7 DEF FirstText
  <2>2. LineArgs(s) = Words(s)
    BY <2>1, LineArgsAre
  <2>3. QED
    BY <1>5, <1>7, <2>1, <2>2
<1>9. m \in with /\ \A j \in with : m <= j
  <2>1. m \in with
    BY <1>3, <1>6, <1>8
  <2>2. ASSUME NEW j \in 1 .. Len(lines), j < m PROVE j \notin with
    <3>1. j \notin K
      BY <1>3, <2>2
    <3>2. LineArgs(line_sv(lines, j)) = <<>>
      BY <3>1, ListingIs
    <3>3. PICK t \in Seq(Text) : t = line_sv(lines, j)
      BY LineIs
    <3>4. Words(t) = <<>>
      BY <3>2, <3>3, LineArgsAre
    <3>5. QED
      BY <3>3, <3>4
  <2>3. \A j \in with : j \in 1 .. Len(lines) /\ j \in Nat
    OBVIOUS
  <2> HIDE DEF with
  <2>4. QED
    BY <1>3, <2>1, <2>2, <2>3
<1>10. Min(with) = m
  <2>1. with \subseteq Nat
    OBVIOUS
  <2> HIDE DEF with
  <2>2. Min(with) \in with /\ \A j \in with : Min(with) <= j
    BY <1>9, <2>1, MinIs
  <2>3. PICK k : k = Min(with)
    OBVIOUS
  <2>4. k <= m /\ m <= k /\ k \in Nat
    BY <1>9, <2>1, <2>2, <2>3
  <2>5. QED
    BY <1>3, <2>3, <2>4
<1>11. parseArgFileNds(lines) = Words(s)[1]
  <2>1. parseArgFileNds(lines) =
          IF with = {} THEN <<>> ELSE Words(line_sv(lines, Min(with)))[1]
    BY DEF parseArgFileNds
  <2> HIDE DEF with
  <2>2. QED
    BY <1>6, <1>9, <1>10, <2>1
<1>12. QED
  BY <1>8, <1>11

\* The documented words begin with the program, too.
LEMMA DocumentedFirst ==
  ASSUME NEW lines \in Seq(Seq(Chars)),
         \A k \in DOMAIN lines : ~Contains(lines[k], "#"),
         lines # <<>> => Words(lines[1]) # <<>>
  PROVE  \/ parseArgFileAll(lines) = <<>> /\ Documented(lines) = <<>>
         \/ /\ parseArgFileAll(lines) # <<>> /\ Documented(lines) # <<>>
            /\ parseArgFileAll(lines)[1] = Documented(lines)[1]
<1> DEFINE docs == [k \in DOMAIN lines |-> Words(lines[k])]
<1>1. PICK n \in Nat : n = Len(lines) /\ DOMAIN lines = 1 .. n
  OBVIOUS
<1>2. \A k \in 1 .. n : lines[k] \in Seq(Chars) /\ Words(lines[k]) \in Seq(Seq(Chars))
  <2>1. \A k \in 1 .. n : lines[k] \in Seq(Chars)
    BY <1>1
  <2>2. QED
    BY <2>1, WordsType
<1>3. docs \in Seq(Seq(Seq(Chars))) /\ Len(docs) = n /\ \A k \in 1 .. n : docs[k] = Words(lines[k])
  BY <1>1, <1>2
<1>4. Documented(lines) = FlattenSeq(docs)
  <2> DEFINE cut(k) == IF SelectInSeq(lines[k], LAMBDA c : c = "#") = 0 THEN lines[k]
                       ELSE SubSeq(lines[k], 1, SelectInSeq(lines[k], LAMBDA c : c = "#") - 1)
  <2>1. ASSUME NEW k \in DOMAIN lines PROVE cut(k) = lines[k]
    <3>1. SelectInSeq(lines[k], LAMBDA c : c = "#") = FirstOf(lines[k], "#")
      BY DEF SelectInSeq, FirstOf, PlacesOf
    <3>2. FirstOf(lines[k], "#") = 0
      <4>1. lines[k] \in Seq(Chars)
        BY <1>1, <1>2
      <4>2. \A i \in 1 .. Len(lines[k]) : lines[k][i] # "#"
        BY <4>1 DEF Contains
      <4>3. QED
        BY <4>1, <4>2, FirstOfIs
    <3>3. QED
      BY <3>1, <3>2
  <2>2. Documented(lines) = FlattenSeq([k \in DOMAIN lines |-> Words(cut(k))])
    BY DEF Documented
  <2> HIDE DEF cut
  <2>3. [k \in DOMAIN lines |-> Words(cut(k))] = docs
    BY <2>1
  <2>4. QED
    BY <2>2, <2>3
<1>5. parseArgFileAll(lines) = FlattenSeq(Listing(lines))
  BY DEF parseArgFileAll, Listing
<1> HIDE DEF docs
<1>6. CASE n = 0
  <2>1. Blank(docs, Len(docs)) /\ Blank(Listing(lines), Len(Listing(lines)))
    <3>1. Len(docs) = 0 /\ Len(Listing(lines)) = 0
      BY <1>1, <1>3, <1>6, ListingIs
    <3>2. QED
      BY <3>1 DEF Blank
  <2>2. FlattenSeq(docs) = <<>>
    BY <1>3, <2>1, FlattenIs DEF Begins
  <2>3. FlattenSeq(Listing(lines)) = <<>>
    BY <2>1, ListingIs, FlattenIs DEF Begins
  <2>4. QED
    BY <1>4, <1>5, <2>2, <2>3
<1>7. CASE n # 0
  <2>1. 1 \in 1 .. n
    BY <1>1, <1>7
  <2>2. PICK s \in Seq(Chars) : s = lines[1] /\ Words(s) # <<>> /\ line_sv(lines, 1) = s
    <3>1. lines # <<>> /\ 1 \in DOMAIN lines /\ 1 \in 1 .. Len(lines)
      BY <1>1, <1>7
    <3>2. line_sv(lines, 1) = lines[1]
      BY <3>1, LineIs
    <3>3. QED
      BY <1>2, <2>1, <3>1, <3>2
  <2>3. LineArgs(s) = Words(s)
    BY <2>2, LineArgsAre
  <2>4. docs[1] = Words(s) /\ Listing(lines)[1] = Words(s)
    BY <1>1, <1>3, <2>1, <2>2, <2>3, ListingIs
  <2>5. FirstText(docs, 1) /\ FirstText(Listing(lines), 1)
    BY <2>2, <2>4 DEF FirstText, Blank
  <2>6. FlattenSeq(docs) # <<>> /\ FlattenSeq(docs)[1] = Words(s)[1]
    <3>1. Begins(docs, Len(docs), FlattenSeq(docs))
      BY <1>3, FlattenIs
    <3>2. QED
      BY <1>3, <2>1, <2>4, <2>5, <3>1 DEF Begins
  <2>7. FlattenSeq(Listing(lines)) # <<>> /\ FlattenSeq(Listing(lines))[1] = Words(s)[1]
    <3>1. Begins(Listing(lines), Len(Listing(lines)), FlattenSeq(Listing(lines)))
      BY ListingIs, FlattenIs
    <3>2. 1 \in 1 .. Len(Listing(lines))
      BY <1>1, <2>1, ListingIs
    <3>3. QED
      BY <2>4, <2>5, <3>1, <3>2 DEF Begins
  <2>8. QED
    BY <1>4, <1>5, <2>6, <2>7
<1>8. QED
  BY <1>6, <1>7

LEMMA DocumentedType ==
  ASSUME NEW lines \in Seq(Seq(Chars))
  PROVE  Documented(lines) \in Seq(Seq(Chars))
<1> DEFINE cut(k) == IF FirstOf(lines[k], "#") = 0 THEN lines[k]
                     ELSE SubSeq(lines[k], 1, FirstOf(lines[k], "#") - 1)
           docs == [k \in DOMAIN lines |-> Words(cut(k))]
<1>1. PICK n \in Nat : n = Len(lines) /\ DOMAIN lines = 1 .. n
  OBVIOUS
<1>2. ASSUME NEW k \in 1 .. n PROVE cut(k) \in Seq(Chars)
  <2>1. PICK line \in Seq(Chars) : line = lines[k]
    BY <1>1
  <2>2. FirstOf(line, "#") \in 0 .. Len(line)
    BY FirstOfIs
  <2>3. PICK h \in 0 .. Len(line) : h = FirstOf(line, "#")
    BY <2>2
  <2>4. h # 0 => SubSeq(line, 1, h - 1) \in Seq(Chars)
    OBVIOUS
  <2>5. QED
    BY <2>1, <2>3, <2>4
<1>3. Documented(lines) = FlattenSeq(docs)
  BY DEF Documented, SelectInSeq, FirstOf, PlacesOf
<1> HIDE DEF cut
<1>4. \A k \in 1 .. n : Words(cut(k)) \in Seq(Seq(Chars))
  BY <1>2, WordsType
<1>5. docs \in Seq(Seq(Seq(Chars)))
  BY <1>1, <1>4
<1> HIDE DEF docs
<1>6. QED
  BY <1>3, <1>5, FlattenIs

-----------------------------------------------------------------------------
\* The program shown and the one started

\* A program's name
EndsNds(s) == Len(s) >= 2 /\ s[Len(s)] = "nds" /\ s[Len(s) - 1] = "."

LEMMA EndsInNds ==
  ASSUME NEW X, NEW s \in Seq(X)
  PROVE  strCaseEnd(s, NDS_EXT) <=> EndsNds(s)
<1> DEFINE r == Reverse(s)
           o == Reverse(NDS_EXT)
           a == SubSeq(o, 1, 2)
           b == SubSeq(r, 1, 2)
<1>1. strCaseEnd(s, NDS_EXT) <=> Len(o) <= Len(r) /\ SubSeq(o, 1, Len(o)) = SubSeq(r, 1, Len(o))
  BY DEF strCaseEnd, IsSuffix, IsPrefix
<1>2. /\ r \in Seq(X) /\ Len(r) = Len(s)
      /\ Len(s) >= 2 => r[1] = s[Len(s)] /\ r[2] = s[Len(s) - 1]
  BY DEF Reverse
<1>3. o \in Seq({".", "nds"}) /\ Len(o) = 2 /\ o[1] = "nds" /\ o[2] = "."
  BY DEF Reverse, NDS_EXT
<1> HIDE DEF r, o
<1>4. a \in Seq({".", "nds"}) /\ Len(a) = 2 /\ a[1] = "nds" /\ a[2] = "."
  BY <1>3
<1>5. ASSUME Len(s) >= 2
      PROVE  a = b <=> s[Len(s)] = "nds" /\ s[Len(s) - 1] = "."
  <2>1. b \in Seq(X) /\ Len(b) = 2 /\ b[1] = s[Len(s)] /\ b[2] = s[Len(s) - 1]
    BY <1>2, <1>5
  <2>2. a \in Seq({".", "nds"} \cup X) /\ b \in Seq({".", "nds"} \cup X)
    BY <1>4, <2>1, SeqMonotonic
  <2> HIDE DEF a, b
  <2>3. ASSUME b[1] = "nds", b[2] = "." PROVE a = b
    <3>1. \A i \in 1 .. Len(a) : a[i] = b[i]
      BY <1>4, <2>3
    <3>2. QED
      BY <1>4, <2>1, <2>2, <3>1, SeqEqual
  <2>4. QED
    BY <1>4, <2>1, <2>3
<1>6. Len(s) \in Nat
  OBVIOUS
<1>7. QED
  BY <1>1, <1>2, <1>3, <1>5, <1>6 DEF EndsNds

\* A file as it is started: a device is at its beginning only.
IsFile(path) ==
  path \in Seq(Chars) /\ \A i \in DOMAIN path : path[i] = "fat:" => i = 1

LEMMA LinesAre ==
  ASSUME NEW card, ProperCard(card), NEW dir, NEW path
  PROVE  Lines(card, dir, path) \in Seq(Seq(Chars))
<1>1. \A p \in DOMAIN card : card[p] \in Seq(Seq(Chars))
  BY DEF ProperCard
<1>2. <<>> \in Seq(Seq(Chars))
  BY EmptySeq
<1>3. QED
  BY <1>1, <1>2 DEF Lines

LEMMA AllAre ==
  ASSUME NEW lines \in Seq(Seq(Chars))
  PROVE  parseArgFileAll(lines) \in Seq(Seq(Text))
<1>1. parseArgFileAll(lines) = FlattenSeq(Listing(lines))
  BY DEF parseArgFileAll, Listing
<1>2. QED
  BY <1>1, ListingIs, FlattenIs

\* What a file of arguments starts: its first argument, made absolute
Absolute(all, base) == <<toAbsPath(all[1], base)>> \o Tail(all)

ListedIn(lines, base) ==
  IF parseArgFileAll(lines) = <<>> THEN <<>> ELSE Absolute(parseArgFileAll(lines), base)

LEMMA AbsoluteIs ==
  ASSUME NEW X, NEW all \in Seq(X), all # <<>>, NEW base
  PROVE  /\ Absolute(all, base) # <<>> /\ Absolute(all, base)[1] = toAbsPath(all[1], base)
         /\ \A last : /\ Append(Absolute(all, base), last) # <<>>
                      /\ Append(Absolute(all, base), last)[1] = toAbsPath(all[1], base)
<1>1. PICK a : a = toAbsPath(all[1], base)
  OBVIOUS
<1>2. PICK t \in Seq(X) : t = Tail(all)
  <2>1. Tail(all) \in Seq(X)
    BY HeadTailProperties
  <2>2. QED
    BY <2>1
<1>3. Absolute(all, base) = <<a>> \o t
  BY <1>1, <1>2 DEF Absolute
<1>4. t \in Seq(X \cup {a}) /\ <<a>> \in Seq(X \cup {a})
  BY SeqMonotonic
<1>5. PICK l \in Seq(X \cup {a}) : l = <<a>> \o t /\ Len(l) >= 1 /\ l[1] = a
  <2>1. PICK h \in Seq(X \cup {a}) : h = <<a>> /\ Len(h) = 1 /\ h[1] = a
    BY <1>4
  <2>2. h \o t \in Seq(X \cup {a}) /\ Len(h \o t) = 1 + Len(t) /\ (h \o t)[1] = h[1]
    BY <1>4, <2>1
  <2>3. Len(t) \in Nat
    OBVIOUS
  <2>4. PICK l : l = h \o t
    OBVIOUS
  <2>5. l = <<a>> \o t /\ l \in Seq(X \cup {a}) /\ Len(l) >= 1 /\ l[1] = a
    BY <2>1, <2>2, <2>3, <2>4
  <2>6. QED
    BY <2>5
<1>6. \A last : Append(l, last) # <<>> /\ Append(l, last)[1] = a
  <2> TAKE last
  <2>1. l \in Seq(X \cup {a} \cup {last})
    BY SeqMonotonic
  <2>2. QED
    BY <1>5, <2>1
<1>7. l # <<>>
  BY <1>5
<1>8. QED
  BY <1>1, <1>3, <1>5, <1>6, <1>7

LEMMA ArrayIs ==
  ASSUME NEW card, NEW dir, NEW path
  PROVE  /\ strCaseEnd(path, NDS_EXT) => argarray(card, dir, path) = Absolute(<<path>>, dir)
         /\ ~strCaseEnd(path, NDS_EXT) /\ strCaseEnd(path, ARG_EXT) =>
              argarray(card, dir, path) = ListedIn(Lines(card, dir, path), dir)
         /\ ~strCaseEnd(path, NDS_EXT) /\ ~strCaseEnd(path, ARG_EXT) =>
              argarray(card, dir, path) =
                IF ListedIn(Lines(card, dir, toExtPath(path)), EXT_DIR) = <<>> THEN <<>>
                ELSE Append(ListedIn(Lines(card, dir, toExtPath(path)), EXT_DIR), toAbsPath(path, dir))
BY DEF argarray, ListedIn, Absolute

\* A started program is the one whose banner is shown.
LEMMA ShownStarted ==
  ASSUME NEW card, ProperCard(card), NEW dir, IsDir(dir), NEW path, IsFile(path),
         NEW args1, args1 = argarray(card, dir, path)[1],
         argsFillArray(argarray(card, dir, path)),
         Located(args1, dir) \in DOMAIN card
  PROVE  Located(argsNdsPath(card, dir, path), dir) = Located(args1, dir)
<1> DEFINE arr == argarray(card, dir, path)
           paths == DOMAIN card
<1>1. \A p \in paths : IsPath(p)
  BY DEF ProperCard
<1>2. PICK handler : handler = toExtPath(path)
  OBVIOUS
<1>3. PICK lines \in Seq(Seq(Chars)) : lines = Lines(card, dir, path)
  BY LinesAre
<1>4. PICK handled \in Seq(Seq(Chars)) : handled = Lines(card, dir, handler)
  BY LinesAre
<1>5. arr # <<>> /\ strCaseEnd(args1, NDS_EXT)
  BY DEF argsFillArray
<1>6. args1 # <<>>
  <2>1. PICK e \in Seq(Chars) : e = <<>> /\ Len(e) = 0
    BY EmptySeq
  <2>2. ~strCaseEnd(<<>>, NDS_EXT)
    <3>1. ~strCaseEnd(e, NDS_EXT)
      <4>1. strCaseEnd(e, NDS_EXT) <=> EndsNds(e)
        BY EndsInNds
      <4>2. ~EndsNds(e)
        BY <2>1 DEF EndsNds
      <4>3. QED
        BY <4>1, <4>2
    <3>2. QED
      BY <2>1, <3>1
  <2>3. QED
    BY <1>5, <2>2
<1>7. ASSUME NEW file \in Seq(Seq(Chars)), NEW base, parseArgFileAll(file) # <<>>,
             args1 = toAbsPath(parseArgFileAll(file)[1], base)
      PROVE  /\ parseArgFileNds(file) = parseArgFileAll(file)[1]
             /\ parseArgFileNds(file) \in Seq(Text)
  <2>1. PICK all \in Seq(Seq(Text)) : all = parseArgFileAll(file)
    BY AllAre
  <2>2. PICK w \in Seq(Text) : w = all[1]
    BY <1>7, <2>1
  <2>3. w # <<>>
    BY <1>6, <1>7, <2>1, <2>2, AbsIs
  <2>4. QED
    BY <1>7, <2>1, <2>2, <2>3, SameFirst
<1>8. CASE strCaseEnd(path, NDS_EXT)
  <2>1. arr = Absolute(<<path>>, dir)
    BY <1>8, ArrayIs
  <2>2. <<path>> \in Seq(Seq(Chars)) /\ <<path>> # <<>> /\ <<path>>[1] = path
    BY DEF IsFile
  <2>3. args1 = toAbsPath(path, dir)
    BY <2>1, <2>2, AbsoluteIs
  <2>4. argsNdsPath(card, dir, path) = path
    BY <1>8 DEF argsNdsPath
  <2>5. Located(path, dir) = Located(toAbsPath(path, dir), dir)
    BY <1>1, <2>3, LocatedAbs DEF IsFile
  <2>6. QED
    BY <2>3, <2>4, <2>5
<1>9. CASE ~strCaseEnd(path, NDS_EXT) /\ strCaseEnd(path, ARG_EXT)
  <2>1. PICK all \in Seq(Seq(Text)) : all = parseArgFileAll(lines)
    BY AllAre
  <2>2. arr = IF all = <<>> THEN <<>> ELSE Absolute(all, dir)
    <3>1. arr = ListedIn(Lines(card, dir, path), dir)
      BY <1>9, ArrayIs
    <3> HIDE DEF arr
    <3>2. QED
      BY <1>3, <2>1, <3>1 DEF ListedIn
  <2>3. all # <<>> /\ args1 = toAbsPath(all[1], dir)
    BY <1>5, <2>2, AbsoluteIs
  <2>4. PICK w \in Seq(Text) : w = parseArgFileNds(lines) /\ w = all[1]
    BY <1>7, <2>1, <2>3
  <2>5. argsNdsPath(card, dir, path) = w
    BY <1>3, <1>9, <2>4 DEF argsNdsPath
  <2>6. Located(w, dir) = Located(toAbsPath(w, dir), dir)
    BY <1>1, <2>3, <2>4, LocatedAbs
  <2>7. QED
    BY <2>3, <2>4, <2>5, <2>6
<1>10. CASE ~strCaseEnd(path, NDS_EXT) /\ ~strCaseEnd(path, ARG_EXT)
  <2>1. PICK all \in Seq(Seq(Text)) : all = parseArgFileAll(handled)
    BY AllAre
  <2>2. arr = IF all = <<>> \/ Absolute(all, EXT_DIR) = <<>> THEN <<>>
              ELSE Append(Absolute(all, EXT_DIR), toAbsPath(path, dir))
    <3>1. arr = IF ListedIn(Lines(card, dir, toExtPath(path)), EXT_DIR) = <<>> THEN <<>>
                ELSE Append(ListedIn(Lines(card, dir, toExtPath(path)), EXT_DIR), toAbsPath(path, dir))
      BY <1>10, ArrayIs
    <3> HIDE DEF arr
    <3>2. QED
      BY <1>2, <1>4, <2>1, <3>1 DEF ListedIn
  <2>3. all # <<>> /\ args1 = toAbsPath(all[1], EXT_DIR)
    BY <1>5, <2>2, AbsoluteIs
  <2>4. PICK w : w = parseArgFileNds(handled) /\ w = all[1]
    BY <1>7, <2>1, <2>3
  <2>5. argsNdsPath(card, dir, path) = toAbsPath(w, EXT_DIR)
    BY <1>2, <1>4, <1>10, <2>4 DEF argsNdsPath
  <2>6. QED
    BY <2>3, <2>4, <2>5
<1>11. QED
  BY <1>8, <1>9, <1>10


\* The arguments documented of a file begin like those parsed.
BeginsAs(words, arr, base) ==
  /\ words = <<>> <=> arr = <<>>
  /\ words # <<>> =>
       /\ arr[1] = toAbsPath(words[1], base)
       /\ \A last : /\ arr # <<>> /\ Append(arr, last) # <<>>
                    /\ Append(arr, last)[1] = arr[1]

LEMMA FirstExpected ==
  ASSUME NEW lines \in Seq(Seq(Chars)), NEW base, NEW arr, arr = ListedIn(lines, base),
         \A k \in DOMAIN lines : ~Contains(lines[k], "#"),
         lines # <<>> => Words(lines[1]) # <<>>
  PROVE  BeginsAs(Documented(lines), arr, base)
<1>1. PICK all \in Seq(Seq(Text)) : all = parseArgFileAll(lines)
  BY AllAre
<1>2. PICK words : words = Documented(lines)
  OBVIOUS
<1>3. (all = <<>> /\ words = <<>>) \/ (all # <<>> /\ words # <<>> /\ all[1] = words[1])
  BY <1>1, <1>2, DocumentedFirst
<1>4. arr = IF all = <<>> THEN <<>> ELSE Absolute(all, base)
  BY <1>1 DEF ListedIn
<1>5. CASE all = <<>>
  BY <1>2, <1>3, <1>4, <1>5 DEF BeginsAs
<1>6. CASE all # <<>>
  <2>1. words # <<>> /\ words[1] = all[1] /\ arr = Absolute(all, base)
    BY <1>3, <1>4, <1>6
  <2>2. PICK a : a = Absolute(all, base)
    OBVIOUS
  <2>3. /\ a # <<>> /\ a[1] = toAbsPath(all[1], base)
        /\ \A last : Append(a, last) # <<>> /\ Append(a, last)[1] = toAbsPath(all[1], base)
    BY <1>6, <2>2, AbsoluteIs
  <2>4. PICK w : w = all[1]
    OBVIOUS
  <2>5. QED
    BY <1>2, <2>1, <2>2, <2>3, <2>4 DEF BeginsAs
<1>7. QED
  BY <1>5, <1>6

\* The extension file of a file lies in EXT_DIR.
LEMMA HandlerIs ==
  ASSUME NEW path, IsFile(path), NEW dir
  PROVE  Located(toExtPath(path), dir) = toExtPath(path)
<1> DEFINE dots == {i \in 1 .. Len(path) : path[i] = "."}
           dot == IF dots # {} THEN Max(dots) ELSE 0
<1>1. toExtPath(path) =
        IF dot = 0 \/ dot = Len(path) THEN <<>>
        ELSE toAbsPath(SubSeq(path, dot + 1, Len(path)), EXT_DIR) \o EXT_EXT
  BY DEF toExtPath, SelectLastInSeq
<1>2. Located(<<>>, dir) = <<>>
  <2>1. PICK e \in Seq(Chars) : e = <<>>
    BY EmptySeq
  <2>2. CString(e) = e
    BY <2>1, CStringOf
  <2>3. QED
    BY <2>1, <2>2 DEF Located, OnDevice
<1>3. CASE dot = 0 \/ dot = Len(path)
  BY <1>1, <1>2, <1>3
<1>4. CASE ~(dot = 0 \/ dot = Len(path))
  <2>1. path \in Seq(Chars) /\ Len(path) \in Nat
    BY DEF IsFile
  <2>2. PICK k \in 1 .. Len(path) - 1 : k = dot
    <3>1. dots # {} /\ dots \subseteq 1 .. Len(path)
      BY <1>4
    <3>2. Max(dots) \in 1 .. Len(path)
      <4> HIDE DEF dots
      <4>1. QED
        BY <2>1, <3>1, MaxIs
    <3>3. dot = Max(dots)
      BY <3>1
    <3> HIDE DEF dot, dots
    <3>4. dot \in 1 .. Len(path) - 1
      BY <1>4, <2>1, <3>2, <3>3
    <3>5. QED
      BY <3>4
  <2> HIDE DEF dot, dots
  <2>3. PICK e \in Seq(Chars) : /\ e = SubSeq(path, k + 1, Len(path)) /\ Len(e) >= 1
                                /\ e[1] = path[k + 1]
    <3>1. k \in 0 .. Len(path) /\ Len(path) \in k .. Len(path)
      BY <2>1, <2>2
    <3>2. PICK e : e = SubSeq(path, k + 1, Len(path))
      OBVIOUS
    <3>3. e \in Seq(Chars) /\ Len(e) = Len(path) - k /\ \A i \in 1 .. Len(path) - k : e[i] = path[k + i]
      BY <2>1, <3>1, <3>2, SubSeqIs
    <3>4. Len(path) - k >= 1
      BY <2>1, <2>2
    <3>5. Len(e) >= 1 /\ e[1] = path[k + 1]
      BY <2>1, <3>3, <3>4
    <3>6. QED
      BY <3>2, <3>3, <3>5
  <2>4. e[1] # "fat:" /\ e # <<>>
    <3>1. PICK i : i = k + 1
      OBVIOUS
    <3>2. i \in DOMAIN path /\ i # 1
      BY <2>1, <2>2, <3>1
    <3>3. path[i] # "fat:"
      BY <3>2 DEF IsFile
    <3>4. e # <<>>
      <4>1. SUFFICES ASSUME e = <<>> PROVE FALSE
        OBVIOUS
      <4>2. Len(e) = 0
        BY <4>1
      <4>3. QED
        BY <2>3, <4>2
    <3>5. QED
      BY <2>3, <3>1, <3>3, <3>4
  <2>5. PICK q : q = toAbsPath(e, EXT_DIR)
    OBVIOUS
  <2>6. q \in Seq(Chars) /\ Len(q) >= 1 /\ q[1] = "/"
    <3>1. EXT_DIR \in Seq(Chars) /\ EXT_DIR # <<>> /\ EXT_DIR[1] = "/"
      BY CharsAssumption DEF EXT_DIR
    <3>2. CASE e[1] = "/"
      <4>1. q = e
        BY <2>4, <2>5, <3>2, AbsIs DEF Whole
      <4>2. QED
        BY <2>3, <3>2, <4>1
    <3>3. CASE e[1] # "/"
      <4>1. q = Under(EXT_DIR) \o e
        BY <2>4, <2>5, <3>3, AbsIs DEF Whole
      <4>2. PICK b \in Seq(Chars) : b = Under(EXT_DIR) /\ Len(b) >= 1 /\ b[1] = "/"
        <5>1. Len(EXT_DIR) >= 1
          BY DEF EXT_DIR
        <5>2. Under(EXT_DIR) \in Seq(Chars) /\ Len(Under(EXT_DIR)) >= Len(EXT_DIR)
                /\ Under(EXT_DIR)[1] = EXT_DIR[1]
          BY <3>1, UnderIs
        <5>3. Len(Under(EXT_DIR)) \in Nat /\ Len(EXT_DIR) \in Nat
          BY <3>1, <5>2
        <5>4. QED
          BY <3>1, <5>1, <5>2, <5>3
      <4>3. b \o e \in Seq(Chars) /\ Len(b \o e) = Len(b) + Len(e) /\ (b \o e)[1] = b[1]
        BY <4>2
      <4>4. QED
        BY <4>1, <4>2, <4>3
    <3>4. QED
      BY <3>2, <3>3
  <2>7. PICK t \in Seq(Chars) : t = q \o EXT_EXT /\ Len(t) >= 1 /\ t[1] = "/"
    <3>1. PICK x \in Seq(Chars) : x = EXT_EXT
      <4>1. "." \in Chars /\ "ext" \in Chars
        BY CharsAssumption
      <4>2. <<".", "ext">> \in Seq(Chars)
        BY <4>1
      <4>3. QED
        BY <4>2 DEF EXT_EXT
    <3>2. q \o x \in Seq(Chars) /\ Len(q \o x) = Len(q) + Len(x) /\ (q \o x)[1] = q[1]
      BY <2>6
    <3>3. Len(q) \in Nat /\ Len(x) \in Nat
      BY <2>6
    <3>4. PICK t : t = q \o x
      OBVIOUS
    <3>5. t \in Seq(Chars) /\ t = q \o EXT_EXT /\ Len(t) >= 1 /\ t[1] = "/"
      BY <2>6, <3>1, <3>2, <3>3, <3>4
    <3>6. QED
      BY <3>5
  <2>8. toExtPath(path) = t
    BY <1>1, <1>4, <2>2, <2>3, <2>5, <2>7
  <2>9. CString(t) = t /\ t # <<>> /\ t[1] # "fat:"
    <3>1. CString(t) = t
      BY <2>7, CStringOf
    <3>2. Len(<<>>) = 0
      OBVIOUS
    <3>3. t # <<>>
      BY <2>7, <3>2
    <3>4. QED
      BY <2>7, <3>1, <3>3
  <2>10. Located(t, dir) = t
    BY <2>7, <2>9 DEF Located, OnDevice
  <2>11. QED
    BY <2>8, <2>10
<1>5. QED
  BY <1>3, <1>4

\* A file without a program's extension has none in its directory either.
LEMMA AbsoluteNds ==
  ASSUME NEW path, IsFile(path), NEW dir, IsDir(dir), ~strCaseEnd(path, NDS_EXT)
  PROVE  ~strCaseEnd(toAbsPath(path, dir), NDS_EXT)
<1>1. path \in Seq(Chars) /\ Len(path) \in Nat
  BY DEF IsFile
<1>2. CASE path = <<>> \/ Whole(path)
  BY <1>1, <1>2, AbsIs
<1>3. CASE ~(path = <<>> \/ Whole(path))
  <2>1. PICK b \in Seq(Chars) : b = Under(dir) /\ Len(b) >= 2 /\ b[Len(b)] = "/"
    <3>1. Under(dir) \in Seq(Chars) /\ Len(Under(dir)) >= Len(dir) /\ Under(dir)[Len(Under(dir))] = "/"
      BY UnderIs DEF IsDir
    <3>2. Len(Under(dir)) \in Nat /\ Len(dir) \in Nat
      BY <3>1 DEF IsDir
    <3>3. QED
      BY <3>1, <3>2 DEF IsDir
  <2>2. PICK q \in Seq(Chars) : q = b \o path /\ Len(q) = Len(b) + Len(path)
    <3>1. b \o path \in Seq(Chars) /\ Len(b \o path) = Len(b) + Len(path)
      BY <1>1, <2>1
    <3>2. QED
      BY <3>1
  <2>3. /\ \A i \in 1 .. Len(b) : q[i] = b[i]
        /\ \A i \in 1 .. Len(path) : q[Len(b) + i] = path[i]
    BY <1>1, <2>1, <2>2
  <2>4. toAbsPath(path, dir) = q
    BY <1>1, <1>3, <2>1, <2>2, AbsIs
  <2>5. Len(path) >= 1
    BY <1>1, <1>3, EmptySeq
  <2>6. ASSUME EndsNds(q) PROVE EndsNds(path)
    <3>1. q[Len(q)] = path[Len(path)] /\ q[Len(q)] = "nds" /\ q[Len(q) - 1] = "."
      BY <1>1, <2>2, <2>3, <2>5, <2>6 DEF EndsNds
    <3>2. CASE Len(path) = 1
      <4>1. Len(q) - 1 = Len(b) /\ Len(b) \in 1 .. Len(b)
        BY <2>1, <2>2, <3>2
      <4>2. q[Len(q) - 1] = "/"
        BY <2>1, <2>3, <4>1
      <4>3. QED
        BY <3>1, <4>2
    <3>3. CASE Len(path) # 1
      <4>1. PICK i \in 1 .. Len(path) : i = Len(path) - 1 /\ Len(q) - 1 = Len(b) + i
        <5>1. PICK n \in Nat : n = Len(path) /\ n >= 2
          <6>1. PICK n \in Nat : n = Len(path)
            BY <1>1
          <6>2. n >= 2
            BY <2>5, <3>3, <6>1
          <6>3. QED
            BY <6>1, <6>2
        <5>2. PICK m \in Nat : m = Len(b)
          BY <2>1
        <5>3. n - 1 \in 1 .. n /\ (m + n) - 1 = m + (n - 1)
          BY <5>1
        <5>4. QED
          BY <2>2, <5>1, <5>2, <5>3
      <4>2. q[Len(q) - 1] = path[i]
        BY <2>3, <4>1
      <4>3. Len(path) >= 2
        <5>1. PICK n \in Nat : n = Len(path)
          BY <1>1
        <5>2. QED
          BY <2>5, <3>3, <5>1
      <4>4. QED
        BY <3>1, <4>1, <4>2, <4>3 DEF EndsNds
    <3>4. QED
      BY <3>2, <3>3
  <2>7. strCaseEnd(q, NDS_EXT) => EndsNds(q)
    BY EndsInNds
  <2>8. EndsNds(path) => strCaseEnd(path, NDS_EXT)
    BY <1>1, EndsInNds
  <2>9. QED
    BY <2>4, <2>6, <2>7, <2>8
<1>4. QED
  BY <1>2, <1>3

\* What the arguments of a path are, documented
ExpectedOf(card, dir, path) ==
  LET file == IF strCaseEnd(path, NDS_EXT) THEN <<>>
              ELSE IF strCaseEnd(path, ARG_EXT) THEN Located(path, dir)
              ELSE toExtPath(path)
      words == Documented(IF file \in DOMAIN card THEN card[file] ELSE <<>>)
      program1(base) == IF words = <<>> THEN <<>>
                        ELSE <<toAbsPath(words[1], base)>> \o Tail(words)
  IN  IF strCaseEnd(path, NDS_EXT) THEN <<toAbsPath(path, dir)>>
      ELSE IF strCaseEnd(path, ARG_EXT) THEN program1(dir)
      ELSE Append(program1(EXT_DIR), toAbsPath(path, dir))

\* A program that is expected and exists is among the arguments, first.
LEMMA ExpectedStarts ==
  ASSUME NEW card, ProperCard(card), NEW dir, IsDir(dir), NEW path, IsFile(path),
         NEW file, file = (IF strCaseEnd(path, NDS_EXT) THEN <<>>
                           ELSE IF strCaseEnd(path, ARG_EXT) THEN Located(path, dir)
                           ELSE toExtPath(path)),
         NEW lines, lines = (IF file \in DOMAIN card THEN card[file] ELSE <<>>),
         \A k \in DOMAIN lines : ~Contains(lines[k], "#"),
         lines # <<>> => Words(lines[1]) # <<>>,
         NEW expected, expected = ExpectedOf(card, dir, path),
         expected # <<>>, strCaseEnd(expected[1], NDS_EXT)
  PROVE  argarray(card, dir, path) # <<>> /\ argarray(card, dir, path)[1] = expected[1]
<1> DEFINE arr == argarray(card, dir, path)
<1>1. PICK words : words = Documented(lines)
  OBVIOUS
<1>2. expected =
        IF strCaseEnd(path, NDS_EXT) THEN <<toAbsPath(path, dir)>>
        ELSE IF strCaseEnd(path, ARG_EXT)
             THEN IF words = <<>> THEN <<>> ELSE Absolute(words, dir)
        ELSE Append(IF words = <<>> THEN <<>> ELSE Absolute(words, EXT_DIR), toAbsPath(path, dir))
  BY <1>1 DEF ExpectedOf, Absolute
<1>3. CASE strCaseEnd(path, NDS_EXT)
  <2>1. arr = Absolute(<<path>>, dir)
    BY <1>3, ArrayIs
  <2>2. <<path>> \in Seq(Seq(Chars)) /\ <<path>> # <<>> /\ <<path>>[1] = path
    BY DEF IsFile
  <2>3. arr # <<>> /\ arr[1] = toAbsPath(path, dir)
    BY <2>1, <2>2, AbsoluteIs
  <2>4. PICK a : a = toAbsPath(path, dir)
    OBVIOUS
  <2>5. expected = <<a>>
    BY <1>2, <1>3, <2>4
  <2>6. QED
    BY <2>3, <2>4, <2>5
<1>4. lines \in Seq(Seq(Chars))
  <2>1. \A p \in DOMAIN card : card[p] \in Seq(Seq(Chars))
    BY DEF ProperCard
  <2>2. <<>> \in Seq(Seq(Chars))
    BY EmptySeq
  <2>3. QED
    BY <2>1, <2>2
<1>5. words \in Seq(Seq(Chars))
  BY <1>1, <1>4, DocumentedType
<1>6. CASE ~strCaseEnd(path, NDS_EXT) /\ strCaseEnd(path, ARG_EXT)
  <2>1. Lines(card, dir, path) = lines
    BY <1>6 DEF Lines
  <2>2. PICK all : all = ListedIn(lines, dir)
    OBVIOUS
  <2>3. arr = all
    BY <1>6, <2>1, <2>2, ArrayIs
  <2>4. expected = IF words = <<>> THEN <<>> ELSE Absolute(words, dir)
    BY <1>2, <1>6
  <2>5. words # <<>> /\ expected = Absolute(words, dir)
    BY <2>4
  <2>6. expected[1] = toAbsPath(words[1], dir)
    BY <1>5, <2>5, AbsoluteIs
  <2>7. all # <<>> /\ all[1] = toAbsPath(words[1], dir)
    <3>1. BeginsAs(words, all, dir)
      BY <1>1, <1>4, <2>2, FirstExpected
    <3>2. QED
      BY <2>5, <3>1 DEF BeginsAs
  <2>8. QED
    BY <2>3, <2>6, <2>7
<1>7. CASE ~strCaseEnd(path, NDS_EXT) /\ ~strCaseEnd(path, ARG_EXT)
  <2>1. Lines(card, dir, toExtPath(path)) = lines
    <3>1. Located(toExtPath(path), dir) = toExtPath(path)
      BY HandlerIs
    <3>2. file = toExtPath(path)
      BY <1>7
    <3>3. QED
      BY <3>1, <3>2 DEF Lines
  <2>2. PICK all : all = ListedIn(lines, EXT_DIR)
    OBVIOUS
  <2>3. PICK last : last = toAbsPath(path, dir)
    OBVIOUS
  <2>4. arr = IF all = <<>> THEN <<>> ELSE Append(all, last)
    <3>1. arr = IF ListedIn(Lines(card, dir, toExtPath(path)), EXT_DIR) = <<>> THEN <<>>
                ELSE Append(ListedIn(Lines(card, dir, toExtPath(path)), EXT_DIR), toAbsPath(path, dir))
      BY <1>7, ArrayIs
    <3> HIDE DEF arr
    <3>2. QED
      BY <2>1, <2>2, <2>3, <3>1
  <2>5. expected = Append(IF words = <<>> THEN <<>> ELSE Absolute(words, EXT_DIR), last)
    BY <1>2, <1>7, <2>3
  <2>6. CASE words = <<>>
    <3>1. expected = <<last>>
      BY <2>5, <2>6
    <3>2. expected[1] = last
      BY <3>1
    <3>3. QED
      BY <1>7, <2>3, <3>2, AbsoluteNds
  <2>7. CASE words # <<>>
    <3>1. expected = Append(Absolute(words, EXT_DIR), last)
      BY <2>5, <2>7
    <3>2. expected[1] = toAbsPath(words[1], EXT_DIR)
      BY <1>5, <2>7, <3>1, AbsoluteIs
    <3>3. /\ all # <<>> /\ Append(all, last) # <<>>
          /\ Append(all, last)[1] = toAbsPath(words[1], EXT_DIR)
      <4>1. BeginsAs(words, all, EXT_DIR)
        BY <1>1, <1>4, <2>2, FirstExpected
      <4>2. QED
        BY <2>7, <4>1 DEF BeginsAs
    <3>4. QED
      BY <2>4, <3>2, <3>3
  <2>8. QED
    BY <2>6, <2>7
<1>8. QED
  BY <1>3, <1>6, <1>7

LEMMA UnderTwice ==
  ASSUME NEW dir, IsDir(dir)
  PROVE  Under(Under(dir)) = Under(dir)
<1>1. dir \in Seq(Chars) /\ dir # <<>>
  <2>1. Len(<<>>) = 0
    OBVIOUS
  <2>2. QED
    BY <2>1 DEF IsDir
<1>2. PICK b : b = Under(dir)
  OBVIOUS
<1>3. b \in Seq(Chars) /\ Len(b) >= Len(dir) /\ b[Len(b)] = "/"
  BY <1>1, <1>2, UnderIs
<1>4. b # <<>>
  <2>1. Len(dir) >= 2 /\ Len(<<>>) = 0
    BY DEF IsDir
  <2>2. QED
    BY <1>1, <1>3, <2>1
<1>5. IsSuffix(<<"/">>, b)
  BY <1>3, <1>4, EndsInSlash
<1>6. b \o <<>> = b
  BY <1>3, ConcatEmptySeq
<1>7. QED
  BY <1>2, <1>5, <1>6 DEF Under

\* In a plain file a path from the file's directory is one from the working
\* directory, which is what the code takes.
LEMMA PlainIs ==
  ASSUME Plain, NEW card, card = files, NEW dir, dir = cwd, IsDir(dir),
         NEW path, path = filePath, NEW lines, lines = ArgumentLines
  PROVE  /\ \A k \in DOMAIN lines : ~Contains(lines[k], "#")
         /\ lines # <<>> => Words(lines[1]) # <<>>
         /\ Expected = ExpectedOf(card, dir, path)
<1>1. /\ \A k \in DOMAIN lines : ~Contains(lines[k], "#")
      /\ lines # <<>> => Words(lines[1]) # <<>>
  BY DEF Plain, Commented
<1>2. \A base, p : PathIn(base, p) = toAbsPath(p, base)
  BY DEF PathIn, toAbsPath
<1>3. PICK words : words = Documented(lines)
  OBVIOUS
<1>4. PICK folder : folder = Folder(PathIn(dir, path))
  OBVIOUS
<1>5. Expected =
        IF strCaseEnd(path, NDS_EXT) THEN <<PathIn(dir, path)>>
        ELSE IF strCaseEnd(path, ARG_EXT)
             THEN IF words = <<>> THEN <<>> ELSE <<PathIn(folder, words[1])>> \o Tail(words)
        ELSE Append(IF words = <<>> THEN <<>> ELSE <<PathIn(EXT_DIR, words[1])>> \o Tail(words),
                    PathIn(dir, path))
  BY <1>3, <1>4 DEF Expected
<1>6. ExpectedOf(card, dir, path) =
        IF strCaseEnd(path, NDS_EXT) THEN <<toAbsPath(path, dir)>>
        ELSE IF strCaseEnd(path, ARG_EXT)
             THEN IF words = <<>> THEN <<>> ELSE <<toAbsPath(words[1], dir)>> \o Tail(words)
        ELSE Append(IF words = <<>> THEN <<>> ELSE <<toAbsPath(words[1], EXT_DIR)>> \o Tail(words),
                    toAbsPath(path, dir))
  BY <1>3 DEF ExpectedOf, ArgumentLines, ArgumentFile
<1>7. ASSUME strCaseEnd(path, ARG_EXT), words # <<>>
      PROVE  PathIn(folder, words[1]) = toAbsPath(words[1], dir)
  <2>1. folder = Under(dir) \/ IsAbsolute(words[1])
    BY <1>3, <1>4, <1>7 DEF Plain, Nearby
  <2>2. CASE folder = Under(dir)
    BY <2>2, UnderTwice DEF PathIn, toAbsPath
  <2>3. CASE IsAbsolute(words[1])
    BY <2>3 DEF PathIn, toAbsPath
  <2>4. QED
    BY <2>1, <2>2, <2>3
<1>8. QED
  BY <1>1, <1>2, <1>5, <1>6, <1>7

-----------------------------------------------------------------------------
\* The file that is started

FillPcs == {"fill", "stat", "pack", "patch", "load", "arguments", "started", "failed"}
FilledPcs == FillPcs \ {"fill"}
StartPcs == FilledPcs \ {"failed"}
PackPcs == StartPcs \ {"stat"}

\* The arguments are those of the path chosen, and a start fails only because of
\* them.
Where(p, card, dir, path, arr) ==
  /\ p \in FillPcs => IsFile(path)
  /\ p \in FilledPcs => arr = argarray(card, dir, path)
  /\ p \in StartPcs => argsFillArray(arr)
  /\ p \in PackPcs => Located(arr[1], dir) \in DOMAIN card
  /\ p = "failed" => ~argsFillArray(arr) \/ Located(arr[1], dir) \notin DOMAIN card

WhereInv ==
  /\ files \in Cards /\ IsDir(cwd)
  /\ at = "chosen" => IsName(chosen)
  /\ Where(pc, files, cwd, filePath, args)

\* Every entry is a name or the directory above, every directory entered a
\* working directory.
LEMMA RootIs == IsDir(Root)
<1>1. "fat:" \in Chars /\ "/" \in Chars
  BY CharsAssumption
<1>2. Root \in Seq(Chars) /\ Len(Root) = 2 /\ Root[1] = "fat:" /\ Root[2] = "/"
  BY <1>1 DEF Root
<1>3. QED
  BY <1>2 DEF IsDir

LEMMA AboveIs ==
  ASSUME NEW dir, IsDir(dir)
  PROVE  IsDir(Above(dir))
<1> DEFINE slashes == {i \in 1 .. Len(dir) : dir[i] = "/"}
           slash == IF slashes # {} THEN Max(slashes) ELSE 0
<1>1. Above(dir) = IF slash <= 2 THEN <<"fat:", "/">> ELSE SubSeq(dir, 1, slash - 1)
  BY DEF Above, SelectLastInSeq
<1>2. dir \in Seq(Chars) /\ Len(dir) \in Nat /\ Len(dir) >= 2 /\ dir[1] = "fat:" /\ dir[2] = "/"
  BY DEF IsDir
<1>3. slash \in 0 .. Len(dir)
  <2>1. slashes \subseteq 1 .. Len(dir)
    OBVIOUS
  <2>2. CASE slashes # {}
    <3> HIDE DEF slashes
    <3>1. Max(slashes) \in 1 .. Len(dir)
      BY <1>2, <2>1, <2>2, MaxIs
    <3>2. QED
      BY <1>2, <2>2, <3>1
  <2>3. CASE slashes = {}
    <3> HIDE DEF slashes
    <3>1. QED
      BY <1>2, <2>3
  <2>4. QED
    BY <2>2, <2>3
<1> HIDE DEF slash
<1>4. PICK k : k = slash
  OBVIOUS
<1>5. CASE k <= 2
  <2>1. IsDir(<<"fat:", "/">>)
    BY RootIs DEF Root
  <2>2. QED
    BY <1>1, <1>4, <1>5, <2>1
<1>6. CASE ~(k <= 2)
  <2>1. k \in 3 .. Len(dir)
    BY <1>2, <1>3, <1>4, <1>6
  <2>2. PICK s : s = SubSeq(dir, 1, k - 1)
    OBVIOUS
  <2>3. /\ s \in Seq(Chars) /\ Len(s) = k - 1 /\ s[1] = dir[1] /\ s[2] = dir[2]
    BY <1>2, <2>1, <2>2
  <2>4. IsDir(s)
    BY <1>2, <2>1, <2>3 DEF IsDir
  <2>5. QED
    BY <1>1, <1>4, <1>6, <2>2, <2>4
<1>7. QED
  BY <1>5, <1>6

LEMMA ChildIs ==
  ASSUME NEW dir, IsDir(dir), NEW name, name = Up \/ IsName(name)
  PROVE  IsDir(Child(dir, name))
<1>1. CASE name = Up
  BY <1>1, AboveIs DEF Child
<1>2. CASE name # Up
  <2>1. IsName(name) /\ Child(dir, name) = toAbsPath(name, dir)
    BY <1>2 DEF Child
  <2>2. name \in Seq(Chars) /\ name # <<>> /\ name[1] # "/" /\ name[1] # "fat:"
    <3>1. name \in Seq(Chars) /\ name # <<>> /\ name[1] # "/"
      BY <2>1 DEF IsName
    <3>2. 1 \in 1 .. Len(name)
      BY <3>1, EmptySeq
    <3>3. QED
      BY <2>1, <3>1, <3>2 DEF IsName
  <2>3. toAbsPath(name, dir) = Under(dir) \o name
    BY <2>2, AbsIs DEF Whole
  <2>4. PICK b \in Seq(Chars) : b = Under(dir) /\ Len(b) >= 2 /\ b[1] = "fat:" /\ b[2] = "/"
    <3>1. PICK b : b = Under(dir)
      OBVIOUS
    <3>2. /\ b \in Seq(Chars) /\ Len(b) >= Len(dir)
          /\ \A i \in 1 .. Len(dir) : b[i] = dir[i]
      BY <3>1, UnderIs DEF IsDir
    <3>3. Len(b) \in Nat /\ Len(dir) \in Nat
      BY <3>2 DEF IsDir
    <3>4. QED
      BY <3>1, <3>2, <3>3 DEF IsDir
  <2>5. PICK t : t = b \o name
    OBVIOUS
  <2>6. t \in Seq(Chars) /\ Len(t) = Len(b) + Len(name) /\ t[1] = b[1] /\ t[2] = b[2]
    BY <2>2, <2>4, <2>5
  <2>7. Len(t) >= 2
    <3>1. Len(name) \in Nat /\ Len(b) \in Nat
      BY <2>2, <2>4
    <3>2. QED
      BY <2>4, <2>6, <3>1
  <2>8. QED
    BY <2>1, <2>3, <2>4, <2>5, <2>6, <2>7 DEF IsDir
<1>3. QED
  BY <1>1, <1>2

LEMMA EntryListed ==
  ASSUME ProperCard(files), NEW dir, IsDir(dir),
         NEW n \in 1 .. Len(getDirectoryContents(dir))
  PROVE  /\ getDirectoryContents(dir)[n].isDirectory =>
              IsDir(Child(dir, getDirectoryContents(dir)[n].name))
         /\ ~getDirectoryContents(dir)[n].isDirectory => IsName(getDirectoryContents(dir)[n].name)
<1>1. IsFiniteSet(Listed(dir))
  BY ListedFinite DEF ProperCard
<1>2. Len(getDirectoryContents(dir)) = Cardinality(Listed(dir))
  <2>1. PICK c \in Nat : c = Cardinality(Listed(dir))
    BY <1>1, FS_CardinalityType
  <2> DEFINE e(m) == CHOOSE f \in Listed(dir) : Cardinality({g \in Listed(dir) : Before(g, f)}) = m - 1
  <2>2. getDirectoryContents(dir) = [m \in 1 .. c |-> e(m)]
    BY <2>1 DEF getDirectoryContents
  <2> HIDE DEF e
  <2>3. QED
    BY <2>1, <2>2
<1>3. PICK e : e = getDirectoryContents(dir)[n]
  OBVIOUS
<1>4. e \in Listed(dir)
  BY <1>1, <1>2, <1>3, ContentsListed
<1>5. e \in Names(dir)
  BY <1>4 DEF Listed
<1>6. (e.isDirectory /\ e.name = Up) \/ IsName(e.name)
  BY <1>5, NamesAre
<1>7. QED
  BY <1>3, <1>6, ChildIs

\* Wherever the browser goes is a directory, whatever it returns a file's name.
LEMMA PressKept ==
  ASSUME BrowseInv, IsDir(cwd), NEW pressed, Press(pressed)
  PROVE  IsDir(cwd') /\ (at' = "chosen" => IsName(chosen'))
<1>1. /\ files \in Cards /\ at = "keys" /\ CursorShown /\ Len(dirContents) > 0
  BY DEF BrowseInv, Press
<1>2. ProperCard(files)
  BY <1>1, LaunchAssumption
<1>3. PICK contents : contents = dirContents /\ contents = getDirectoryContents(cwd)
  BY <1>1 DEF CursorShown
<1>4. Len(contents) \in Nat
  <2>1. IsFiniteSet(DOMAIN files)
    BY <1>2 DEF ProperCard
  <2>2. QED
    BY <1>3, <2>1, ContentsAre
<1>5. fileOffset \in Int
  BY <1>1 DEF CursorShown
<1>6. PICK offset \in Int : offset = Cursor(pressed) /\ offset \in 0 .. Len(contents) - 1
  BY <1>1, <1>3, <1>4, <1>5, CursorIs
<1>7. PICK n \in 1 .. Len(contents) : n = offset + 1
  BY <1>4, <1>6
<1>8. PICK entry : entry = dirContents[offset + 1]
  OBVIOUS
<1>9. /\ entry.isDirectory => IsDir(Child(cwd, entry.name))
      /\ ~entry.isDirectory => IsName(entry.name)
  <2>1. entry = getDirectoryContents(cwd)[n] /\ n \in 1 .. Len(getDirectoryContents(cwd))
    BY <1>3, <1>7, <1>8
  <2>2. QED
    BY <1>2, <2>1, EntryListed
<1>10. IsDir(Child(cwd, Up))
  BY ChildIs
<1>11. CASE UNCHANGED <<cwd, dirContents, at, chosen>>
  BY <1>1, <1>11
<1>12. CASE at' = "chosen" /\ ~entry.isDirectory /\ chosen' = entry.name /\ cwd' = cwd
  BY <1>9, <1>12
<1>13. ASSUME NEW dir, IsDir(dir), ShowFirst(dir)
       PROVE  IsDir(cwd') /\ (at' = "chosen" => IsName(chosen'))
  <2>1. cwd' = dir /\ at' # "chosen"
    BY <1>13 DEF ShowFirst
  <2>2. QED
    BY <1>13, <2>1
<1>14. CASE /\ entry.isDirectory
            /\ \E entered \in {Child(cwd, entry.name)} :
                 ShowFirst(IF "B" \in pressed THEN Child(entered, Up) ELSE entered)
  <2>1. PICK entered, dir :
          /\ entered = Child(cwd, entry.name)
          /\ dir = IF "B" \in pressed THEN Child(entered, Up) ELSE entered
    OBVIOUS
  <2>2. ShowFirst(dir)
    BY <1>14, <2>1
  <2>3. IsDir(entered)
    BY <1>9, <1>14, <2>1
  <2>4. IsDir(dir)
    BY <2>1, <2>3, ChildIs
  <2>5. QED
    BY <1>13, <2>2, <2>4
<1>15. CASE ShowFirst(Child(cwd, Up))
  BY <1>10, <1>13, <1>15
<1>16. QED
  BY <1>6, <1>8, <1>11, <1>12, <1>14, <1>15 DEF Press

\* A step that starts nothing leaves what is known of the file started.
LEMMA WhereKept ==
  ASSUME NEW p, NEW q, NEW card, NEW dir, NEW path, NEW arr, Where(p, card, dir, path, arr),
         q = p \/ q \notin FillPcs \/ (p \in PackPcs /\ q \in PackPcs)
  PROVE  Where(q, card, dir, path, arr)
BY DEF Where, FillPcs, FilledPcs, StartPcs, PackPcs

LEMMA FilesKept ==
  ASSUME WhereInv, UNCHANGED <<files, cwd, filePath, args>>,
         at' = "chosen" => at = "chosen" /\ chosen' = chosen,
         pc' = pc \/ pc' \notin FillPcs \/ (pc \in PackPcs /\ pc' \in PackPcs)
  PROVE  WhereInv'
<1>1. files' \in Cards /\ IsDir(cwd')
  BY DEF WhereInv
<1>2. at' = "chosen" => IsName(chosen')
  BY DEF WhereInv
<1>3. PICK p, q, card, dir, path, arr :
        p = pc /\ q = pc' /\ card = files /\ dir = cwd /\ path = filePath /\ arr = args
  OBVIOUS
<1>4. Where(q, card, dir, path, arr)
  BY <1>3, WhereKept DEF WhereInv
<1>5. Where(pc', files', cwd', filePath', args')
  BY <1>3, <1>4
<1>6. QED
  BY <1>1, <1>2, <1>5 DEF WhereInv

\* A name is a file in the working directory.
LEMMA NameFile ==
  ASSUME NEW name, IsName(name)
  PROVE  IsFile(name)
BY DEF IsName, IsFile

LEMMA WhereStep ==
  ASSUME BrowseInv, WhereInv, [Next]_vars
  PROVE  WhereInv'
<1> USE DEF FillPcs, FilledPcs, StartPcs, PackPcs
<1>1. CASE MinibootPatch
  <2>1. /\ UNCHANGED <<files, browser, filePath, args>> /\ pc' \in {"menu", "stopped"}
    BY <1>1 DEF MinibootPatch, Goto
  <2>2. QED
    BY <2>1, FilesKept DEF browser
<1>2. CASE Hotkey
  <2>1. CASE pc' = "browse"
    <3>1. UNCHANGED <<files, browser, filePath, args>>
      BY <1>2, <2>1 DEF Hotkey, Goto
    <3>2. QED
      BY <2>1, <3>1, FilesKept DEF browser
  <2>2. CASE pc' # "browse"
    <3>1. /\ pc' = "fill" /\ filePath' \in Hotkeys /\ UNCHANGED <<files, browser, args>>
      BY <1>2, <2>2 DEF Hotkey, Goto
    <3>2. IsFile(filePath')
      BY <3>1, LaunchAssumption DEF IsFile
    <3>3. Where(pc', files', cwd', filePath', args')
      BY <3>1, <3>2 DEF Where
    <3>4. QED
      BY <3>1, <3>3 DEF WhereInv, browser
  <2>3. QED
    BY <2>1, <2>2
<1>3. CASE Browse
  <2>1. pc = "browse" /\ UNCHANGED <<files, pc, filePath, args>>
    BY <1>3 DEF Browse
  <2>2. Where(pc', files', cwd', filePath', args')
    BY <2>1 DEF Where
  <2>3. IsDir(cwd') /\ (at' = "chosen" => IsName(chosen'))
    <3>1. CASE browseForFile
      BY <3>1 DEF browseForFile, ShowFirst, WhereInv
    <3>2. CASE \E pressed \in SUBSET Keys \ {{}} : Press(pressed)
      BY <3>2, PressKept DEF WhereInv
    <3>3. QED
      BY <1>3, <3>1, <3>2 DEF Browse
  <2>4. QED
    BY <2>1, <2>2, <2>3 DEF WhereInv
<1>4. CASE Chosen
  <2>1. /\ pc' = "fill" /\ at = "chosen" /\ at' = "away" /\ filePath' = chosen
        /\ UNCHANGED <<files, cwd, args>>
    BY <1>4 DEF Chosen, Goto, Return
  <2>2. IsFile(filePath')
    BY <2>1, NameFile DEF WhereInv
  <2>3. Where(pc', files', cwd', filePath', args')
    BY <2>1, <2>2 DEF Where
  <2>4. QED
    BY <2>1, <2>3 DEF WhereInv
<1>5. CASE FillArray
  <2>1. /\ pc = "fill" /\ args' = argarray(files, cwd, filePath)
        /\ pc' = IF argsFillArray(args') THEN "stat" ELSE "failed"
        /\ UNCHANGED <<files, browser, filePath>>
    BY <1>5 DEF FillArray, Goto
  <2>2. PICK p, card, dir, path, arr :
          p = pc' /\ card = files /\ dir = cwd /\ path = filePath /\ arr = args'
    OBVIOUS
  <2>3. arr = argarray(card, dir, path)
    BY <2>1, <2>2
  <2>4. p = IF argsFillArray(arr) THEN "stat" ELSE "failed"
    BY <2>1, <2>2
  <2>5. IsFile(path)
    BY <2>1, <2>2 DEF WhereInv, Where
  <2>6. Where(p, card, dir, path, arr)
    BY <2>3, <2>4, <2>5 DEF Where
  <2>7. files' = card /\ cwd' = dir /\ filePath' = path
    BY <2>1, <2>2 DEF browser
  <2>8. Where(pc', files', cwd', filePath', args')
    BY <2>2, <2>6, <2>7
  <2>9. QED
    BY <2>1, <2>8 DEF WhereInv, browser
<1>6. CASE Stat
  <2>1. /\ pc = "stat" /\ UNCHANGED <<files, browser, filePath, args>>
        /\ pc' = IF Located(args[1], cwd) \in DOMAIN files THEN "pack" ELSE "failed"
    BY <1>6 DEF Stat, Goto
  <2>2. PICK p, card, dir, path, arr :
          p = pc' /\ card = files /\ dir = cwd /\ path = filePath /\ arr = args
    OBVIOUS
  <2>3. Where("stat", card, dir, path, arr)
    BY <2>1, <2>2 DEF WhereInv
  <2>4. p = IF Located(arr[1], dir) \in DOMAIN card THEN "pack" ELSE "failed"
    BY <2>1, <2>2
  <2>5. Where(p, card, dir, path, arr)
    BY <2>3, <2>4 DEF Where
  <2>6. files' = card /\ cwd' = dir /\ filePath' = path /\ args' = arr
    BY <2>1, <2>2 DEF browser
  <2>7. Where(pc', files', cwd', filePath', args')
    BY <2>2, <2>5, <2>6
  <2>8. QED
    BY <2>1, <2>7 DEF WhereInv, browser
<1>7. CASE PackArguments \/ PatchLoader \/ PatchProgram \/ PassArguments
  <2>1. /\ UNCHANGED <<files, browser, filePath, args>>
        /\ pc \in PackPcs /\ (pc' \in PackPcs \/ pc' = "stopped")
    BY <1>7 DEF PackArguments, PatchLoader, PatchProgram, PassArguments, Goto
  <2>2. QED
    BY <2>1, FilesKept DEF browser
<1>8. CASE Continue
  <2>1. UNCHANGED <<files, browser, filePath, args>> /\ pc' = "browse"
    BY <1>8 DEF Continue, Goto
  <2>2. QED
    BY <2>1, FilesKept DEF browser
<1>9. CASE UNCHANGED vars
  BY <1>9, FilesKept DEF vars, browser
<1>10. QED
  BY <1>1, <1>2, <1>3, <1>4, <1>5, <1>6, <1>7, <1>8, <1>9 DEF Next

LEMMA WhereAlways == Spec => [](BrowseInv /\ WhereInv)
<1>1. Init => BrowseInv /\ WhereInv
  BY RootIs DEF Init, BrowseInv, WhereInv, Where, FillPcs, FilledPcs, StartPcs, PackPcs
<1>2. BrowseInv /\ WhereInv /\ [Next]_vars => (BrowseInv /\ WhereInv)'
  BY BrowseKept, WhereStep
<1>3. QED
  BY <1>1, <1>2, PTL DEF Spec

\* The banner the browser shows for a file is that of the program the file
\* starts, for all cards: the parser that looks for the program and the one that
\* makes the argument list agree on it (args.cpp:54-141).
THEOREM ProgramShown == Spec => []ShownIsStarted
<1>1. ASSUME WhereInv PROVE ShownIsStarted
  <2> SUFFICES ASSUME pc = "started"
               PROVE  Located(argsNdsPath(files, cwd, filePath), cwd) = Located(args[1], cwd)
    BY DEF ShownIsStarted
  <2>1. PICK card, dir, path, arr : card = files /\ dir = cwd /\ path = filePath /\ arr = args
    OBVIOUS
  <2>2. Where("started", card, dir, path, arr) /\ ProperCard(card) /\ IsDir(dir)
    BY <1>1, <2>1, LaunchAssumption DEF WhereInv
  <2>3. /\ IsFile(path) /\ arr = argarray(card, dir, path) /\ argsFillArray(arr)
        /\ Located(arr[1], dir) \in DOMAIN card
    BY <2>2 DEF Where, FillPcs, FilledPcs, StartPcs, PackPcs
  <2>4. Located(argsNdsPath(card, dir, path), dir) = Located(arr[1], dir)
    BY <2>2, <2>3, ShownStarted
  <2>5. QED
    BY <2>1, <2>4
<1>2. QED
  BY <1>1, WhereAlways, PTL

\* No existing program that a plain file gives first, by its whole path or by one
\* from the file's directory, is refused, for all cards (args.cpp:231-279).
THEOREM WellFormedFilesStart == Spec => []WellFormedStarts
<1>1. ASSUME WhereInv PROVE WellFormedStarts
  <2> SUFFICES ASSUME pc = "failed", Plain, Expected # <<>>, strCaseEnd(Expected[1], NDS_EXT)
               PROVE  Located(Expected[1], cwd) \notin DOMAIN files
    BY DEF WellFormedStarts
  <2>1. PICK card, dir, path, arr, file, lines, expected :
          /\ card = files /\ dir = cwd /\ path = filePath /\ arr = args
          /\ file = ArgumentFile /\ lines = ArgumentLines /\ expected = Expected
    OBVIOUS
  <2>2. Where("failed", card, dir, path, arr) /\ ProperCard(card) /\ IsDir(dir)
    BY <1>1, <2>1, LaunchAssumption DEF WhereInv
  <2>3. /\ IsFile(path) /\ arr = argarray(card, dir, path)
        /\ ~argsFillArray(arr) \/ Located(arr[1], dir) \notin DOMAIN card
    BY <2>2 DEF Where, FillPcs, FilledPcs
  <2>4. file = IF strCaseEnd(path, NDS_EXT) THEN <<>>
               ELSE IF strCaseEnd(path, ARG_EXT) THEN Located(path, dir)
               ELSE toExtPath(path)
    BY <2>1 DEF ArgumentFile
  <2>5. lines = IF file \in DOMAIN card THEN card[file] ELSE <<>>
    BY <2>1 DEF ArgumentLines
  <2>6. /\ \A k \in DOMAIN lines : ~Contains(lines[k], "#")
        /\ lines # <<>> => Words(lines[1]) # <<>>
    BY <2>1, <2>2, PlainIs
  <2>7. expected = ExpectedOf(card, dir, path)
    BY <2>1, <2>2, PlainIs
  <2>8. expected # <<>> /\ strCaseEnd(expected[1], NDS_EXT)
    BY <2>1
  <2>9. arr # <<>> /\ arr[1] = expected[1]
    BY <2>2, <2>3, <2>4, <2>5, <2>6, <2>7, <2>8, ExpectedStarts
  <2>10. argsFillArray(arr)
    BY <2>8, <2>9 DEF argsFillArray
  <2>11. QED
    BY <2>1, <2>3, <2>9, <2>10
<1>2. QED
  BY <1>1, WhereAlways, PTL

-----------------------------------------------------------------------------
\* Counting up: what holds of 0 and of each number's successor holds up to n.
LEMMA UpTo ==
  ASSUME NEW n \in Nat, NEW G, 0 \in G, \A i \in 0 .. n - 1 : i \in G => i + 1 \in G
  PROVE  \A i \in 0 .. n : i \in G
<1> SUFFICES ASSUME NEW k \in 0 .. n, k \notin G PROVE FALSE
  OBVIOUS
<1> DEFINE bad == {i \in 0 .. n : i \notin G}
<1>1. k \in bad /\ bad \subseteq Nat
  OBVIOUS
<1>2. PICK m \in bad : \A j \in bad : m <= j
  <2> HIDE DEF bad
  <2>1. QED
    BY <1>1, LeastExists
<1>3. m # 0 /\ m \in Nat /\ m <= n
  OBVIOUS
<1>4. m - 1 \in 0 .. n - 1 /\ m - 1 \in 0 .. n
  BY <1>3
<1>5. m - 1 \in G
  <2>1. m - 1 \notin bad
    BY <1>2, <1>3, <1>4
  <2>2. QED
    BY <1>4, <2>1
<1>6. (m - 1) + 1 \in G
  BY <1>4, <1>5
<1>7. QED
  BY <1>3, <1>6

\* The first i texts of a concatenation
LEMMA FlattenSteps ==
  ASSUME NEW X, NEW texts \in Seq(Seq(X))
  PROVE  \E g : /\ g[0] = <<>> /\ g[Len(texts)] = FlattenSeq(texts)
                /\ \A i \in 0 .. Len(texts) : g[i] \in Seq(X)
                /\ \A i \in 1 .. Len(texts) : g[i] = g[i - 1] \o texts[i]
<1>1. PICK n \in Nat : n = Len(texts) /\ \A i \in 1 .. n : texts[i] \in Seq(X)
  OBVIOUS
<1>2. CASE n = 0
  <2>1. FlattenSeq(texts) = <<>>
    <3>1. Len(texts) = 0
      BY <1>1, <1>2
    <3>2. texts = <<>>
      BY <3>1
    <3>3. FlattenSeq(texts) = texts
      BY <3>1 DEF FlattenSeq
    <3>4. QED
      BY <3>2, <3>3
  <2> DEFINE g == [i \in {0} |-> <<>>]
  <2>2. g[0] = <<>> /\ <<>> \in Seq(X)
    BY EmptySeq
  <2> HIDE DEF g
  <2>3. \A i \in 0 .. n : i = 0
    BY <1>2
  <2>4. \A i \in 1 .. n : FALSE
    BY <1>2
  <2>5. g[n] = FlattenSeq(texts) /\ \A i \in 0 .. n : g[i] \in Seq(X)
    BY <1>2, <2>1, <2>2, <2>3
  <2>6. QED
    BY <1>1, <2>2, <2>4, <2>5
<1>3. CASE n # 0
  <2>1. PICK f : Concat(texts, n, f) /\ FlattenSeq(texts) = f[n]
    <3>1. \E f : Concat(texts, n, f)
      BY ConcatExists
    <3>2. QED
      BY <1>1, <1>3, <3>1 DEF FlattenSeq, Concat
  <2> DEFINE h == [i \in 1 .. n |-> IF i = 1 THEN texts[i] ELSE f[i - 1] \o texts[i]]
  <2>2. f = h /\ 1 \in 1 .. n
    <3>1. f = h
      BY <2>1 DEF Concat
    <3> HIDE DEF h
    <3>2. 1 \in 1 .. n
      BY <1>1, <1>3
    <3>3. QED
      BY <3>1, <3>2
  <2>3. f[1] = texts[1] /\ \A i \in 2 .. n : f[i] = f[i - 1] \o texts[i]
    <3>1. h[1] = texts[1]
      BY <2>2
    <3>2. \A i \in 2 .. n : i \in 1 .. n /\ i # 1
      OBVIOUS
    <3>3. \A i \in 2 .. n : h[i] = f[i - 1] \o texts[i]
      BY <3>2
    <3> HIDE DEF h
    <3>4. QED
      BY <2>2, <3>1, <3>3
  <2> HIDE DEF h
  <2> DEFINE g == [i \in 0 .. n |-> IF i = 0 THEN <<>> ELSE f[i]]
  <2>4. g[0] = <<>> /\ g[n] = FlattenSeq(texts)
    BY <1>3, <2>1
  <2>5. \A i \in 1 .. n : g[i] = f[i] /\ (i # 1 => g[i - 1] = f[i - 1])
    OBVIOUS
  <2> HIDE DEF g
  <2>6. ASSUME NEW i \in 1 .. n PROVE g[i] = g[i - 1] \o texts[i]
    <3>1. CASE i = 1
      <4>1. g[i] = texts[i] /\ g[i - 1] = <<>> /\ texts[i] \in Seq(X)
        BY <1>1, <2>3, <2>4, <2>5, <3>1
      <4>2. QED
        BY <4>1, ConcatEmptySeq
    <3>2. CASE i # 1
      <4>1. i \in 2 .. n
        BY <3>2
      <4>2. QED
        BY <2>3, <2>5, <3>2, <4>1
    <3>3. QED
      BY <3>1, <3>2
  <2>7. \A i \in 0 .. n : g[i] \in Seq(X)
    <3> DEFINE G == {i \in 0 .. n : g[i] \in Seq(X)}
    <3>1. 0 \in G
      <4>1. <<>> \in Seq(X) /\ 0 \in 0 .. n
        BY <1>1, EmptySeq
      <4>2. QED
        BY <2>4, <4>1
    <3>2. ASSUME NEW i \in 0 .. n - 1, i \in G PROVE i + 1 \in G
      <4>1. i + 1 \in 1 .. n /\ (i + 1) - 1 = i /\ i + 1 \in 0 .. n
        OBVIOUS
      <4>2. g[i + 1] = g[i] \o texts[i + 1] /\ texts[i + 1] \in Seq(X)
        BY <1>1, <2>6, <4>1
      <4>3. g[i + 1] \in Seq(X)
        BY <3>2, <4>2
      <4>4. QED
        BY <4>1, <4>3
    <3>3. \A i \in 0 .. n : i \in G
      <4> HIDE DEF G
      <4>1. QED
        BY <3>1, <3>2, UpTo
    <3>4. QED
      BY <3>3
  <2>8. QED
    BY <1>1, <2>4, <2>6, <2>7
<1>4. QED
  BY <1>2, <1>3

LEMMA FlattenAppend ==
  ASSUME NEW X, NEW texts \in Seq(Seq(X)), NEW e \in Seq(X)
  PROVE  FlattenSeq(Append(texts, e)) = FlattenSeq(texts) \o e
<1>1. PICK n \in Nat : n = Len(texts)
  OBVIOUS
<1>2. PICK t \in Seq(Seq(X)) : t = Append(texts, e) /\ Len(t) = n + 1 /\ t[n + 1] = e
                                /\ \A i \in 1 .. n : t[i] = texts[i]
  <2>1. PICK t : t = Append(texts, e)
    OBVIOUS
  <2>2. t \in Seq(Seq(X)) /\ Len(t) = Len(texts) + 1 /\ t[Len(texts) + 1] = e
          /\ \A i \in 1 .. Len(texts) : t[i] = texts[i]
    BY <2>1, AppendProperties
  <2>3. QED
    BY <1>1, <2>1, <2>2
<1>3. PICK g : /\ g[0] = <<>> /\ g[n] = FlattenSeq(texts)
               /\ \A i \in 1 .. n : g[i] = g[i - 1] \o texts[i]
  BY <1>1, FlattenSteps
<1>4. PICK h : /\ h[0] = <<>> /\ h[n + 1] = FlattenSeq(t)
               /\ \A i \in 1 .. n + 1 : h[i] = h[i - 1] \o t[i]
  <2>1. PICK h : /\ h[0] = <<>> /\ h[Len(t)] = FlattenSeq(t)
                 /\ \A i \in 1 .. Len(t) : h[i] = h[i - 1] \o t[i]
    BY FlattenSteps
  <2>2. QED
    BY <1>2, <2>1
<1> DEFINE G == {i \in 0 .. n : g[i] = h[i]}
<1>5. 0 \in G
  BY <1>3, <1>4
<1>6. ASSUME NEW i \in 0 .. n - 1, i \in G PROVE i + 1 \in G
  <2>1. i + 1 \in 1 .. n /\ i + 1 \in 1 .. n + 1 /\ (i + 1) - 1 = i /\ i + 1 \in 0 .. n
    OBVIOUS
  <2>2. g[i + 1] = g[i] \o texts[i + 1] /\ h[i + 1] = h[i] \o t[i + 1]
    BY <1>3, <1>4, <2>1
  <2>3. QED
    BY <1>2, <1>6, <2>1, <2>2
<1>7. \A i \in 0 .. n : i \in G
  <2> HIDE DEF G
  <2>1. QED
    BY <1>5, <1>6, UpTo
<1>8. g[n] = h[n]
  BY <1>7
<1>9. h[n + 1] = h[n] \o e
  <2>1. n + 1 \in 1 .. n + 1 /\ (n + 1) - 1 = n
    OBVIOUS
  <2>2. QED
    BY <1>2, <1>4, <2>1
<1>10. QED
  BY <1>2, <1>3, <1>4, <1>8, <1>9

\* The first i elements
Take(s, i) == SubSeq(s, 1, i)

LEMMA TakeNext ==
  ASSUME NEW X, NEW s \in Seq(X)
  PROVE  /\ Take(s, 0) = <<>> /\ Take(s, Len(s)) = s
         /\ \A i \in 0 .. Len(s) : Take(s, i) \in Seq(X) /\ Len(Take(s, i)) = i
         /\ \A i \in 0 .. Len(s) - 1 : Take(s, i + 1) = Append(Take(s, i), s[i + 1])
<1>1. Take(s, 0) = <<>> /\ Take(s, Len(s)) = s
  BY SubSeqFull, SubSeqEmpty DEF Take
<1>2. ASSUME NEW i \in 0 .. Len(s)
      PROVE  /\ Take(s, i) \in Seq(X) /\ Len(Take(s, i)) = i
             /\ \A k \in 1 .. i : Take(s, i)[k] = s[k]
  BY DEF Take
<1>3. ASSUME NEW i \in 0 .. Len(s) - 1
      PROVE  Take(s, i + 1) = Append(Take(s, i), s[i + 1])
  <2>1. i \in 0 .. Len(s) /\ i + 1 \in 0 .. Len(s) /\ s[i + 1] \in X
    OBVIOUS
  <2>2. PICK a \in Seq(X) : a = Take(s, i) /\ Len(a) = i /\ \A k \in 1 .. i : a[k] = s[k]
    BY <1>2, <2>1
  <2>3. PICK b \in Seq(X) : b = Take(s, i + 1) /\ Len(b) = i + 1 /\ \A k \in 1 .. i + 1 : b[k] = s[k]
    BY <1>2, <2>1
  <2>4. PICK c : c = Append(a, s[i + 1])
    OBVIOUS
  <2>5. /\ c \in Seq(X) /\ Len(c) = i + 1 /\ \A k \in 1 .. i : c[k] = a[k]
        /\ c[i + 1] = s[i + 1]
    BY <2>1, <2>2, <2>4, AppendProperties
  <2>6. \A k \in 1 .. Len(b) : b[k] = c[k]
    BY <2>2, <2>3, <2>5
  <2>7. b = c
    BY <2>3, <2>5, <2>6, SeqEqual
  <2>8. QED
    BY <2>2, <2>3, <2>4, <2>7
<1>4. QED
  BY <1>1, <1>2, <1>3

LEMMA ConcatAppend ==
  ASSUME NEW X, NEW a \in Seq(X), NEW b \in Seq(X), NEW e \in X
  PROVE  a \o Append(b, e) = Append(a \o b, e)
<1>1. PICK o \in Seq(X) : o = <<e>>
  <2>1. <<e>> \in Seq(X)
    OBVIOUS
  <2>2. QED
    BY <2>1
<1>2. Append(b, e) = b \o o
  BY <1>1, AppendIsConcat
<1>3. a \o b \in Seq(X)
  OBVIOUS
<1>4. Append(a \o b, e) = (a \o b) \o o
  BY <1>1, <1>3, AppendIsConcat
<1>5. QED
  BY <1>2, <1>4, ConcatAssociative

\* The texts of a list that are not empty
One(e) == IF e = <<>> THEN <<>> ELSE <<e>>
Keep(a) == FlattenSeq([k \in 1 .. Len(a) |-> One(a[k])])

LEMMA OneIs ==
  ASSUME NEW X, NEW e \in X
  PROVE  One(e) \in Seq(X)
<1>1. <<>> \in Seq(X) /\ <<e>> \in Seq(X)
  BY EmptySeq
<1>2. QED
  BY <1>1 DEF One

LEMMA KeepIs ==
  ASSUME NEW X, NEW a \in Seq(X)
  PROVE  /\ Keep(a) \in Seq(X) /\ (a = <<>> => Keep(a) = <<>>)
         /\ \A e \in X : Keep(Append(a, e)) = Keep(a) \o One(e)
<1> DEFINE texts(s) == [k \in 1 .. Len(s) |-> One(s[k])]
<1>1. ASSUME NEW s \in Seq(X) PROVE texts(s) \in Seq(Seq(X))
  <2>1. PICK n \in Nat : n = Len(s) /\ \A k \in 1 .. n : s[k] \in X
    OBVIOUS
  <2>2. \A k \in 1 .. n : One(s[k]) \in Seq(X)
    BY <2>1, OneIs
  <2>3. QED
    BY <2>1, <2>2
<1>2. Keep(a) \in Seq(X)
  BY <1>1, FlattenIs DEF Keep
<1>3. a = <<>> => Keep(a) = <<>>
  <2> SUFFICES ASSUME a = <<>> PROVE Keep(a) = <<>>
    OBVIOUS
  <2>1. texts(a) = <<>>
    OBVIOUS
  <2>2. FlattenSeq(<<>>) = <<>>
    BY DEF FlattenSeq
  <2>3. QED
    BY <2>1, <2>2 DEF Keep
<1>4. ASSUME NEW e \in X PROVE Keep(Append(a, e)) = Keep(a) \o One(e)
  <2>1. PICK n \in Nat : n = Len(a)
    OBVIOUS
  <2>2. PICK b : b = Append(a, e)
    OBVIOUS
  <2>3. b \in Seq(X) /\ Len(b) = n + 1 /\ b[n + 1] = e /\ \A k \in 1 .. n : b[k] = a[k]
    BY <2>1, <2>2, AppendProperties
  <2>4. PICK t \in Seq(Seq(X)) : t = texts(a) /\ Len(t) = n /\ \A k \in 1 .. n : t[k] = One(a[k])
    <3>1. PICK m \in Nat : m = Len(a)
      BY <2>1
    <3>2. Len(texts(a)) = m /\ \A k \in 1 .. m : texts(a)[k] = One(a[k])
      BY <3>1
    <3>3. texts(a) \in Seq(Seq(X))
      BY <1>1
    <3> HIDE DEF texts
    <3>4. QED
      BY <2>1, <3>1, <3>2, <3>3
  <2>5. PICK u \in Seq(Seq(X)) : u = texts(b) /\ Len(u) = n + 1 /\ \A k \in 1 .. n + 1 : u[k] = One(b[k])
    <3>1. PICK m \in Nat : m = Len(b) /\ m = n + 1
      BY <2>1, <2>3
    <3>2. Len(texts(b)) = m /\ \A k \in 1 .. m : texts(b)[k] = One(b[k])
      BY <3>1
    <3>3. texts(b) \in Seq(Seq(X))
      BY <1>1, <2>3
    <3> HIDE DEF texts
    <3>4. QED
      BY <3>1, <3>2, <3>3
  <2>6. PICK o \in Seq(X) : o = One(e)
    BY OneIs
  <2>7. PICK v : v = Append(t, o)
    OBVIOUS
  <2>8. v \in Seq(Seq(X)) /\ Len(v) = n + 1 /\ v[n + 1] = o /\ \A k \in 1 .. n : v[k] = t[k]
    BY <2>4, <2>7, AppendProperties
  <2>9. ASSUME NEW k \in Nat, 1 <= k, k <= n + 1 PROVE u[k] = v[k]
    <3>1. u[k] = One(b[k])
      BY <2>1, <2>5, <2>9
    <3>2. CASE k = n + 1
      BY <2>3, <2>6, <2>8, <3>1, <3>2
    <3>3. CASE k <= n
      <4>1. k \in 1 .. n
        BY <2>9, <3>3
      <4>2. QED
        BY <2>3, <2>4, <2>8, <3>1, <4>1
    <3>4. QED
      BY <2>1, <2>9, <3>2, <3>3
  <2>10. u = v
    <3>1. \A k \in 1 .. n + 1 : k \in Nat /\ 1 <= k /\ k <= n + 1
      BY <2>1
    <3>2. \A k \in 1 .. n + 1 : u[k] = v[k]
      BY <2>9, <3>1
    <3>3. \A k \in 1 .. Len(u) : u[k] = v[k]
      BY <2>5, <3>2
    <3>4. QED
      BY <2>5, <2>8, <3>3, SeqEqual
  <2>11. FlattenSeq(v) = FlattenSeq(t) \o o
    BY <2>7, FlattenAppend
  <2>12. Keep(b) = FlattenSeq(u) /\ Keep(a) = FlattenSeq(t)
    BY <2>4, <2>5 DEF Keep
  <2>13. QED
    BY <2>2, <2>6, <2>10, <2>11, <2>12
<1>5. QED
  BY <1>2, <1>3, <1>4

LEMMA KeepConcat ==
  ASSUME NEW X, NEW a \in Seq(X), NEW b \in Seq(X)
  PROVE  Keep(a \o b) = Keep(a) \o Keep(b)
<1>1. PICK n \in Nat : n = Len(b)
  OBVIOUS
<1> DEFINE G == {i \in 0 .. n : Keep(a \o Take(b, i)) = Keep(a) \o Keep(Take(b, i))}
<1>2. 0 \in G
  <2>1. PICK e \in Seq(X) : e = Take(b, 0) /\ e = <<>>
    BY TakeNext, EmptySeq
  <2>2. Keep(e) = <<>> /\ Keep(a) \in Seq(X)
    BY <2>1, KeepIs
  <2>3. a \o e = a /\ Keep(a) \o Keep(e) = Keep(a)
    BY <2>1, <2>2, ConcatEmptySeq
  <2>4. Keep(a \o Take(b, 0)) = Keep(a) \o Keep(Take(b, 0)) /\ 0 \in 0 .. n
    <3>1. Keep(a \o e) = Keep(a) \o Keep(e)
      BY <2>3
    <3>2. Keep(a \o Take(b, 0)) = Keep(a) \o Keep(Take(b, 0))
      BY <2>1, <3>1
    <3>3. QED
      BY <1>1, <3>2
  <2>5. QED
    BY <2>4
<1>3. ASSUME NEW i \in 0 .. n - 1, i \in G PROVE i + 1 \in G
  <2>1. PICK s \in Seq(X) : s = Take(b, i)
    BY <1>1, TakeNext
  <2>2. PICK e \in X : e = b[i + 1]
    BY <1>1
  <2>3. Take(b, i + 1) = Append(s, e)
    BY <1>1, <2>1, <2>2, TakeNext
  <2>4. PICK c \in Seq(X) : c = a \o s
    <3>1. a \o s \in Seq(X)
      BY ConcatProperties
    <3>2. QED
      BY <3>1
  <2>5. a \o Append(s, e) = Append(c, e)
    BY <2>4, ConcatAppend
  <2>6. Keep(Append(c, e)) = Keep(c) \o One(e) /\ Keep(Append(s, e)) = Keep(s) \o One(e)
    BY KeepIs
  <2>7. Keep(a) \in Seq(X) /\ Keep(s) \in Seq(X) /\ One(e) \in Seq(X)
    BY KeepIs, OneIs
  <2>8. (Keep(a) \o Keep(s)) \o One(e) = Keep(a) \o (Keep(s) \o One(e))
    BY <2>7, ConcatAssociative
  <2>9. Keep(c) = Keep(a) \o Keep(s)
    BY <1>3, <2>1, <2>4
  <2>10. Keep(a \o Take(b, i + 1)) = Keep(a) \o Keep(Take(b, i + 1))
    BY <2>3, <2>5, <2>6, <2>8, <2>9
  <2>11. i + 1 \in 0 .. n
    OBVIOUS
  <2>12. QED
    BY <2>10, <2>11
<1>4. n \in G
  <2> HIDE DEF G
  <2>1. n \in 0 .. n
    OBVIOUS
  <2>2. QED
    BY <1>2, <1>3, <2>1, UpTo
<1>5. Take(b, n) = b
  BY <1>1, TakeNext
<1>6. QED
  BY <1>4, <1>5

LEMMA KeepAll ==
  ASSUME NEW X, NEW a \in Seq(X), \A k \in 1 .. Len(a) : a[k] # <<>>
  PROVE  Keep(a) = a
<1>1. PICK n \in Nat : n = Len(a)
  OBVIOUS
<1> DEFINE G == {i \in 0 .. n : Keep(Take(a, i)) = Take(a, i)}
<1>2. 0 \in G
  <2>1. PICK e \in Seq(X) : e = Take(a, 0) /\ e = <<>>
    BY TakeNext, EmptySeq
  <2>2. Keep(e) = <<>>
    BY <2>1, KeepIs
  <2>3. QED
    BY <1>1, <2>1, <2>2
<1>3. ASSUME NEW i \in 0 .. n - 1, i \in G PROVE i + 1 \in G
  <2>1. PICK s \in Seq(X) : s = Take(a, i) /\ Keep(s) = s
    BY <1>1, <1>3, TakeNext
  <2>2. PICK e \in X : e = a[i + 1] /\ e # <<>>
    BY <1>1
  <2>3. Take(a, i + 1) = Append(s, e)
    BY <1>1, <2>1, <2>2, TakeNext
  <2>4. Keep(Append(s, e)) = s \o <<e>>
    BY <2>1, <2>2, KeepIs DEF One
  <2>5. Append(s, e) = s \o <<e>>
    BY AppendIsConcat
  <2>6. i + 1 \in 0 .. n
    OBVIOUS
  <2>7. QED
    BY <2>3, <2>4, <2>5, <2>6
<1>4. n \in G
  <2> HIDE DEF G
  <2>1. n \in 0 .. n
    OBVIOUS
  <2>2. QED
    BY <1>2, <1>3, <2>1, UpTo
<1>5. Take(a, n) = a
  BY <1>1, TakeNext
<1>6. QED
  BY <1>4, <1>5

LEMMA KeepFlatten ==
  ASSUME NEW X, NEW s \in Seq(Seq(X)), NEW t \in Seq(Seq(X)), Len(s) = Len(t),
         \A k \in 1 .. Len(s) : Keep(s[k]) = t[k]
  PROVE  Keep(FlattenSeq(s)) = FlattenSeq(t)
<1>1. PICK n \in Nat : n = Len(s) /\ n = Len(t)
  OBVIOUS
<1>2. PICK g : /\ g[0] = <<>> /\ g[n] = FlattenSeq(s)
               /\ \A i \in 0 .. n : g[i] \in Seq(X)
               /\ \A i \in 1 .. n : g[i] = g[i - 1] \o s[i]
  <2>1. PICK g : /\ g[0] = <<>> /\ g[Len(s)] = FlattenSeq(s)
                 /\ \A i \in 0 .. Len(s) : g[i] \in Seq(X)
                 /\ \A i \in 1 .. Len(s) : g[i] = g[i - 1] \o s[i]
    BY FlattenSteps
  <2>2. QED
    BY <1>1, <2>1
<1>3. PICK h : /\ h[0] = <<>> /\ h[n] = FlattenSeq(t)
               /\ \A i \in 1 .. n : h[i] = h[i - 1] \o t[i]
  <2>1. PICK h : /\ h[0] = <<>> /\ h[Len(t)] = FlattenSeq(t)
                 /\ \A i \in 0 .. Len(t) : h[i] \in Seq(X)
                 /\ \A i \in 1 .. Len(t) : h[i] = h[i - 1] \o t[i]
    BY FlattenSteps
  <2>2. QED
    BY <1>1, <2>1
<1> DEFINE G == {i \in 0 .. n : Keep(g[i]) = h[i]}
<1>4. 0 \in G
  <2>1. PICK e \in Seq(X) : e = g[0] /\ e = <<>>
    BY <1>2, EmptySeq
  <2>2. Keep(e) = <<>>
    BY <2>1, KeepIs
  <2>3. Keep(g[0]) = h[0] /\ 0 \in 0 .. n
    BY <1>1, <1>3, <2>1, <2>2
  <2>4. QED
    BY <2>3
<1>5. ASSUME NEW i \in 0 .. n - 1, i \in G PROVE i + 1 \in G
  <2>1. i + 1 \in 1 .. n /\ (i + 1) - 1 = i /\ i \in 0 .. n /\ i + 1 \in 0 .. n
    OBVIOUS
  <2>2. PICK a \in Seq(X) : a = g[i] /\ Keep(a) = h[i]
    BY <1>2, <1>5, <2>1
  <2>3. PICK b \in Seq(X) : b = s[i + 1] /\ Keep(b) = t[i + 1]
    BY <1>1, <2>1
  <2>4. g[i + 1] = a \o b /\ h[i + 1] = Keep(a) \o Keep(b)
    BY <1>2, <1>3, <2>1, <2>2, <2>3
  <2>5. Keep(a \o b) = Keep(a) \o Keep(b)
    BY KeepConcat
  <2>6. QED
    BY <2>1, <2>4, <2>5
<1>6. n \in G
  <2> HIDE DEF G
  <2>1. n \in 0 .. n
    OBVIOUS
  <2>2. QED
    BY <1>4, <1>5, <2>1, UpTo
<1>7. Keep(g[n]) = h[n]
  BY <1>6
<1>8. QED
  BY <1>2, <1>3, <1>7

\* A word holds at least the character it starts with.
LEMMA WordsFull ==
  ASSUME NEW X, NEW s \in Seq(X)
  PROVE  \A n \in 1 .. Len(Words(s)) : Words(s)[n] # <<>>
<1>1. PICK S : S = WordStarts(s)
  OBVIOUS
<1>2. S \subseteq 1 .. Len(s) /\ \A i \in S : s[i] \notin SEPARATORS
  BY <1>1 DEF WordStarts
<1>3. IsFiniteSet(S) /\ Cardinality(S) \in Nat
  <2>1. IsFiniteSet(1 .. Len(s))
    BY FS_Interval
  <2>2. QED
    BY <1>2, <2>1, FS_Subset, FS_CardinalityType
<1> DEFINE W(n) == SubSeq(s, NthStart(s, n), Min(WordEnds(s, NthStart(s, n))) - 1)
<1>4. Words(s) = [n \in 1 .. Cardinality(S) |-> W(n)]
  BY <1>1, WordsAre
<1>5. ASSUME NEW n \in 1 .. Cardinality(S) PROVE W(n) # <<>>
  <2>1. PICK i : i = NthStart(s, n)
    OBVIOUS
  <2>2. i \in S
    <3>1. \E e \in S : Cardinality({f \in S : f < e}) = n - 1
      <4>1. S \subseteq Int
        BY <1>2
      <4>2. QED
        BY <1>3, <4>1, NumbersRank
    <3>2. QED
      BY <1>1, <2>1, <3>1 DEF NthStart
  <2>3. WordEnds(s, i) \subseteq Nat /\ Len(s) + 1 \in WordEnds(s, i)
    BY <1>2, <2>2 DEF WordEnds
  <2>4. PICK e : e = Min(WordEnds(s, i))
    OBVIOUS
  <2>5. e \in WordEnds(s, i)
    BY <2>3, <2>4, MinIs
  <2>6. e \in i .. Len(s) + 1 /\ (e = Len(s) + 1 \/ s[e] \in SEPARATORS)
    BY <2>5 DEF WordEnds
  <2>7. i \in 1 .. Len(s) /\ s[i] \notin SEPARATORS
    BY <1>2, <2>2
  <2>8. e # i
    BY <2>6, <2>7
  <2>9. e \in Nat /\ i \in Nat /\ i <= e - 1 /\ 1 <= i /\ e - 1 <= Len(s)
    BY <2>6, <2>7, <2>8
  <2>10. PICK h \in Nat, j \in Nat : h = i - 1 /\ j = e - 1
    BY <2>9
  <2>11. h \in 0 .. Len(s) /\ j \in h .. Len(s) /\ j - h # 0 /\ i = h + 1
    BY <2>7, <2>9, <2>10
  <2>12. Len(SubSeq(s, i, e - 1)) # 0
    <3>1. Len(SubSeq(s, h + 1, j)) = j - h
      BY <2>11, SubSeqIs
    <3>2. QED
      BY <2>10, <2>11, <3>1
  <2>13. SubSeq(s, i, e - 1) # <<>>
    <3>1. Len(<<>>) = 0
      OBVIOUS
    <3>2. QED
      BY <2>12, <3>1
  <2>14. QED
    BY <2>1, <2>4, <2>13
<1> HIDE DEF W
<1>6. QED
  BY <1>3, <1>4, <1>5

\* The arguments of a line, but for the empty one, are its words.
LEMMA LineKept ==
  ASSUME NEW X, NEW s \in Seq(X)
  PROVE  Keep(LineArgs(s)) = Words(s)
<1>1. CASE Words(s) = <<>> /\ s # <<>>
  <2>1. PICK e \in Seq(X) : e = <<>>
    BY EmptySeq
  <2>2. PICK a \in Seq(Seq(X)) : a = <<>>
    BY EmptySeq
  <2>3. LineArgs(s) = <<e>>
    BY <1>1, <2>1 DEF LineArgs
  <2>4. Append(a, e) = <<e>>
    BY <2>2
  <2>5. Keep(Append(a, e)) = Keep(a) \o One(e) /\ Keep(a) = <<>>
    BY <2>2, KeepIs
  <2>6. One(e) = a /\ Keep(a) = a
    BY <2>1, <2>2, <2>5 DEF One
  <2>7. a \o a = a
    BY <2>2, ConcatEmptySeq
  <2>8. QED
    BY <1>1, <2>2, <2>3, <2>4, <2>5, <2>6, <2>7
<1>2. CASE ~(Words(s) = <<>> /\ s # <<>>)
  <2>1. LineArgs(s) = Words(s)
    BY <1>2 DEF LineArgs
  <2>2. PICK w \in Seq(Seq(X)) : w = Words(s)
    BY WordsType
  <2>3. \A n \in 1 .. Len(w) : w[n] # <<>>
    BY <2>2, WordsFull
  <2>4. Keep(w) = w
    BY <2>3, KeepAll
  <2>5. QED
    BY <2>1, <2>2, <2>4
<1>3. QED
  BY <1>1, <1>2

\* Of lines without comments the words are documented.
LEMMA PlainWords ==
  ASSUME NEW lines \in Seq(Seq(Chars)),
         \A k \in DOMAIN lines : ~Contains(lines[k], "#")
  PROVE  Documented(lines) = FlattenSeq([k \in DOMAIN lines |-> Words(lines[k])])
<1> DEFINE cut(k) == IF SelectInSeq(lines[k], LAMBDA c : c = "#") = 0 THEN lines[k]
                     ELSE SubSeq(lines[k], 1, SelectInSeq(lines[k], LAMBDA c : c = "#") - 1)
<1>1. ASSUME NEW k \in DOMAIN lines PROVE cut(k) = lines[k]
  <2>1. SelectInSeq(lines[k], LAMBDA c : c = "#") = FirstOf(lines[k], "#")
    BY DEF SelectInSeq, FirstOf, PlacesOf
  <2>2. FirstOf(lines[k], "#") = 0
    <3>1. lines[k] \in Seq(Chars)
      OBVIOUS
    <3>2. \A i \in 1 .. Len(lines[k]) : lines[k][i] # "#"
      BY <3>1 DEF Contains
    <3>3. QED
      BY <3>1, <3>2, FirstOfIs
  <2>3. QED
    BY <2>1, <2>2
<1>2. Documented(lines) = FlattenSeq([k \in DOMAIN lines |-> Words(cut(k))])
  BY DEF Documented
<1> HIDE DEF cut
<1>3. [k \in DOMAIN lines |-> Words(cut(k))] = [k \in DOMAIN lines |-> Words(lines[k])]
  BY <1>1
<1>4. QED
  BY <1>2, <1>3

\* The arguments parsed from lines without comments, but for the empty ones, are
\* those documented.
LEMMA ListKept ==
  ASSUME NEW lines \in Seq(Seq(Chars)),
         \A k \in DOMAIN lines : ~Contains(lines[k], "#")
  PROVE  /\ parseArgFileAll(lines) \in Seq(Seq(Chars))
         /\ Keep(parseArgFileAll(lines)) = Documented(lines)
<1>1. PICK n \in Nat : n = Len(lines) /\ DOMAIN lines = 1 .. n
  OBVIOUS
<1>2. \A k \in 1 .. n : lines[k] \in Seq(Chars)
  BY <1>1
<1>3. PICK docs \in Seq(Seq(Seq(Chars))) :
        /\ docs = [k \in DOMAIN lines |-> Words(lines[k])] /\ Len(docs) = n
        /\ \A k \in 1 .. n : docs[k] = Words(lines[k])
  <2> DEFINE d == [k \in DOMAIN lines |-> Words(lines[k])]
  <2>1. \A k \in 1 .. n : Words(lines[k]) \in Seq(Seq(Chars))
    BY <1>2, WordsType
  <2>2. d \in Seq(Seq(Seq(Chars))) /\ Len(d) = n /\ \A k \in 1 .. n : d[k] = Words(lines[k])
    BY <1>1, <2>1
  <2> HIDE DEF d
  <2>3. d = [k \in DOMAIN lines |-> Words(lines[k])]
    BY DEF d
  <2>4. QED
    BY <2>2, <2>3
<1>4. PICK list \in Seq(Seq(Seq(Chars))) :
        /\ list = Listing(lines) /\ Len(list) = n
        /\ \A k \in 1 .. n : list[k] = LineArgs(lines[k])
  <2> DEFINE d == Listing(lines)
  <2>1. \A k \in 1 .. n : line_sv(lines, k) = lines[k]
    BY <1>1, LineIs
  <2>2. \A k \in 1 .. n : LineArgs(lines[k]) \in Seq(Seq(Chars))
    BY <1>2, LineArgsAre
  <2>3. d = [k \in 1 .. n |-> LineArgs(lines[k])]
    BY <1>1, <2>1 DEF Listing
  <2> HIDE DEF d
  <2>4. d \in Seq(Seq(Seq(Chars))) /\ Len(d) = n /\ \A k \in 1 .. n : d[k] = LineArgs(lines[k])
    BY <1>1, <2>2, <2>3
  <2>5. QED
    BY <2>4 DEF d
<1>5. \A k \in 1 .. n : Keep(list[k]) = docs[k]
  BY <1>2, <1>3, <1>4, LineKept
<1>6. Keep(FlattenSeq(list)) = FlattenSeq(docs)
  <2>1. Len(list) = Len(docs) /\ \A k \in 1 .. Len(list) : Keep(list[k]) = docs[k]
    BY <1>3, <1>4, <1>5
  <2>2. QED
    BY <2>1, KeepFlatten
<1>7. parseArgFileAll(lines) = FlattenSeq(list)
  BY <1>4 DEF parseArgFileAll, Listing
<1>8. Documented(lines) = FlattenSeq(docs)
  BY <1>3, PlainWords
<1>9. FlattenSeq(list) \in Seq(Seq(Chars))
  BY FlattenIs
<1>10. QED
  BY <1>6, <1>7, <1>8, <1>9

-----------------------------------------------------------------------------
\* The strings of a block of memory

Strings(s) == Runs(s, LAMBDA c : c # "NUL")
StringStarts(s) == {i \in DOMAIN s : s[i] # "NUL" /\ (i = 1 \/ ~(s[i - 1] # "NUL"))}
StringEnds(s, i) == {j \in i .. Len(s) + 1 : j = Len(s) + 1 \/ ~(s[j] # "NUL")}
Nth(S, n) == CHOOSE i \in S : Cardinality({j \in S : j < i}) = n - 1

LEMMA StringsAre ==
  ASSUME NEW s
  PROVE  Strings(s) = [n \in 1 .. Cardinality(StringStarts(s)) |->
                         SubSeq(s, Nth(StringStarts(s), n),
                                Min(StringEnds(s, Nth(StringStarts(s), n))) - 1)]
BY DEF Strings, Runs, StringStarts, Nth, StringEnds

\* A number above all others comes last.
SameNth(S, T) == \A n \in 1 .. Cardinality(S) : Nth(T, n) = Nth(S, n)

LEMMA NthIs ==
  ASSUME NEW S, S \subseteq Nat, IsFiniteSet(S), NEW m \in Nat, \A i \in S : i < m,
         NEW T, T = S \cup {m}
  PROVE  /\ IsFiniteSet(T) /\ Cardinality(T) = Cardinality(S) + 1
         /\ SameNth(S, T)
         /\ Nth(T, Cardinality(S) + 1) = m
<1>1. PICK N \in Nat : N = Cardinality(S)
  BY FS_CardinalityType
<1>2. m \notin S
  OBVIOUS
<1>3. IsFiniteSet(T) /\ Cardinality(T) = N + 1
  BY <1>1, <1>2, FS_AddElement
<1>4. ASSUME NEW i \in S PROVE {j \in T : j < i} = {j \in S : j < i}
  OBVIOUS
<1>5. {j \in T : j < m} = S
  <2>1. ~(m < m)
    OBVIOUS
  <2>2. \A j : (j \in T /\ j < m) <=> j \in S
    BY <2>1
  <2>3. QED
    BY <2>2
<1>6. ASSUME NEW i \in S PROVE Cardinality({j \in S : j < i}) \in 0 .. N - 1
  <2>1. {j \in S : j < i} \subseteq S \ {i}
    OBVIOUS
  <2>2. IsFiniteSet(S \ {i}) /\ Cardinality(S \ {i}) = N - 1
    BY <1>1, FS_RemoveElement
  <2>3. Cardinality({j \in S : j < i}) \in Nat /\ Cardinality({j \in S : j < i}) <= N - 1
    BY <2>1, <2>2, FS_Subset, FS_CardinalityType
  <2>4. QED
    BY <1>1, <2>3
<1>7. ASSUME NEW n \in 1 .. N PROVE Nth(T, n) = Nth(S, n)
  <2>1. \A i : i \in T /\ Cardinality({j \in T : j < i}) = n - 1
               <=> i \in S /\ Cardinality({j \in S : j < i}) = n - 1
    <3>1. Cardinality({j \in T : j < m}) # n - 1
      BY <1>1, <1>5
    <3>2. QED
      BY <1>4, <3>1
  <2>2. QED
    BY <2>1 DEF Nth
<1>8. Nth(T, N + 1) = m
  <2>1. \A i \in T : Cardinality({j \in T : j < i}) = (N + 1) - 1 <=> i = m
    <3>1. ASSUME NEW i \in S PROVE Cardinality({j \in T : j < i}) # (N + 1) - 1 /\ i # m
      BY <1>1, <1>4, <1>6
    <3>2. Cardinality({j \in T : j < m}) = (N + 1) - 1
      BY <1>1, <1>5
    <3>3. QED
      BY <3>1, <3>2
  <2>2. m \in T
    OBVIOUS
  <2>3. QED
    BY <2>1, <2>2 DEF Nth
<1>9. QED
  BY <1>1, <1>3, <1>7, <1>8 DEF SameNth

\* A string ends at the first NUL behind its start.
LEMMA StringEnd ==
  ASSUME NEW s, Len(s) \in Nat, NEW i \in 1 .. Len(s), NEW e \in i .. Len(s) + 1,
         \A j \in i .. e - 1 : s[j] # "NUL",
         e = Len(s) + 1 \/ s[e] = "NUL"
  PROVE  Min(StringEnds(s, i)) = e
<1>1. e \in StringEnds(s, i) /\ StringEnds(s, i) \subseteq Nat
  BY DEF StringEnds
<1>2. PICK m : m = Min(StringEnds(s, i))
  OBVIOUS
<1>3. m \in StringEnds(s, i) /\ m <= e
  BY <1>1, <1>2, MinIs
<1>4. m \in i .. Len(s) + 1 /\ (m = Len(s) + 1 \/ s[m] = "NUL")
  BY <1>3 DEF StringEnds
<1>5. m = e
  <2> SUFFICES ASSUME m < e PROVE FALSE
    BY <1>3, <1>4
  <2>1. m \in i .. e - 1 /\ m # Len(s) + 1
    BY <1>4
  <2>2. QED
    BY <1>4, <2>1
<1>6. QED
  BY <1>2, <1>5

\* The string of s that starts at i
StringAt(s, i) == SubSeq(s, i, Min(StringEnds(s, i)) - 1)

\* t is s with more behind it
Extends(t, s) == Len(s) <= Len(t) /\ \A k \in 1 .. Len(s) : t[k] = s[k]
SameString(t, s, i, X) == StringAt(t, i) = StringAt(s, i) /\ StringAt(s, i) \in Seq(X)

\* A string with a NUL behind it stays what it is when the block grows.
LEMMA StringKept ==
  ASSUME NEW X, NEW s \in Seq(X), NEW t \in Seq(X), Extends(t, s),
         NEW i \in 1 .. Len(s), s[Len(s)] = "NUL"
  PROVE  SameString(t, s, i, X)
<1>1. PICK L \in Nat, M \in Nat :
        L = Len(s) /\ M = Len(t) /\ L <= M /\ \A k \in 1 .. L : t[k] = s[k]
  BY DEF Extends
<1> DEFINE nuls == {j \in i .. L : s[j] = "NUL"}
<1>2. PICK e \in nuls : \A j \in nuls : e <= j
  <2>1. nuls \subseteq Nat /\ L \in nuls
    BY <1>1
  <2> HIDE DEF nuls
  <2>2. QED
    BY <2>1, LeastExists
<1>3. e \in i .. L /\ s[e] = "NUL" /\ \A j \in i .. e - 1 : s[j] # "NUL"
  <2>1. e \in i .. L /\ s[e] = "NUL"
    BY <1>2
  <2>2. ASSUME NEW j \in i .. e - 1 PROVE s[j] # "NUL"
    <3>1. j \in i .. L /\ ~(e <= j)
      BY <1>1, <2>1
    <3>2. QED
      BY <1>2, <3>1
  <2>3. QED
    BY <2>1, <2>2
<1> HIDE DEF nuls
<1>4. Min(StringEnds(s, i)) = e
  <2>1. e \in i .. Len(s) + 1
    BY <1>1, <1>3
  <2>2. QED
    BY <1>3, <2>1, StringEnd
<1>5. Min(StringEnds(t, i)) = e
  <2>1. e \in i .. Len(t) + 1 /\ i \in 1 .. Len(t)
    BY <1>1, <1>3
  <2>2. t[e] = "NUL" /\ \A j \in i .. e - 1 : t[j] # "NUL"
    BY <1>1, <1>3
  <2>3. QED
    BY <2>1, <2>2, StringEnd
<1>6. PICK h \in Nat, j \in Nat : h = i - 1 /\ j = e - 1
  BY <1>1, <1>3
<1>7. h \in 0 .. L /\ j \in h .. L /\ h \in 0 .. M /\ j \in h .. M /\ i = h + 1
  BY <1>1, <1>3, <1>6
<1>8. PICK a \in Seq(X) : a = SubSeq(s, i, e - 1) /\ Len(a) = j - h
                          /\ \A k \in 1 .. j - h : a[k] = s[h + k]
  <2>1. /\ SubSeq(s, h + 1, j) \in Seq(X) /\ Len(SubSeq(s, h + 1, j)) = j - h
        /\ \A k \in 1 .. j - h : SubSeq(s, h + 1, j)[k] = s[h + k]
    BY <1>1, <1>7, SubSeqIs
  <2>2. QED
    BY <1>6, <1>7, <2>1
<1>9. PICK b \in Seq(X) : b = SubSeq(t, i, e - 1) /\ Len(b) = j - h
                          /\ \A k \in 1 .. j - h : b[k] = t[h + k]
  <2>1. /\ SubSeq(t, h + 1, j) \in Seq(X) /\ Len(SubSeq(t, h + 1, j)) = j - h
        /\ \A k \in 1 .. j - h : SubSeq(t, h + 1, j)[k] = t[h + k]
    BY <1>1, <1>7, SubSeqIs
  <2>2. QED
    BY <1>6, <1>7, <2>1
<1>10. a = b
  <2>1. \A k \in 1 .. j - h : h + k \in 1 .. L
    BY <1>7
  <2>2. \A k \in 1 .. Len(a) : a[k] = b[k]
    BY <1>1, <1>8, <1>9, <2>1
  <2>3. QED
    BY <1>8, <1>9, <2>2, SeqEqual
<1>11. QED
  BY <1>4, <1>5, <1>8, <1>9, <1>10 DEF StringAt, SameString

\* Empty, or nothing behind the last NUL
Terminated(s) == s = <<>> \/ s[Len(s)] = "NUL"
NulFree(w) == \A k \in 1 .. Len(w) : w[k] # "NUL"

Adds(X, s, w, t) ==
  /\ t \in Seq(X) /\ Terminated(t)
  /\ Strings(s) \in Seq(Seq(X)) /\ Strings(t) = Strings(s) \o One(w)

\* A string written behind a block adds itself, unless it is empty.
LEMMA StringsStep ==
  ASSUME NEW X, "NUL" \in X, NEW s \in Seq(X), Terminated(s),
         NEW w \in Seq(X), NulFree(w),
         NEW t, t = s \o Append(w, "NUL")
  PROVE  Adds(X, s, w, t)
<1>1. PICK L \in Nat, M \in Nat : L = Len(s) /\ M = Len(w)
  OBVIOUS
<1>2. PICK v : v = Append(w, "NUL")
  OBVIOUS
<1>3. v \in Seq(X) /\ Len(v) = M + 1 /\ v[M + 1] = "NUL" /\ \A k \in 1 .. M : v[k] = w[k]
  BY <1>1, <1>2, AppendProperties
<1>4. t = s \o v
  BY <1>2
<1>5. /\ t \in Seq(X) /\ Len(t) = L + M + 1 /\ \A k \in 1 .. L : t[k] = s[k]
      /\ \A k \in 1 .. M + 1 : t[L + k] = v[k]
  <2>1. /\ t \in Seq(X) /\ Len(t) = Len(s) + Len(v)
        /\ \A k \in 1 .. Len(s) + Len(v) : t[k] = IF k <= Len(s) THEN s[k] ELSE v[k - Len(s)]
    <3>1. v \in Seq(X)
      BY <1>3
    <3>2. s \o v \in Seq(X)
      BY <3>1, ConcatProperties
    <3>3. Len(s \o v) = Len(s) + Len(v)
      BY <3>1, ConcatProperties
    <3>4. \A k \in 1 .. Len(s) + Len(v) : (s \o v)[k] = IF k <= Len(s) THEN s[k] ELSE v[k - Len(s)]
      BY <3>1, ConcatProperties
    <3>5. QED
      BY <1>4, <3>2, <3>3, <3>4
  <2>2. ASSUME NEW k \in 1 .. M + 1 PROVE t[L + k] = v[k]
    <3>1. L + k \in 1 .. L + (M + 1) /\ ~(L + k <= L) /\ (L + k) - L = k
      BY <1>1
    <3>2. QED
      BY <1>1, <1>3, <2>1, <3>1
  <2>3. Len(t) = L + M + 1
    BY <1>1, <1>3, <2>1
  <2>4. ASSUME NEW k \in 1 .. L PROVE t[k] = s[k]
    BY <1>1, <1>3, <2>1
  <2>5. QED
    BY <2>1, <2>2, <2>3, <2>4
<1>6. Terminated(t)
  <2>1. M + 1 \in 1 .. M + 1 /\ L + (M + 1) = L + M + 1
    BY <1>1
  <2>2. t[L + M + 1] = "NUL"
    BY <1>3, <1>5, <2>1
  <2>3. QED
    BY <1>5, <2>2 DEF Terminated
<1>7. PICK S, T : S = StringStarts(s) /\ T = StringStarts(t)
  OBVIOUS
<1>8. S \subseteq 1 .. L /\ \A i \in 1 .. L : i \in S <=> s[i] # "NUL" /\ (i = 1 \/ s[i - 1] = "NUL")
  BY <1>1, <1>7 DEF StringStarts
<1>9. /\ T \subseteq 1 .. L + M + 1
      /\ \A i \in 1 .. L + M + 1 : i \in T <=> t[i] # "NUL" /\ (i = 1 \/ t[i - 1] = "NUL")
  BY <1>5, <1>7 DEF StringStarts
<1>10. \A k \in 1 .. M : t[L + k] # "NUL"
  <2>1. \A k \in 1 .. M : k \in 1 .. M + 1
    BY <1>1
  <2>2. QED
    BY <1>1, <1>3, <1>5, <2>1 DEF NulFree
<1>11. t[L + M + 1] = "NUL"
  <2>1. M + 1 \in 1 .. M + 1 /\ L + (M + 1) = L + M + 1
    BY <1>1
  <2>2. QED
    BY <1>3, <1>5, <2>1
<1>12. T = S \cup (IF M = 0 THEN {} ELSE {L + 1})
  <2>1. ASSUME NEW i \in 1 .. L PROVE i \in T <=> i \in S
    <3>1. i \in 1 .. L + M + 1 /\ (i # 1 => i - 1 \in 1 .. L)
      BY <1>1
    <3>2. t[i] = s[i] /\ (i # 1 => t[i - 1] = s[i - 1])
      BY <1>5, <3>1
    <3>3. QED
      BY <1>8, <1>9, <3>1, <3>2
  <2>2. L + 1 \in T <=> M # 0
    <3>1. L + 1 \in 1 .. L + M + 1
      BY <1>1
    <3>2. CASE M = 0
      <4>1. t[L + 1] = "NUL"
        BY <1>1, <1>11, <3>2
      <4>2. QED
        BY <1>9, <3>1, <3>2, <4>1
    <3>3. CASE M # 0
      <4>1. 1 \in 1 .. M
        BY <1>1, <3>3
      <4>2. t[L + 1] # "NUL"
        BY <1>10, <4>1
      <4>3. L + 1 = 1 \/ t[(L + 1) - 1] = "NUL"
        <5>1. CASE L = 0
          BY <5>1
        <5>2. CASE L # 0
          <6>1. s[L] = "NUL" /\ L \in 1 .. L /\ (L + 1) - 1 = L
            BY <1>1, <5>2 DEF Terminated
          <6>2. QED
            BY <1>5, <6>1
        <5>3. QED
          BY <5>1, <5>2
      <4>4. QED
        BY <1>9, <3>1, <3>3, <4>2, <4>3
    <3>4. QED
      BY <3>2, <3>3
  <2>3. ASSUME NEW i \in L + 2 .. L + M + 1 PROVE i \notin T
    <3>1. PICK k \in Nat : k = i - L
      <4>1. i - L \in Nat
        BY <1>1
      <4>2. QED
        BY <4>1
    <3>2. k \in 2 .. M + 1 /\ i = L + k /\ k - 1 \in 1 .. M /\ i - 1 = L + (k - 1)
      BY <1>1, <3>1
    <3>3. i \in 1 .. L + M + 1 /\ i # 1
      BY <1>1
    <3>4. t[i - 1] # "NUL"
      BY <1>10, <3>2
    <3>5. QED
      BY <1>9, <3>3, <3>4
  <2>4. \A i \in 1 .. L + M + 1 : i \in 1 .. L \/ i = L + 1 \/ i \in L + 2 .. L + M + 1
    BY <1>1
  <2>5. \A i : i \in T <=> i \in S \/ (M # 0 /\ i = L + 1)
    BY <1>8, <1>9, <2>1, <2>2, <2>3, <2>4
  <2>6. CASE M = 0
    BY <2>5, <2>6
  <2>7. CASE M # 0
    BY <2>5, <2>7
  <2>8. QED
    BY <2>6, <2>7
<1>13. IsFiniteSet(S) /\ Cardinality(S) \in Nat
  <2>1. IsFiniteSet(1 .. L)
    BY FS_Interval
  <2>2. QED
    BY <1>8, <2>1, FS_Subset, FS_CardinalityType
<1>14. PICK N \in Nat : N = Cardinality(S)
  BY <1>13
<1>15. \A n \in 1 .. N : Nth(S, n) \in S
  <2>1. S \subseteq Int
    BY <1>8
  <2>2. \A n \in 1 .. N : \E e \in S : Cardinality({f \in S : f < e}) = n - 1
    BY <1>13, <1>14, <2>1, NumbersRank
  <2>3. QED
    BY <2>2 DEF Nth
<1>16. ASSUME NEW i \in S PROVE StringAt(t, i) = StringAt(s, i) /\ StringAt(s, i) \in Seq(X)
  <2>1. i \in 1 .. Len(s) /\ s[Len(s)] = "NUL" /\ Len(s) <= Len(t)
    <3>1. L # 0
      BY <1>8
    <3>2. QED
      BY <1>1, <1>5, <1>8, <3>1 DEF Terminated
  <2>2. \A k \in 1 .. Len(s) : t[k] = s[k]
    BY <1>1, <1>5
  <2>3. Extends(t, s)
    BY <2>1, <2>2 DEF Extends
  <2>4. SameString(t, s, i, X)
    BY <1>5, <2>1, <2>3, StringKept
  <2>5. QED
    BY <2>4 DEF SameString
<1>17. PICK a : a = Strings(s)
  OBVIOUS
<1>18. a \in Seq(Seq(X)) /\ Len(a) = N /\ \A n \in 1 .. N : a[n] = StringAt(s, Nth(S, n))
  <2> DEFINE F(n) == StringAt(s, Nth(S, n))
  <2>1. a = [n \in 1 .. N |-> F(n)]
    BY <1>7, <1>14, <1>17, StringsAre DEF StringAt
  <2>2. \A n \in 1 .. N : F(n) \in Seq(X)
    BY <1>15, <1>16
  <2> HIDE DEF F
  <2>3. a \in Seq(Seq(X))
    <3>1. PICK Y : Y = Seq(X)
      OBVIOUS
    <3>2. \A n \in 1 .. N : F(n) \in Y
      BY <2>2, <3>1
    <3>3. a \in Seq(Y)
      BY <1>14, <2>1, <3>2, SMTT(30)
    <3>4. QED
      BY <3>1, <3>3
  <2>4. Len(a) = N
    BY <1>14, <2>1
  <2>5. \A n \in 1 .. N : a[n] = F(n)
    BY <1>14, <2>1
  <2>6. QED
    BY <2>3, <2>4, <2>5 DEF F
<1>19. PICK b : b = Strings(t)
  OBVIOUS
<1>20. b = [n \in 1 .. Cardinality(T) |-> StringAt(t, Nth(T, n))]
  BY <1>7, <1>19, StringsAre DEF StringAt
<1>21. CASE M = 0
  <2>1. T = S
    BY <1>12, <1>21
  <2>2. b = [n \in 1 .. N |-> StringAt(t, Nth(S, n))]
    BY <1>14, <1>20, <2>1
  <2>3. b \in Seq(Seq(X)) /\ Len(b) = N /\ \A n \in 1 .. N : b[n] = a[n]
    <3> DEFINE F(n) == StringAt(t, Nth(S, n))
    <3>1. /\ \A n \in 1 .. N : F(n) = a[n]
          /\ \A n \in 1 .. N : F(n) \in Seq(X)
      BY <1>15, <1>16, <1>18
    <3>2. b = [n \in 1 .. N |-> F(n)]
      BY <2>2
    <3> HIDE DEF F
    <3>3. b \in Seq(Seq(X))
      BY <1>14, <3>1, <3>2
    <3>4. Len(b) = N
      BY <1>14, <3>2
    <3>5. \A n \in 1 .. N : b[n] = a[n]
      BY <1>14, <3>1, <3>2
    <3>6. QED
      BY <3>3, <3>4, <3>5
  <2>4. b = a
    BY <1>18, <2>3, SeqEqual
  <2>5. One(w) = <<>>
    <3>1. w = <<>>
      BY <1>1, <1>21, EmptySeq
    <3>2. QED
      BY <3>1 DEF One
  <2>6. a \o <<>> = a
    BY <1>18, ConcatEmptySeq
  <2>7. QED
    BY <1>5, <1>6, <1>17, <1>18, <1>19, <2>4, <2>5, <2>6 DEF Adds
<1>22. CASE M # 0
  <2>1. T = S \cup {L + 1}
    BY <1>12, <1>22
  <2>2. PICK m \in Nat : m = L + 1
    BY <1>1
  <2>3. S \subseteq Nat /\ \A i \in S : i < m
    BY <1>8, <2>2
  <2>4. /\ Cardinality(T) = N + 1
        /\ \A n \in 1 .. N : Nth(T, n) = Nth(S, n)
        /\ Nth(T, N + 1) = m
    <3>1. T = S \cup {m}
      BY <2>1, <2>2
    <3>2. Cardinality(T) = Cardinality(S) + 1
      BY <1>13, <2>3, <3>1, NthIs
    <3>3. SameNth(S, T)
      BY <1>13, <2>3, <3>1, NthIs
    <3>4. Nth(T, Cardinality(S) + 1) = m
      BY <1>13, <2>3, <3>1, NthIs
    <3>5. QED
      BY <1>14, <3>2, <3>3, <3>4 DEF SameNth
  <2>5. StringAt(t, m) = w
    <3>1. PICK e \in Nat : e = L + M + 1
      BY <1>1
    <3>2. m \in 1 .. Len(t) /\ e \in m .. Len(t) + 1 /\ t[e] = "NUL"
      BY <1>1, <1>5, <1>11, <2>2, <3>1
    <3>3. ASSUME NEW j \in m .. e - 1 PROVE t[j] # "NUL"
      <4>1. PICK k \in Nat : k = j - L
        <5>1. j - L \in Nat
          BY <1>1, <2>2, <3>1
        <5>2. QED
          BY <5>1
      <4>2. k \in 1 .. M /\ j = L + k
        BY <1>1, <2>2, <3>1, <4>1
      <4>3. QED
        BY <1>10, <4>2
    <3>4. Min(StringEnds(t, m)) = e
      <4>1. Len(t) \in Nat
        BY <1>5
      <4>2. QED
        BY <3>2, <3>3, <4>1, StringEnd
    <3>5. PICK j \in Nat : j = L + M
      BY <1>1
    <3>6. L \in 0 .. Len(t) /\ j \in L .. Len(t) /\ e - 1 = j
      BY <1>1, <1>5, <3>1, <3>5
    <3>7. PICK c \in Seq(X) : c = SubSeq(t, m, e - 1) /\ Len(c) = M /\ \A k \in 1 .. M : c[k] = t[L + k]
      <4>1. /\ SubSeq(t, L + 1, j) \in Seq(X) /\ Len(SubSeq(t, L + 1, j)) = j - L
            /\ \A k \in 1 .. j - L : SubSeq(t, L + 1, j)[k] = t[L + k]
        <5>1. t \in Seq(X)
          BY <1>5
        <5>2. QED
          BY <3>6, <5>1, SubSeqIs
      <4>2. j - L = M
        BY <1>1, <3>5
      <4>3. QED
        BY <2>2, <3>6, <4>1, <4>2
    <3>8. \A k \in 1 .. M : c[k] = w[k]
      <4>1. \A k \in 1 .. M : k \in 1 .. M + 1
        BY <1>1
      <4>2. QED
        BY <1>3, <1>5, <3>7, <4>1
    <3>9. c = w
      BY <1>1, <3>7, <3>8, SeqEqual
    <3>10. QED
      BY <3>4, <3>7, <3>9 DEF StringAt
  <2>6. PICK c : c = Append(a, w)
    OBVIOUS
  <2>7. c \in Seq(Seq(X)) /\ Len(c) = N + 1 /\ c[N + 1] = w /\ \A n \in 1 .. N : c[n] = a[n]
    BY <1>18, <2>6, AppendProperties
  <2>8. b = [n \in 1 .. N + 1 |-> StringAt(t, Nth(T, n))]
    BY <1>20, <2>4
  <2> DEFINE F(n) == StringAt(t, Nth(T, n))
  <2>9. ASSUME NEW n \in 1 .. N + 1 PROVE F(n) = c[n] /\ F(n) \in Seq(X)
    <3>1. CASE n = N + 1
      BY <2>4, <2>5, <2>7, <3>1
    <3>2. CASE n # N + 1
      <4>1. n \in 1 .. N
        BY <1>14, <3>2
      <4>2. QED
        BY <1>15, <1>16, <1>18, <2>4, <2>7, <4>1
    <3>3. QED
      BY <3>1, <3>2
  <2>10. b \in Seq(Seq(X)) /\ Len(b) = N + 1 /\ \A n \in 1 .. N + 1 : b[n] = c[n]
    <3>1. b = [n \in 1 .. N + 1 |-> F(n)]
      BY <2>8
    <3>2. \A n \in 1 .. N + 1 : F(n) \in Seq(X)
      BY <2>9
    <3> HIDE DEF F
    <3>3. b \in Seq(Seq(X))
      <4>1. PICK K \in Nat : K = N + 1
        BY <1>14
      <4>2. b = [n \in 1 .. K |-> F(n)] /\ \A n \in 1 .. K : F(n) \in Seq(X)
        BY <3>1, <3>2, <4>1
      <4>3. QED
        BY <4>1, <4>2
    <3>4. Len(b) = N + 1
      BY <1>14, <3>1
    <3>5. \A n \in 1 .. N + 1 : b[n] = c[n]
      BY <1>14, <2>9, <3>1
    <3>6. QED
      BY <3>3, <3>4, <3>5
  <2>11. b = c
    BY <2>7, <2>10, SeqEqual
  <2>12. One(w) = <<w>>
    <3>1. w # <<>>
      BY <1>1, <1>22
    <3>2. QED
      BY <3>1 DEF One
  <2>13. c = a \o <<w>>
    BY <1>18, <2>6, AppendIsConcat
  <2>14. QED
    BY <1>5, <1>6, <1>17, <1>18, <1>19, <2>11, <2>12, <2>13 DEF Adds
<1>23. QED
  BY <1>21, <1>22

-----------------------------------------------------------------------------
\* The block the arguments are packed into

\* The halfwords written, and the one begun, are the text s.
Holds(X, st, s) ==
  /\ st.out \in Seq(X \X X) /\ st.temp \in X
  /\ st.size = Len(s)
  /\ st.size = 2 * Len(st.out) \/ (st.size = 2 * Len(st.out) + 1 /\ st.temp = s[Len(s)])
  /\ \A j \in 1 .. Len(st.out) : st.out[j][1] = s[2 * j - 1] /\ st.out[j][2] = s[2 * j]

\* Another character goes behind the text, written or held back.
LEMMA HoldsNext ==
  ASSUME NEW X, NEW st, NEW s \in Seq(X), Holds(X, st, s), NEW c \in X, NEW new,
         new.size = st.size + 1, new.temp \in X,
         new.out = IF st.size % 2 = 1 THEN Append(st.out, <<st.temp, c>>) ELSE st.out,
         st.size % 2 = 0 => new.temp = c
  PROVE  Holds(X, new, Append(s, c))
<1>1. PICK n \in Nat, m \in Nat, out \in Seq(X \X X), temp \in X :
        n = Len(s) /\ m = Len(out) /\ out = st.out /\ temp = st.temp
  BY DEF Holds
<1>2. st.size = n /\ (n = 2 * m \/ (n = 2 * m + 1 /\ temp = s[n]))
  BY <1>1 DEF Holds
<1>3. \A j \in 1 .. m : out[j][1] = s[2 * j - 1] /\ out[j][2] = s[2 * j]
  BY <1>1 DEF Holds
<1>4. PICK t : t = Append(s, c)
  OBVIOUS
<1>5. t \in Seq(X) /\ Len(t) = n + 1 /\ t[n + 1] = c /\ \A k \in 1 .. n : t[k] = s[k]
  BY <1>1, <1>4, AppendProperties
<1>6. ASSUME NEW j \in 1 .. m PROVE out[j][1] = t[2 * j - 1] /\ out[j][2] = t[2 * j]
  <2>1. 2 * j - 1 \in 1 .. n /\ 2 * j \in 1 .. n
    BY <1>1, <1>2
  <2>2. QED
    BY <1>3, <1>5, <2>1
<1>7. CASE n = 2 * m
  <2>1. n % 2 = 0
    BY <1>1, <1>7
  <2>2. new.out = out /\ new.temp = c
    BY <1>1, <1>2, <2>1
  <2>3. new.size = 2 * m + 1 /\ Len(t) = new.size /\ new.temp = t[Len(t)]
    BY <1>2, <1>5, <1>7, <2>2
  <2>4. QED
    BY <1>1, <1>4, <1>6, <2>2, <2>3 DEF Holds
<1>8. CASE n = 2 * m + 1
  <2>1. n % 2 = 1 /\ temp = s[n]
    BY <1>1, <1>2, <1>8
  <2>2. PICK pair : pair = <<temp, c>> /\ pair \in X \X X /\ pair[1] = temp /\ pair[2] = c
    <3>1. <<temp, c>> \in X \X X /\ <<temp, c>>[1] = temp /\ <<temp, c>>[2] = c
      OBVIOUS
    <3>2. QED
      BY <3>1
  <2>3. PICK o : o = Append(out, pair)
    OBVIOUS
  <2>4. o \in Seq(X \X X) /\ Len(o) = m + 1 /\ o[m + 1] = pair /\ \A j \in 1 .. m : o[j] = out[j]
    <3>1. PICK P : P = X \X X
      OBVIOUS
    <3>2. out \in Seq(P) /\ pair \in P
      BY <1>1, <2>2, <3>1
    <3>3. o \in Seq(P) /\ Len(o) = m + 1 /\ o[m + 1] = pair /\ \A j \in 1 .. m : o[j] = out[j]
      BY <1>1, <2>3, <3>2, AppendProperties
    <3>4. QED
      BY <3>1, <3>3
  <2>5. new.out = o
    BY <1>1, <1>2, <2>1, <2>2, <2>3
  <2>6. new.size = 2 * (m + 1) /\ Len(t) = new.size
    BY <1>2, <1>5, <1>8
  <2>7. pair[1] = t[2 * (m + 1) - 1] /\ pair[2] = t[2 * (m + 1)]
    <3>1. 2 * (m + 1) - 1 = n /\ 2 * (m + 1) = n + 1 /\ n \in 1 .. n
      <4>1. 2 * (m + 1) - 1 = n /\ 2 * (m + 1) = n + 1
        BY <1>8
      <4>2. 1 <= n /\ n <= n
        BY <1>1, <1>8
      <4>3. QED
        BY <4>1, <4>2
    <3>2. t[n] = s[n] /\ t[n + 1] = c
      BY <1>5, <3>1
    <3>3. QED
      BY <2>1, <2>2, <3>1, <3>2
  <2>8. ASSUME NEW j \in 1 .. m + 1 PROVE o[j][1] = t[2 * j - 1] /\ o[j][2] = t[2 * j]
    <3>1. CASE j = m + 1
      BY <2>4, <2>7, <3>1
    <3>2. CASE j # m + 1
      <4>1. j \in 1 .. m
        BY <1>1, <3>2
      <4>2. QED
        BY <1>6, <2>4, <4>1
    <3>3. QED
      BY <3>1, <3>2
  <2>9. QED
    BY <1>4, <2>4, <2>5, <2>6, <2>8 DEF Holds
<1>9. QED
  BY <1>2, <1>7, <1>8

LEMMA HoldsPut ==
  ASSUME NEW X, "NUL" \in X, NEW st, NEW s \in Seq(X), Holds(X, st, s), NEW c \in X
  PROVE  Holds(X, PutCharacter(st, c), Append(s, c))
<1>1. PICK new : new = PutCharacter(st, c)
  OBVIOUS
<1>2. /\ new.size = st.size + 1
      /\ new.out = IF st.size % 2 = 1 THEN Append(st.out, <<st.temp, c>>) ELSE st.out
      /\ new.temp = IF st.size % 2 = 1 THEN st.temp ELSE c
  BY <1>1 DEF PutCharacter
<1>3. new.temp \in X /\ (st.size % 2 = 0 => new.temp = c)
  BY <1>2 DEF Holds
<1>4. QED
  BY <1>1, <1>2, <1>3, HoldsNext

LEMMA HoldsEnd ==
  ASSUME NEW X, "NUL" \in X, NEW st, NEW s \in Seq(X), Holds(X, st, s)
  PROVE  Holds(X, EndArgument(st), Append(s, "NUL"))
<1>1. PICK new : new = EndArgument(st)
  OBVIOUS
<1> DEFINE c == "NUL"
<1>2. /\ new.size = st.size + 1
      /\ new.out = IF st.size % 2 = 1 THEN Append(st.out, <<st.temp, c>>) ELSE st.out
      /\ new.temp = c
  BY <1>1 DEF EndArgument
<1>3. Holds(X, new, Append(s, c))
  <2>1. c \in X
    OBVIOUS
  <2> HIDE DEF c
  <2>2. QED
    BY <1>2, <2>1, HoldsNext
<1>4. QED
  BY <1>1, <1>3

\* One step of either loop: a character, or an argument and its end
Step(kind, st, x) ==
  IF kind = "argument" THEN EndArgument(FoldLeft(PutCharacter, st, CString(x))) ELSE PutCharacter(st, x)

\* f folds the steps over subsets of the first k elements.
Folds(kind, base, seq, k, f) ==
  f = [S \in SUBSET (1 .. k) |->
         IF S = {} THEN base ELSE Step(kind, f[S \ {Max(S)}], seq[Max(S)])]

LEMMA MaxOf ==
  ASSUME NEW k \in Nat \ {0}, NEW S, S \subseteq 1 .. k, k \in S
  PROVE  Max(S) = k /\ S \ {Max(S)} \in SUBSET (1 .. k - 1)
<1>1. \A x : x \in S /\ (\A y \in S : x >= y) <=> x = k
  <2>1. ASSUME NEW x \in S, \A y \in S : x >= y PROVE x = k
    <3>1. x \in 1 .. k /\ x >= k
      BY <2>1
    <3>2. QED
      BY <3>1
  <2>2. \A y \in S : k >= y
    OBVIOUS
  <2>3. QED
    BY <2>1, <2>2
<1>2. Max(S) = k
  BY <1>1 DEF Max
<1>3. QED
  BY <1>2

LEMMA FoldsExist ==
  ASSUME NEW kind, NEW base, NEW seq, NEW n \in Nat
  PROVE  \E f : Folds(kind, base, seq, n, f)
<1> DEFINE G == {k \in 0 .. n : \E f : Folds(kind, base, seq, k, f)}
<1>1. 0 \in G
  <2> DEFINE f == [S \in SUBSET (1 .. 0) |-> base]
  <2>1. \A S \in SUBSET (1 .. 0) : S = {}
    OBVIOUS
  <2>2. f = [S \in SUBSET (1 .. 0) |->
               IF S = {} THEN base ELSE Step(kind, f[S \ {Max(S)}], seq[Max(S)])]
    BY <2>1
  <2>3. Folds(kind, base, seq, 0, f)
    BY <2>2 DEF Folds
  <2>4. QED
    BY <2>3
<1>2. ASSUME NEW k \in 0 .. n - 1, k \in G PROVE k + 1 \in G
  <2>1. PICK f : Folds(kind, base, seq, k, f)
    BY <1>2
  <2>2. PICK j \in Nat : j = k + 1 /\ j # 0 /\ j - 1 = k
    OBVIOUS
  <2> DEFINE g == [S \in SUBSET (1 .. j) |->
                     IF j \in S THEN Step(kind, f[S \ {j}], seq[j]) ELSE f[S]]
  <2>3. ASSUME NEW S \in SUBSET (1 .. j)
        PROVE  g[S] = IF S = {} THEN base ELSE Step(kind, g[S \ {Max(S)}], seq[Max(S)])
    <3>1. CASE j \in S
      <4>1. Max(S) = j /\ S \ {j} \in SUBSET (1 .. k)
        BY <2>2, <3>1, MaxOf
      <4>2. S \ {j} \in SUBSET (1 .. j) /\ j \notin S \ {j} /\ S # {}
        BY <3>1
      <4>3. g[S \ {j}] = f[S \ {j}]
        BY <4>2
      <4>4. g[S] = Step(kind, f[S \ {j}], seq[j])
        BY <3>1
      <4> HIDE DEF g
      <4>5. QED
        BY <4>1, <4>2, <4>3, <4>4
    <3>2. CASE j \notin S
      <4>1. S \in SUBSET (1 .. k)
        BY <2>2, <3>2
      <4>2. f[S] = IF S = {} THEN base ELSE Step(kind, f[S \ {Max(S)}], seq[Max(S)])
        BY <2>1, <4>1 DEF Folds
      <4>3. S \ {Max(S)} \in SUBSET (1 .. j) /\ j \notin S \ {Max(S)}
        BY <3>2
      <4>4. g[S] = f[S] /\ g[S \ {Max(S)}] = f[S \ {Max(S)}]
        BY <3>2, <4>3
      <4> HIDE DEF g
      <4>5. QED
        BY <4>2, <4>4
    <3>3. QED
      BY <3>1, <3>2
  <2>4. g = [S \in SUBSET (1 .. j) |-> g[S]]
    OBVIOUS
  <2> HIDE DEF g
  <2>5. Folds(kind, base, seq, j, g)
    BY <2>3, <2>4 DEF Folds
  <2>6. k + 1 \in 0 .. n
    OBVIOUS
  <2>7. QED
    BY <2>2, <2>5, <2>6
<1>3. n \in G
  <2> HIDE DEF G
  <2>1. n \in 0 .. n
    OBVIOUS
  <2>2. QED
    BY <1>1, <1>2, <2>1, UpTo
<1>4. QED
  BY <1>3

\* g holds what is folded, element by element.
FoldedBy(kind, base, seq, n, g) ==
  g[0] = base /\ \A i \in 1 .. n : g[i] = Step(kind, g[i - 1], seq[i])

LEMMA FoldsSteps ==
  ASSUME NEW kind, NEW base, NEW seq, NEW n \in Nat, NEW f, Folds(kind, base, seq, n, f)
  PROVE  \E g : FoldedBy(kind, base, seq, n, g) /\ g[n] = f[1 .. n]
<1>1. \A S \in SUBSET (1 .. n) :
        f[S] = IF S = {} THEN base ELSE Step(kind, f[S \ {Max(S)}], seq[Max(S)])
  BY DEF Folds
<1> DEFINE g == [i \in 0 .. n |-> f[1 .. i]]
<1>2. g[n] = f[1 .. n]
  <2>1. n \in 0 .. n
    OBVIOUS
  <2>2. QED
    BY <2>1
<1>3. g[0] = base
  <2>1. 1 .. 0 = {} /\ {} \in SUBSET (1 .. n) /\ 0 \in 0 .. n
    OBVIOUS
  <2>2. g[0] = f[{}]
    BY <2>1
  <2>3. QED
    BY <1>1, <2>1, <2>2
<1>4. ASSUME NEW i \in 1 .. n PROVE g[i] = Step(kind, g[i - 1], seq[i])
  <2>1. 1 .. i \in SUBSET (1 .. n) /\ i \in 1 .. i /\ 1 .. i # {} /\ i \in Nat \ {0}
    OBVIOUS
  <2>2. Max(1 .. i) = i
    BY <2>1, MaxOf
  <2>3. (1 .. i) \ {i} = 1 .. i - 1
    OBVIOUS
  <2>4. f[1 .. i] = Step(kind, f[1 .. i - 1], seq[i])
    BY <1>1, <2>1, <2>2, <2>3
  <2>5. i \in 0 .. n /\ i - 1 \in 0 .. n
    OBVIOUS
  <2>6. g[i] = f[1 .. i] /\ g[i - 1] = f[1 .. i - 1]
    BY <2>5
  <2> HIDE DEF g
  <2>7. QED
    BY <2>4, <2>6
<1> HIDE DEF g
<1>5. QED
  BY <1>2, <1>3, <1>4 DEF FoldedBy

LEMMA PutFold ==
  ASSUME NEW X, NEW w \in Seq(X), NEW st
  PROVE  \E f : /\ Folds("character", st, w, Len(w), f)
                /\ FoldLeft(PutCharacter, st, w) = f[1 .. Len(w)]
<1>1. PICK n \in Nat : n = Len(w) /\ DOMAIN w = 1 .. n
  OBVIOUS
<1> DEFINE Iter(f) == f = [S \in SUBSET DOMAIN w |->
                             IF S = {} THEN st ELSE PutCharacter(f[S \ {Max(S)}], w[Max(S)])]
<1>2. FoldLeft(PutCharacter, st, w) = (CHOOSE f : Iter(f))[DOMAIN w]
  BY DEF FoldLeft, MapThenFoldSet
<1>3. \A f : Folds("character", st, w, n, f) <=> Iter(f)
  BY <1>1 DEF Folds, Step
<1> HIDE DEF Iter
<1>4. \E f : Iter(f)
  BY <1>3, FoldsExist
<1>5. PICK f : Iter(f) /\ FoldLeft(PutCharacter, st, w) = f[DOMAIN w]
  BY <1>2, <1>4
<1>6. QED
  BY <1>1, <1>3, <1>5

\* An argument's characters go behind the text.
LEMMA HoldsString ==
  ASSUME NEW X, "NUL" \in X, NEW st, NEW s \in Seq(X), Holds(X, st, s), NEW w \in Seq(X)
  PROVE  Holds(X, FoldLeft(PutCharacter, st, w), s \o w)
<1>1. PICK n \in Nat : n = Len(w)
  OBVIOUS
<1>2. PICK f : Folds("character", st, w, n, f) /\ FoldLeft(PutCharacter, st, w) = f[1 .. n]
  BY <1>1, PutFold
<1>3. PICK g : /\ g[0] = st /\ g[n] = FoldLeft(PutCharacter, st, w)
               /\ \A i \in 1 .. n : g[i] = PutCharacter(g[i - 1], w[i])
  <2>1. PICK g : FoldedBy("character", st, w, n, g) /\ g[n] = f[1 .. n]
    BY <1>2, FoldsSteps
  <2>2. \A x, c : Step("character", x, c) = PutCharacter(x, c)
    BY DEF Step
  <2>3. QED
    BY <1>2, <2>1, <2>2 DEF FoldedBy
<1> DEFINE G == {i \in 0 .. n : Holds(X, g[i], s \o Take(w, i))}
<1>4. 0 \in G
  <2>1. Take(w, 0) = <<>> /\ s \o <<>> = s
    BY TakeNext, ConcatEmptySeq
  <2>2. s \o Take(w, 0) = s
    BY <2>1
  <2>3. Holds(X, g[0], s \o Take(w, 0))
    BY <1>3, <2>2
  <2>4. 0 \in 0 .. n
    BY <1>1
  <2>5. QED
    BY <2>3, <2>4
<1>5. ASSUME NEW i \in 0 .. n - 1, i \in G PROVE i + 1 \in G
  <2>1. PICK a \in Seq(X) : a = Take(w, i)
    BY <1>1, TakeNext
  <2>2. PICK c \in X : c = w[i + 1]
    BY <1>1
  <2>3. Take(w, i + 1) = Append(a, c)
    BY <1>1, <2>1, <2>2, TakeNext
  <2>4. PICK b \in Seq(X) : b = s \o a
    <3>1. s \o a \in Seq(X)
      BY ConcatProperties
    <3>2. QED
      BY <3>1
  <2>5. PICK x, y : x = g[i] /\ y = g[i + 1]
    OBVIOUS
  <2>6. y = PutCharacter(x, c)
    <3>1. i + 1 \in 1 .. n /\ (i + 1) - 1 = i
      OBVIOUS
    <3>2. g[i + 1] = PutCharacter(g[i], w[i + 1])
      BY <1>3, <3>1
    <3>3. QED
      BY <2>2, <2>5, <3>2
  <2>7. Holds(X, x, b)
    BY <1>5, <2>1, <2>4, <2>5
  <2>8. Holds(X, y, Append(b, c))
    BY <2>6, <2>7, HoldsPut
  <2>9. s \o Append(a, c) = Append(b, c)
    BY <2>4, ConcatAppend
  <2>10. Holds(X, g[i + 1], s \o Take(w, i + 1))
    BY <2>3, <2>5, <2>8, <2>9
  <2>11. i + 1 \in 0 .. n
    OBVIOUS
  <2>12. QED
    BY <2>10, <2>11
<1>6. n \in G
  <2> HIDE DEF G
  <2>1. n \in 0 .. n
    OBVIOUS
  <2>2. QED
    BY <1>4, <1>5, <2>1, UpTo
<1>7. Take(w, n) = w
  BY <1>1, TakeNext
<1>8. Holds(X, g[n], s \o Take(w, n))
  BY <1>6
<1>9. QED
  BY <1>3, <1>7, <1>8

Start == [out |-> <<>>, temp |-> "NUL", size |-> 0]

LEMMA PackedFold ==
  ASSUME NEW X, args \in Seq(X)
  PROVE  \E f : Folds("argument", Start, args, Len(args), f) /\ Packed = f[1 .. Len(args)]
<1>1. PICK n \in Nat : n = Len(args) /\ DOMAIN args = 1 .. n
  OBVIOUS
<1> DEFINE Iter(f) == f = [S \in SUBSET DOMAIN args |->
                             IF S = {} THEN Start
                             ELSE EndArgument(FoldLeft(PutCharacter, f[S \ {Max(S)}],
                                                       CString(args[Max(S)])))]
<1>2. Packed = (CHOOSE f : Iter(f))[DOMAIN args]
  <2>1. \A base : FoldLeft(LAMBDA s, arg : EndArgument(FoldLeft(PutCharacter, s, CString(arg))), base, args)
          = (CHOOSE f : f = [S \in SUBSET DOMAIN args |->
                             IF S = {} THEN base
                             ELSE EndArgument(FoldLeft(PutCharacter, f[S \ {Max(S)}],
                                                       CString(args[Max(S)])))])[DOMAIN args]
    BY DEF FoldLeft, MapThenFoldSet
  <2>2. QED
    BY <2>1 DEF Packed, Start
<1>3. \A f : Folds("argument", Start, args, n, f) <=> Iter(f)
  BY <1>1 DEF Folds, Step
<1> HIDE DEF Iter
<1>4. \E f : Iter(f)
  BY <1>3, FoldsExist
<1>5. PICK f : Iter(f) /\ Packed = f[DOMAIN args]
  BY <1>2, <1>4
<1>6. QED
  BY <1>1, <1>3, <1>5

\* A C string holds no NUL.
LEMMA CStringFree ==
  ASSUME NEW X, NEW s \in Seq(X)
  PROVE  NulFree(CString(s))
<1> USE DEF NulFree
<1>1. CASE (\A i \in 1 .. Len(s) : s[i] # "NUL") /\ CString(s) = s
  BY <1>1
<1>2. ASSUME NEW e, FirstNul(s, e), CString(s) = SubSeq(s, 1, e - 1)
      PROVE  NulFree(CString(s))
  <2>1. e \in 1 .. Len(s) /\ \A i \in 1 .. e - 1 : s[i] # "NUL"
    BY <1>2 DEF FirstNul
  <2>2. PICK h \in Nat, j \in Nat : h = 0 /\ j = e - 1
    BY <2>1
  <2>3. h \in 0 .. Len(s) /\ j \in h .. Len(s) /\ h + 1 = 1 /\ j - h = e - 1
    BY <2>1, <2>2
  <2>4. /\ Len(SubSeq(s, h + 1, j)) = j - h
        /\ \A k \in 1 .. j - h : SubSeq(s, h + 1, j)[k] = s[h + k]
    BY <2>3, SubSeqIs
  <2>5. PICK c : c = SubSeq(s, 1, e - 1)
    OBVIOUS
  <2>6. Len(c) = e - 1 /\ \A k \in 1 .. e - 1 : c[k] = s[k]
    BY <2>1, <2>2, <2>3, <2>4, <2>5
  <2>7. QED
    BY <1>2, <2>1, <2>5, <2>6
<1>3. QED
  BY <1>1, <1>2, CStringIs

\* The arguments that are packed, string by string
LEMMA PackedIs ==
  ASSUME args \in Seq(Seq(Text))
  PROVE  \E s \in Seq(Text) : /\ Holds(Text, Packed, s)
                              /\ args \in Seq(Seq(Chars)) => Strings(s) = Keep(args)
<1>1. PICK arr \in Seq(Seq(Text)) : arr = args
  OBVIOUS
<1>2. PICK n \in Nat : n = Len(arr)
  OBVIOUS
<1>3. PICK g : FoldedBy("argument", Start, arr, n, g) /\ g[n] = Packed
  <2>1. PICK f : Folds("argument", Start, arr, n, f) /\ Packed = f[1 .. n]
    BY <1>1, <1>2, PackedFold
  <2>2. QED
    BY <2>1, FoldsSteps
<1>4. PICK nul \in Text : nul = "NUL"
  BY DEF Text
<1> DEFINE PackedTo(i, s) ==
             /\ Holds(Text, g[i], s) /\ Terminated(s)
             /\ arr \in Seq(Seq(Chars)) => Strings(s) = Keep(Take(arr, i))
           G == {i \in 0 .. n : \E s \in Seq(Text) : PackedTo(i, s)}
<1>5. 0 \in G
  <2>1. PICK s \in Seq(Text) : s = <<>>
    BY EmptySeq
  <2>2. Holds(Text, Start, s)
    <3>1. <<>> \in Seq(Text \X Text) /\ Len(<<>>) = 0 /\ Len(s) = 0
      BY <2>1, EmptySeq
    <3>2. Start.out = <<>> /\ Start.temp = "NUL" /\ Start.size = 0
      BY DEF Start
    <3>3. QED
      BY <1>4, <3>1, <3>2 DEF Holds
  <2>3. Terminated(s)
    BY <2>1 DEF Terminated
  <2>4. Strings(s) = <<>>
    <3>1. StringStarts(s) = {}
      BY <2>1 DEF StringStarts
    <3>2. Cardinality(StringStarts(s)) = 0
      BY <3>1, FS_EmptySet
    <3>3. QED
      BY <3>2, StringsAre
  <2>5. Keep(Take(arr, 0)) = <<>>
    <3>1. PICK e \in Seq(Seq(Text)) : e = <<>> /\ e = Take(arr, 0)
      BY TakeNext, EmptySeq
    <3>2. QED
      BY <3>1, KeepIs
  <2>6. g[0] = Start
    BY <1>3 DEF FoldedBy
  <2>7. 0 \in 0 .. n
    BY <1>2
  <2>8. QED
    BY <2>2, <2>3, <2>4, <2>5, <2>6, <2>7
<1>6. ASSUME NEW i \in 0 .. n - 1, i \in G PROVE i + 1 \in G
  <2>1. PICK s \in Seq(Text) : PackedTo(i, s)
    BY <1>6
  <2>2. PICK e \in Seq(Text) : e = arr[i + 1]
    BY <1>1, <1>2
  <2>3. PICK w \in Seq(Text) : w = CString(e)
    <3>1. PICK nil \in Seq(Chars) : nil = <<>>
      BY EmptySeq
    <3>2. CString(e) \in Seq(Text)
      BY <3>1, CStringCat
    <3>3. QED
      BY <3>2
  <2>4. PICK b \in Seq(Text) : b = s \o w
    <3>1. s \o w \in Seq(Text)
      BY ConcatProperties
    <3>2. QED
      BY <3>1
  <2>5. PICK x, y : x = g[i] /\ y = g[i + 1] /\ Holds(Text, x, s) /\ Terminated(s)
    BY <2>1
  <2>6. y = EndArgument(FoldLeft(PutCharacter, x, w))
    <3>1. i + 1 \in 1 .. n /\ (i + 1) - 1 = i
      OBVIOUS
    <3>2. g[i + 1] = Step("argument", g[i], arr[i + 1])
      BY <1>3, <3>1 DEF FoldedBy
    <3>3. Step("argument", x, e) = EndArgument(FoldLeft(PutCharacter, x, CString(e)))
      BY DEF Step
    <3>4. QED
      BY <2>2, <2>3, <2>5, <3>2, <3>3
  <2>7. PICK z : z = FoldLeft(PutCharacter, x, w)
    OBVIOUS
  <2>8. Holds(Text, z, b)
    BY <1>4, <2>4, <2>5, <2>7, HoldsString
  <2>9. PICK t \in Seq(Text) : t = Append(b, nul)
    <3>1. Append(b, nul) \in Seq(Text)
      BY AppendProperties
    <3>2. QED
      BY <3>1
  <2>10. Holds(Text, y, t)
    BY <1>4, <2>6, <2>7, <2>8, <2>9, HoldsEnd
  <2>11. t = s \o Append(w, nul)
    <3>1. s \o Append(w, nul) = Append(s \o w, nul)
      BY ConcatAppend
    <3>2. QED
      BY <2>4, <2>9, <3>1
  <2>12. NulFree(w)
    BY <2>3, CStringFree
  <2>13. Terminated(t) /\ Strings(t) = Strings(s) \o One(w)
    <3>1. t = s \o Append(w, "NUL") /\ "NUL" \in Text
      BY <1>4, <2>11
    <3>2. Terminated(s)
      BY <2>5
    <3>3. Adds(Text, s, w, t)
      BY <2>12, <3>1, <3>2, StringsStep
    <3>4. QED
      BY <3>3 DEF Adds
  <2>14. ASSUME arr \in Seq(Seq(Chars)) PROVE Strings(t) = Keep(Take(arr, i + 1))
    <3> HIDE DEF G
    <3>1. PICK a \in Seq(Seq(Chars)) : a = Take(arr, i) /\ Take(arr, i + 1) = Append(a, arr[i + 1])
      <4>1. PICK d \in Seq(Seq(Chars)) : d = arr /\ Len(d) = n
        BY <1>2, <2>14
      <4>2. i \in 0 .. Len(d) /\ i \in 0 .. Len(d) - 1
        BY <1>2, <4>1
      <4>3. Take(d, i) \in Seq(Seq(Chars)) /\ Take(d, i + 1) = Append(Take(d, i), d[i + 1])
        BY <4>2, TakeNext
      <4>4. QED
        BY <4>1, <4>3
    <3>2. e \in Seq(Chars)
      BY <1>2, <2>2, <2>14
    <3>3. w = e
      BY <2>3, <3>2, CStringOf
    <3>4. Keep(Append(a, e)) = Keep(a) \o One(e)
      BY <3>2, KeepIs
    <3>5. Strings(s) = Keep(a)
      BY <2>1, <2>14, <3>1
    <3>6. QED
      BY <2>2, <2>13, <3>1, <3>3, <3>4, <3>5
  <2>15. PackedTo(i + 1, t)
    BY <2>5, <2>10, <2>13, <2>14
  <2>16. i + 1 \in 0 .. n
    OBVIOUS
  <2>17. QED
    BY <2>15, <2>16
<1>7. n \in G
  <2> HIDE DEF G
  <2>1. n \in 0 .. n
    OBVIOUS
  <2>2. QED
    BY <1>5, <1>6, <2>1, UpTo
<1>8. Take(arr, n) = arr
  BY <1>1, <1>2, TakeNext
<1>9. PICK s \in Seq(Text) : PackedTo(n, s)
  BY <1>7
<1>10. QED
  BY <1>1, <1>3, <1>8, <1>9

\* The first halfwords of a block v are the text s.
Block(v, size, s) ==
  /\ Len(v) \in Nat /\ size = Len(s) /\ size <= 2 * Len(v)
  /\ \A k \in 0 .. size - 1 : k \div 2 < Len(v) /\ v[(k \div 2) + 1][(k % 2) + 1] = s[k + 1]

\* The halfword begun is written, too.
LEMMA PackedBlock ==
  ASSUME NEW st, NEW s \in Seq(Text), Holds(Text, st, s)
  PROVE  Block(Append(st.out, <<st.temp, "NUL">>), st.size, s)
<1>0. PICK P, out, temp : P = Text \X Text /\ out = st.out /\ temp = st.temp
  OBVIOUS
<1>1. PICK n \in Nat, m \in Nat : n = Len(s) /\ m = Len(out)
  <2>1. Len(st.out) \in Nat /\ Len(s) \in Nat
    BY DEF Holds
  <2>2. QED
    BY <1>0, <2>1
<1>2. /\ out \in Seq(P) /\ temp \in Text /\ st.size = n
      /\ n = 2 * m \/ (n = 2 * m + 1 /\ temp = s[n])
  BY <1>0, <1>1 DEF Holds
<1>3. \A j \in 1 .. m : out[j][1] = s[2 * j - 1] /\ out[j][2] = s[2 * j]
  BY <1>0, <1>1 DEF Holds
<1>4. PICK pair : pair = <<temp, "NUL">> /\ pair \in P /\ pair[1] = temp
  <2>1. <<temp, "NUL">> \in Text \X Text /\ <<temp, "NUL">>[1] = temp
    BY <1>2 DEF Text
  <2>2. QED
    BY <1>0, <2>1
<1>5. PICK v : v = Append(out, pair)
  OBVIOUS
<1>6. Len(v) = m + 1 /\ v[m + 1] = pair /\ \A j \in 1 .. m : v[j] = out[j]
  BY <1>1, <1>2, <1>4, <1>5, AppendProperties
<1>7. ASSUME NEW k \in 0 .. n - 1
      PROVE  k \div 2 < m + 1 /\ v[(k \div 2) + 1][(k % 2) + 1] = s[k + 1]
  <2>0. PICK h, bit : h = k \div 2 /\ bit = k % 2
    OBVIOUS
  <2>1. h \in Nat /\ ((k = 2 * h /\ bit = 0) \/ (k = 2 * h + 1 /\ bit = 1))
    <3>1. k \in Nat
      BY <1>1
    <3>2. h \in Nat /\ bit \in Nat /\ k = 2 * h + bit /\ bit < 2
      BY <2>0, <3>1
    <3>3. bit = 0 \/ bit = 1
      BY <3>2
    <3>4. CASE bit = 0
      <4>1. 2 * h + bit = 2 * h
        BY <3>2, <3>4
      <4>2. QED
        BY <3>2, <3>4, <4>1
    <3>5. CASE bit = 1
      BY <3>2, <3>5
    <3>6. QED
      BY <3>3, <3>4, <3>5
  <2>2. h < m + 1
    BY <1>2, <2>1
  <2>3. ASSUME h < m PROVE v[h + 1][bit + 1] = s[k + 1]
    <3>1. v[h + 1] = out[h + 1]
      <4>1. h + 1 \in 1 .. m
        BY <1>1, <2>1, <2>3
      <4>2. QED
        BY <1>6, <4>1
    <3>2. out[h + 1][1] = s[2 * (h + 1) - 1] /\ out[h + 1][2] = s[2 * (h + 1)]
      <4>1. h + 1 \in 1 .. m
        BY <1>1, <2>1, <2>3
      <4>2. QED
        BY <1>3, <4>1
    <3>3. 2 * (h + 1) - 1 = 2 * h + 1 /\ 2 * (h + 1) = 2 * h + 2
      BY <2>1
    <3>4. CASE k = 2 * h /\ bit = 0
      <4>1. bit + 1 = 1 /\ k + 1 = 2 * h + 1
        BY <2>1, <3>4
      <4>2. QED
        BY <2>1, <2>2, <3>1, <3>2, <3>3, <4>1
    <3>5. CASE k = 2 * h + 1 /\ bit = 1
      <4>1. bit + 1 = 2 /\ k + 1 = 2 * h + 2
        BY <2>1, <3>5
      <4>2. QED
        BY <2>1, <2>2, <3>1, <3>2, <3>3, <4>1
    <3>6. QED
      BY <2>1, <3>4, <3>5
  <2>4. ASSUME m <= h PROVE v[h + 1][bit + 1] = s[k + 1]
    <3>1. h = m
      BY <1>1, <2>1, <2>2, <2>4
    <3>2. n = 2 * m + 1 /\ k = 2 * h /\ bit = 0
      BY <1>2, <2>1, <3>1
    <3>3. v[h + 1] = pair /\ pair[1] = s[n] /\ bit + 1 = 1 /\ k + 1 = n
      BY <1>1, <1>2, <1>4, <1>6, <3>1, <3>2
    <3>4. QED
      BY <2>1, <2>2, <3>3
  <2>5. QED
    BY <1>1, <2>0, <2>1, <2>2, <2>3, <2>4
<1>8. n <= 2 * (m + 1)
  BY <1>2
<1>9. QED
  BY <1>0, <1>1, <1>2, <1>4, <1>5, <1>6, <1>7, <1>8 DEF Block

\* What is copied behind the binary is the text.
LEMMA CopyIs ==
  ASSUME NEW s \in Seq(Text), Block(vram, argSize, s)
  PROVE  SubSeq(copyLoop(argSize), 1, argSize) = s
<1>1. PICK n \in Nat : n = argSize /\ n = Len(s)
  BY DEF Block
<1>2. \A k \in 0 .. n - 1 : Byte(k) = s[k + 1]
  BY <1>1 DEF Block, Byte
<1>3. PICK size \in Nat : size = 4 * ((n + 3) \div 4) /\ n <= size
  BY <1>1
<1>4. PICK c : c = [k \in 1 .. size |-> Byte(k - 1)]
  OBVIOUS
<1>5. copyLoop(argSize) = c
  BY <1>1, <1>3, <1>4 DEF copyLoop
<1>6. \A k \in 1 .. n : c[k] = s[k]
  <2>1. ASSUME NEW k \in 1 .. n PROVE c[k] = s[k]
    <3>1. k \in 1 .. size /\ k - 1 \in 0 .. n - 1 /\ (k - 1) + 1 = k
      BY <1>3
    <3>2. QED
      BY <1>2, <1>4, <3>1
  <2>2. QED
    BY <2>1
<1>7. PICK t : t = SubSeq(c, 1, n)
  OBVIOUS
<1>8. t = [k \in 1 .. n |-> t[k]] /\ \A k \in 1 .. n : t[k] = c[k]
  <2>1. PICK Y : Y = {c[k] : k \in 1 .. size}
    OBVIOUS
  <2>2. c \in Seq(Y) /\ Len(c) = size
    <3>1. \A k \in 1 .. size : c[k] \in Y
      BY <2>1
    <3>2. QED
      BY <1>4, <3>1
  <2>3. PICK h \in Nat : h = 0
    OBVIOUS
  <2>4. h \in 0 .. Len(c) /\ n \in h .. Len(c) /\ h + 1 = 1 /\ n - h = n
    BY <1>3, <2>2, <2>3
  <2>5. /\ SubSeq(c, h + 1, n) \in Seq(Y) /\ Len(SubSeq(c, h + 1, n)) = n - h
        /\ \A k \in 1 .. n - h : SubSeq(c, h + 1, n)[k] = c[h + k]
    BY <2>2, <2>4, SubSeqIs
  <2>6. t \in Seq(Y) /\ Len(t) = n /\ \A k \in 1 .. n : t[k] = c[0 + k]
    BY <1>7, <2>3, <2>4, <2>5
  <2>7. QED
    BY <2>6
<1>9. s = [k \in 1 .. n |-> s[k]]
  BY <1>1
<1>10. t = s
  BY <1>6, <1>8, <1>9
<1>11. QED
  BY <1>1, <1>5, <1>7, <1>10

-----------------------------------------------------------------------------
\* The arguments made are the documented ones, but for empty ones

\* A path in a directory is a text, and no less empty than before.
LEMMA AbsText ==
  ASSUME NEW X, Chars \subseteq X, NEW w \in Seq(X), NEW dir \in Seq(Chars), dir # <<>>
  PROVE  toAbsPath(w, dir) \in Seq(X) /\ (w # <<>> => toAbsPath(w, dir) # <<>>)
<1>1. CASE w = <<>> \/ Whole(w)
  BY <1>1, AbsIs
<1>2. CASE ~(w = <<>> \/ Whole(w))
  <2>1. PICK b : b = Under(dir)
    OBVIOUS
  <2>2. b \in Seq(X)
    <3>1. b \in Seq(Chars)
      BY <2>1, UnderIs
    <3>2. QED
      BY <3>1, SeqMonotonic
  <2>3. Len(w) >= 1 /\ Len(w) \in Nat /\ Len(b) \in Nat
    BY <1>2, <2>2, EmptySeq
  <2>4. b \o w \in Seq(X) /\ Len(b \o w) = Len(b) + Len(w)
    BY <2>2, ConcatProperties
  <2>5. PICK t : t = b \o w
    OBVIOUS
  <2>6. t \in Seq(X) /\ t # <<>>
    <3>1. Len(t) >= 1
      BY <2>3, <2>4, <2>5
    <3>2. Len(<<>>) = 0
      OBVIOUS
    <3>3. QED
      BY <2>4, <2>5, <3>1, <3>2
  <2>7. QED
    BY <1>2, <2>1, <2>5, <2>6, AbsIs
<1>3. QED
  BY <1>1, <1>2

\* Of an argument kept nothing is lost by making the first one absolute.
LEMMA AbsoluteKept ==
  ASSUME NEW X, Chars \subseteq X, NEW all \in Seq(Seq(X)), all # <<>>,
         NEW base \in Seq(Chars), base # <<>>
  PROVE  /\ Absolute(all, base) \in Seq(Seq(X))
         /\ all[1] # <<>> =>
              /\ Keep(Absolute(all, base)) = <<toAbsPath(all[1], base)>> \o Keep(Tail(all))
              /\ Keep(all) = <<all[1]>> \o Keep(Tail(all))
<1>1. PICK T : T = Seq(X)
  OBVIOUS
<1>2. PICK f, a : f = all[1] /\ a = toAbsPath(f, base)
  OBVIOUS
<1>3. f \in T
  <2>1. Len(all) >= 1
    BY EmptySeq
  <2>2. QED
    BY <1>1, <1>2, <2>1
<1>4. a \in T /\ (f # <<>> => a # <<>>)
  BY <1>1, <1>2, <1>3, AbsText
<1>5. PICK t : t = Tail(all)
  OBVIOUS
<1>6. t \in Seq(T)
  BY <1>1, <1>5, HeadTailProperties
<1>7. \A e \in T : <<e>> \in Seq(T)
  OBVIOUS
<1>8. Absolute(all, base) = <<a>> \o t
  BY <1>2, <1>5 DEF Absolute
<1>9. <<a>> \o t \in Seq(T)
  BY <1>4, <1>6, <1>7, ConcatProperties
<1>10. all = <<f>> \o t
  <2>1. all = <<Head(all)>> \o Tail(all)
    BY HeadTailProperties
  <2>2. Head(all) = all[1]
    <3>1. all \in Seq(T) /\ all # <<>>
      BY <1>1
    <3>2. QED
      BY <3>1
  <2>3. QED
    BY <1>2, <1>5, <2>1, <2>2
<1>11. ASSUME NEW e \in T, e # <<>> PROVE Keep(<<e>> \o t) = <<e>> \o Keep(t)
  <2>1. PICK o \in Seq(T) : o = <<e>>
    BY <1>7
  <2>2. Keep(o) = o
    <3>1. \A k \in 1 .. Len(o) : o[k] # <<>>
      BY <1>11, <2>1
    <3>2. QED
      BY <3>1, KeepAll
  <2>3. Keep(o \o t) = Keep(o) \o Keep(t)
    BY <1>6, KeepConcat
  <2>4. QED
    BY <2>1, <2>2, <2>3
<1>12. f # <<>> => Keep(<<a>> \o t) = <<a>> \o Keep(t) /\ Keep(<<f>> \o t) = <<f>> \o Keep(t)
  BY <1>3, <1>4, <1>11
<1>13. QED
  BY <1>1, <1>2, <1>5, <1>8, <1>9, <1>10, <1>12

\* Nothing empty is kept.
Full(s) == \A k \in 1 .. Len(s) : s[k] # <<>>

LEMMA KeepFull ==
  ASSUME NEW X, NEW a \in Seq(X)
  PROVE  Full(Keep(a))
<1>1. PICK n \in Nat : n = Len(a)
  OBVIOUS
<1> DEFINE G == {i \in 0 .. n : Full(Keep(Take(a, i)))}
<1>2. 0 \in G
  <2>1. Take(a, 0) = <<>> /\ Take(a, 0) \in Seq(X)
    BY <1>1, TakeNext
  <2>2. Keep(Take(a, 0)) = <<>>
    BY <2>1, KeepIs
  <2>3. Full(<<>>)
    BY DEF Full
  <2>4. QED
    BY <2>2, <2>3
<1>3. ASSUME NEW i \in 0 .. n - 1, i \in G PROVE i + 1 \in G
  <2>1. PICK s \in Seq(X) : s = Take(a, i)
    BY <1>1, TakeNext
  <2>2. PICK e \in X : e = a[i + 1]
    BY <1>1
  <2>3. Take(a, i + 1) = Append(s, e)
    BY <1>1, <2>1, <2>2, TakeNext
  <2>4. PICK k \in Seq(X) : k = Keep(s)
    BY KeepIs
  <2>5. Keep(Append(s, e)) = k \o One(e)
    BY <2>4, KeepIs
  <2>6. Full(k)
    BY <1>3, <2>1, <2>4
  <2>7. CASE e = <<>>
    <3>1. Keep(Append(s, e)) = k
      BY <2>5, <2>7, ConcatEmptySeq DEF One
    <3>2. i + 1 \in 0 .. n
      OBVIOUS
    <3>3. QED
      BY <2>3, <2>6, <3>1, <3>2
  <2>8. CASE e # <<>>
    <3>1. PICK o : o = k \o <<e>>
      OBVIOUS
    <3>2. Keep(Append(s, e)) = o
      BY <2>5, <2>8, <3>1 DEF One
    <3>3. o = Append(k, e)
      BY <3>1
    <3>4. Len(o) = Len(k) + 1 /\ o[Len(k) + 1] = e /\ \A j \in 1 .. Len(k) : o[j] = k[j]
      BY <3>3, AppendProperties
    <3>5. Full(o)
      BY <2>6, <2>8, <3>4 DEF Full
    <3>6. i + 1 \in 0 .. n
      OBVIOUS
    <3>7. QED
      BY <2>3, <3>2, <3>5, <3>6
  <2>9. QED
    BY <2>7, <2>8
<1>4. n \in G
  <2> HIDE DEF G
  <2>1. n \in 0 .. n
    OBVIOUS
  <2>2. QED
    BY <1>2, <1>3, <2>1, UpTo
<1>5. Take(a, n) = a
  BY <1>1, TakeNext
<1>6. QED
  BY <1>4, <1>5

\* What a plain file lists is what is documented of it.
ListedAs(words, list, base) ==
  /\ list \in Seq(Seq(Chars))
  /\ words = <<>> <=> list = <<>>
  /\ Keep(list) = IF words = <<>> THEN <<>> ELSE Absolute(words, base)

LEMMA ListedKept ==
  ASSUME NEW lines \in Seq(Seq(Chars)), NEW base \in Seq(Chars), base # <<>>,
         \A k \in DOMAIN lines : ~Contains(lines[k], "#"),
         lines # <<>> => Words(lines[1]) # <<>>
  PROVE  ListedAs(Documented(lines), ListedIn(lines, base), base)
<1>1. PICK all \in Seq(Seq(Chars)) : all = parseArgFileAll(lines)
  BY ListKept
<1>2. PICK words : words = Documented(lines)
  OBVIOUS
<1>3. Keep(all) = words
  BY <1>1, <1>2, ListKept
<1>4. (all = <<>> /\ words = <<>>) \/ (all # <<>> /\ words # <<>> /\ all[1] = words[1])
  BY <1>1, <1>2, DocumentedFirst
<1>5. ListedIn(lines, base) = IF all = <<>> THEN <<>> ELSE Absolute(all, base)
  BY <1>1 DEF ListedIn
<1>6. CASE all = <<>>
  <2>1. PICK list \in Seq(Seq(Chars)) : list = <<>>
    BY EmptySeq
  <2>2. Keep(list) = <<>>
    BY <2>1, KeepIs
  <2>3. QED
    BY <1>2, <1>4, <1>5, <1>6, <2>1, <2>2 DEF ListedAs
<1>7. CASE all # <<>>
  <2>1. words # <<>> /\ all[1] = words[1]
    BY <1>4, <1>7
  <2>2. words \in Seq(Seq(Chars))
    BY <1>2, DocumentedType
  <2>3. words[1] # <<>>
    <3>1. Len(words) >= 1
      BY <2>1, <2>2, EmptySeq
    <3>2. \A k \in 1 .. Len(words) : words[k] # <<>>
      BY <1>3, KeepFull DEF Full
    <3>3. QED
      BY <2>2, <3>1, <3>2
  <2>4. PICK list : list = Absolute(all, base)
    OBVIOUS
  <2>5. PICK f, a, r : f = all[1] /\ a = toAbsPath(f, base) /\ r = Keep(Tail(all))
    OBVIOUS
  <2>6. list \in Seq(Seq(Chars)) /\ Keep(list) = <<a>> \o r /\ words = <<f>> \o r
    <3>1. all[1] # <<>>
      BY <2>1, <2>3
    <3>2. QED
      BY <1>3, <1>7, <2>4, <2>5, <3>1, AbsoluteKept
  <2>7. r \in Seq(Seq(Chars))
    <3>1. Tail(all) \in Seq(Seq(Chars))
      BY <1>7, HeadTailProperties
    <3>2. QED
      BY <2>5, <3>1, KeepIs
  <2>8. Tail(words) = r
    <3>1. PICK T : T = Seq(Chars)
      OBVIOUS
    <3>2. r \in Seq(T) /\ f \in T
      <4>1. Len(all) >= 1
        BY <1>7, EmptySeq
      <4>2. QED
        BY <2>5, <2>7, <3>1, <4>1
    <3>3. Tail(<<f>> \o r) = r
      BY <3>2
    <3>4. QED
      BY <2>6, <3>3
  <2>9. Absolute(words, base) = <<a>> \o r
    <3>1. words[1] = f
      BY <2>1, <2>5
    <3>2. QED
      BY <2>5, <2>8, <3>1 DEF Absolute
  <2>10. list # <<>>
    BY <1>7, <2>4, AbsoluteIs
  <2>11. ListedIn(lines, base) = list
    BY <1>5, <1>7, <2>4
  <2>12. Keep(list) = Absolute(words, base)
    BY <2>6, <2>9
  <2>13. QED
    BY <1>2, <2>1, <2>6, <2>10, <2>11, <2>12 DEF ListedAs
<1>8. QED
  BY <1>6, <1>7

\* Every argument is a text.
LEMMA ListedText ==
  ASSUME NEW lines \in Seq(Seq(Chars)), NEW base \in Seq(Chars), base # <<>>
  PROVE  ListedIn(lines, base) \in Seq(Seq(Text))
<1>1. PICK all \in Seq(Seq(Text)) : all = parseArgFileAll(lines)
  BY AllAre
<1>2. ListedIn(lines, base) = IF all = <<>> THEN <<>> ELSE Absolute(all, base)
  BY <1>1 DEF ListedIn
<1>3. Chars \subseteq Text
  BY DEF Text
<1>4. all # <<>> => Absolute(all, base) \in Seq(Seq(Text))
  BY <1>3, AbsoluteKept
<1>5. QED
  BY <1>1, <1>2, <1>4

LEMMA ExtDirIs == EXT_DIR \in Seq(Chars) /\ EXT_DIR # <<>>
<1>1. "/" \in Chars /\ "nds" \in Chars
  BY CharsAssumption
<1>2. <<"/", "nds">> \in Seq(Chars) /\ <<"/", "nds">> # <<>>
  BY <1>1
<1>3. QED
  BY <1>2 DEF EXT_DIR

LEMMA ArgsText ==
  ASSUME NEW card, ProperCard(card), NEW dir, IsDir(dir), NEW path, IsFile(path)
  PROVE  argarray(card, dir, path) \in Seq(Seq(Text))
<1>1. PICK arr : arr = argarray(card, dir, path)
  OBVIOUS
<1>2. dir \in Seq(Chars) /\ dir # <<>> /\ path \in Seq(Chars)
  <2>1. dir \in Seq(Chars) /\ Len(dir) >= 2
    BY DEF IsDir
  <2>2. Len(<<>>) = 0
    OBVIOUS
  <2>3. QED
    BY <2>1, <2>2 DEF IsFile
<1>3. Chars \subseteq Text
  BY DEF Text
<1>4. PICK last \in Seq(Text) : last = toAbsPath(path, dir)
  <2>1. path \in Seq(Text)
    BY <1>2, <1>3, SeqMonotonic
  <2>2. QED
    BY <1>2, <1>3, <2>1, AbsText
<1>5. \A p : Lines(card, dir, p) \in Seq(Seq(Chars))
  BY LinesAre
<1>6. CASE strCaseEnd(path, NDS_EXT)
  <2>1. arr = Absolute(<<path>>, dir)
    BY <1>1, <1>6, ArrayIs
  <2>2. <<path>> \in Seq(Seq(Text)) /\ <<path>> # <<>>
    <3>1. path \in Seq(Text)
      BY <1>2, <1>3, SeqMonotonic
    <3>2. QED
      BY <3>1
  <2>3. QED
    BY <1>1, <1>2, <1>3, <2>1, <2>2, AbsoluteKept
<1>7. CASE ~strCaseEnd(path, NDS_EXT) /\ strCaseEnd(path, ARG_EXT)
  <2>1. arr = ListedIn(Lines(card, dir, path), dir)
    BY <1>1, <1>7, ArrayIs
  <2>2. QED
    BY <1>1, <1>2, <1>5, <2>1, ListedText
<1>8. CASE ~strCaseEnd(path, NDS_EXT) /\ ~strCaseEnd(path, ARG_EXT)
  <2>1. PICK list : list = ListedIn(Lines(card, dir, toExtPath(path)), EXT_DIR)
    OBVIOUS
  <2>2. list \in Seq(Seq(Text))
    BY <1>5, <2>1, ListedText, ExtDirIs
  <2>3. arr = IF list = <<>> THEN <<>> ELSE Append(list, last)
    BY <1>1, <1>4, <1>8, <2>1, ArrayIs
  <2>4. Append(list, last) \in Seq(Seq(Text))
    BY <2>2, AppendProperties
  <2>5. QED
    BY <1>1, <2>2, <2>3, <2>4
<1>9. QED
  BY <1>6, <1>7, <1>8

\* The arguments of a program that is started are those documented of its path,
\* and empty ones.
LEMMA ArgsExpected ==
  ASSUME NEW card, ProperCard(card), NEW dir, IsDir(dir), NEW path, IsFile(path),
         NEW file, file = (IF strCaseEnd(path, NDS_EXT) THEN <<>>
                           ELSE IF strCaseEnd(path, ARG_EXT) THEN Located(path, dir)
                           ELSE toExtPath(path)),
         NEW lines, lines = (IF file \in DOMAIN card THEN card[file] ELSE <<>>),
         \A k \in DOMAIN lines : ~Contains(lines[k], "#"),
         lines # <<>> => Words(lines[1]) # <<>>,
         argsFillArray(argarray(card, dir, path))
  PROVE  /\ argarray(card, dir, path) \in Seq(Seq(Chars))
         /\ Keep(argarray(card, dir, path)) = ExpectedOf(card, dir, path)
<1>1. PICK arr, expected, words :
        /\ arr = argarray(card, dir, path) /\ expected = ExpectedOf(card, dir, path)
        /\ words = Documented(lines)
  OBVIOUS
<1>2. expected =
        IF strCaseEnd(path, NDS_EXT) THEN <<toAbsPath(path, dir)>>
        ELSE IF strCaseEnd(path, ARG_EXT)
             THEN IF words = <<>> THEN <<>> ELSE Absolute(words, dir)
        ELSE Append(IF words = <<>> THEN <<>> ELSE Absolute(words, EXT_DIR), toAbsPath(path, dir))
  BY <1>1 DEF ExpectedOf, Absolute
<1>3. arr # <<>>
  BY <1>1 DEF argsFillArray
<1>4. dir \in Seq(Chars) /\ dir # <<>> /\ path \in Seq(Chars)
  <2>1. dir \in Seq(Chars) /\ Len(dir) >= 2
    BY DEF IsDir
  <2>2. Len(<<>>) = 0
    OBVIOUS
  <2>3. QED
    BY <2>1, <2>2 DEF IsFile
<1>5. PICK last \in Seq(Chars) : last = toAbsPath(path, dir) /\ (path # <<>> => last # <<>>)
  BY <1>4, AbsText
<1>6. lines \in Seq(Seq(Chars))
  <2>1. \A p \in DOMAIN card : card[p] \in Seq(Seq(Chars))
    BY DEF ProperCard
  <2>2. <<>> \in Seq(Seq(Chars))
    BY EmptySeq
  <2>3. QED
    BY <2>1, <2>2
<1>7. \A base \in Seq(Chars) : base # <<>> => ListedAs(words, ListedIn(lines, base), base)
  BY <1>1, <1>6, ListedKept
<1>8. CASE strCaseEnd(path, NDS_EXT)
  <2>1. arr = <<last>>
    <3>1. arr = Absolute(<<path>>, dir)
      BY <1>1, <1>8, ArrayIs
    <3>2. <<path>>[1] = path /\ Tail(<<path>>) = <<>>
      BY <1>4
    <3>3. <<last>> \o <<>> = <<last>>
      BY ConcatEmptySeq
    <3>4. QED
      BY <1>5, <3>1, <3>2, <3>3 DEF Absolute
  <2>2. path # <<>>
    <3>1. EndsNds(path)
      BY <1>4, <1>8, EndsInNds
    <3>2. Len(path) >= 2 /\ Len(<<>>) = 0
      BY <3>1 DEF EndsNds
    <3>3. QED
      BY <3>2
  <2>3. arr \in Seq(Seq(Chars)) /\ \A k \in 1 .. Len(arr) : arr[k] # <<>>
    BY <1>5, <2>1, <2>2
  <2>4. Keep(arr) = arr
    BY <2>3, KeepAll
  <2>5. expected = arr
    BY <1>2, <1>5, <1>8, <2>1
  <2>6. QED
    BY <1>1, <2>3, <2>4, <2>5
<1>9. CASE ~strCaseEnd(path, NDS_EXT) /\ strCaseEnd(path, ARG_EXT)
  <2>1. Lines(card, dir, path) = lines
    BY <1>9 DEF Lines
  <2>2. arr = ListedIn(lines, dir)
    BY <1>1, <1>9, <2>1, ArrayIs
  <2>3. ListedAs(words, arr, dir)
    BY <1>4, <1>7, <2>2
  <2>4. expected = IF words = <<>> THEN <<>> ELSE Absolute(words, dir)
    BY <1>2, <1>9
  <2>5. QED
    BY <1>1, <2>3, <2>4 DEF ListedAs
<1>10. CASE ~strCaseEnd(path, NDS_EXT) /\ ~strCaseEnd(path, ARG_EXT)
  <2>1. file = toExtPath(path)
    BY <1>10
  <2>2. Lines(card, dir, toExtPath(path)) = lines
    <3>1. Located(toExtPath(path), dir) = toExtPath(path)
      BY HandlerIs
    <3>2. QED
      BY <2>1, <3>1 DEF Lines
  <2>3. PICK list : list = ListedIn(lines, EXT_DIR)
    OBVIOUS
  <2>4. arr = IF list = <<>> THEN <<>> ELSE Append(list, last)
    <3>1. argarray(card, dir, path) =
            IF ListedIn(Lines(card, dir, toExtPath(path)), EXT_DIR) = <<>> THEN <<>>
            ELSE Append(ListedIn(Lines(card, dir, toExtPath(path)), EXT_DIR), toAbsPath(path, dir))
      BY <1>10, ArrayIs
    <3>2. QED
      BY <1>1, <1>5, <2>2, <2>3, <3>1
  <2>5. list # <<>> /\ arr = Append(list, last)
    BY <1>3, <2>4
  <2>6. ListedAs(words, list, EXT_DIR)
    BY <1>7, <2>3, ExtDirIs
  <2>7. words # <<>> /\ list \in Seq(Seq(Chars)) /\ Keep(list) = Absolute(words, EXT_DIR)
    BY <2>5, <2>6 DEF ListedAs
  <2>8. last # <<>>
    <3>1. SUFFICES ASSUME path = <<>> PROVE FALSE
      BY <1>5
    <3>2. toExtPath(path) = <<>>
      <4>1. SelectLastInSeq(path, LAMBDA c : c = ".") = 0
        BY <3>1 DEF SelectLastInSeq
      <4>2. QED
        BY <4>1 DEF toExtPath
    <3>3. lines = <<>>
      <4>1. \A p \in DOMAIN card : p # <<>>
        BY DEF ProperCard, IsPath
      <4>2. QED
        BY <2>1, <3>2, <4>1
    <3>4. parseArgFileAll(lines) = <<>>
      <4>1. [k \in DOMAIN lines |-> LineArgs(line_sv(lines, k))] = <<>>
        BY <3>3
      <4>2. FlattenSeq(<<>>) = <<>>
        BY DEF FlattenSeq
      <4>3. QED
        BY <4>1, <4>2 DEF parseArgFileAll
    <3>5. QED
      BY <2>3, <2>5, <3>4 DEF ListedIn
  <2>9. Keep(Append(list, last)) = Keep(list) \o <<last>>
    BY <2>7, <2>8, KeepIs DEF One
  <2>10. Absolute(words, EXT_DIR) \o <<last>> = Append(Absolute(words, EXT_DIR), last)
    <3>1. PICK T, k : T = Seq(Chars) /\ k = Absolute(words, EXT_DIR)
      OBVIOUS
    <3>2. k \in Seq(T)
      BY <2>7, <3>1, KeepIs
    <3>3. k \o <<last>> = Append(k, last)
      BY <1>5, <3>1, <3>2
    <3>4. QED
      BY <3>1, <3>3
  <2>11. expected = Append(Absolute(words, EXT_DIR), last)
    BY <1>2, <1>5, <1>10, <2>7
  <2>12. Append(list, last) \in Seq(Seq(Chars))
    BY <1>5, <2>7, AppendProperties
  <2>13. QED
    BY <1>1, <2>5, <2>7, <2>9, <2>10, <2>11, <2>12
<1>11. QED
  BY <1>8, <1>9, <1>10

-----------------------------------------------------------------------------
\* The arguments on their way to the program

PackedPcs == {"patch", "load", "arguments"}

\* The strings of text s are the arguments that are not empty.
Lists(s, arr) == arr \in Seq(Seq(Chars)) => Strings(s) = Keep(arr)

\* VRAM holds a text of argSize characters: that of the arguments once they are
\* packed.  The program's command line is this text.
BlockInv ==
  /\ \E s \in Seq(Text) : Block(vram, argSize, s) /\ (pc \in PackedPcs => Lists(s, args))
  /\ pc # "started" => cmdline = <<>>
  /\ pc = "started" => Len(cmdline) = argSize /\ Lists(cmdline, args)

LEMMA BlockKept ==
  ASSUME BlockInv, UNCHANGED <<vram, argSize, cmdline>>,
         pc' = "started" <=> pc = "started",
         pc' = "started" \/ pc' \in PackedPcs => args' = args,
         pc' \in PackedPcs => pc \in PackedPcs
  PROVE  BlockInv'
<1>1. PICK s \in Seq(Text) : /\ Block(vram, argSize, s)
                             /\ pc \in PackedPcs => Lists(s, args)
  BY DEF BlockInv
<1>2. Block(vram', argSize', s)
  BY <1>1
<1>3. pc' \in PackedPcs => Lists(s, args')
  BY <1>1
<1>4. cmdline' = cmdline /\ argSize' = argSize
  OBVIOUS
<1>5. pc' # "started" => cmdline' = <<>>
  BY <1>4 DEF BlockInv
<1>6. pc' = "started" => Len(cmdline') = argSize' /\ Lists(cmdline', args')
  BY <1>4 DEF BlockInv
<1>7. QED
  BY <1>2, <1>3, <1>5, <1>6 DEF BlockInv

\* What is packed is a text in VRAM.
LEMMA BlockPacked ==
  ASSUME BlockInv, WhereInv, PackArguments
  PROVE  BlockInv'
<1>1. /\ pc = "pack" /\ pc' = "patch" /\ args' = args /\ cmdline' = cmdline
      /\ vram' = Append(Packed.out, <<Packed.temp, "NUL">>) /\ argSize' = Packed.size
  BY DEF PackArguments, Goto
<1>2. args \in Seq(Seq(Text))
  <2>1. PICK card, dir, path, arr : card = files /\ dir = cwd /\ path = filePath /\ arr = args
    OBVIOUS
  <2>2. Where("pack", card, dir, path, arr) /\ ProperCard(card) /\ IsDir(dir)
    BY <1>1, <2>1, LaunchAssumption DEF WhereInv
  <2>3. IsFile(path) /\ arr = argarray(card, dir, path)
    BY <2>2 DEF Where, FillPcs, FilledPcs
  <2>4. arr \in Seq(Seq(Text))
    BY <2>2, <2>3, ArgsText
  <2>5. QED
    BY <2>1, <2>4
<1>3. PICK s \in Seq(Text) : /\ Holds(Text, Packed, s)
                             /\ args \in Seq(Seq(Chars)) => Strings(s) = Keep(args)
  BY <1>2, PackedIs
<1>4. PICK st : st = Packed
  OBVIOUS
<1>5. Block(Append(st.out, <<st.temp, "NUL">>), st.size, s)
  BY <1>3, <1>4, PackedBlock
<1>6. Block(vram', argSize', s)
  BY <1>1, <1>4, <1>5
<1>7. Lists(s, args')
  BY <1>1, <1>3 DEF Lists
<1>8. cmdline' = <<>>
  BY <1>1 DEF BlockInv
<1>9. QED
  BY <1>1, <1>6, <1>7, <1>8 DEF BlockInv

\* What is copied is the text.
LEMMA BlockPassed ==
  ASSUME BlockInv, PassArguments
  PROVE  BlockInv'
<1>1. /\ pc = "arguments" /\ pc' = "started"
      /\ cmdline' = SubSeq(copyLoop(argSize), 1, argSize)
      /\ args' = args /\ vram' = vram /\ argSize' = argSize
  BY DEF PassArguments, Goto
<1>2. PICK s \in Seq(Text) : Block(vram, argSize, s) /\ Lists(s, args)
  BY <1>1 DEF BlockInv, PackedPcs
<1>3. SubSeq(copyLoop(argSize), 1, argSize) = s
  BY <1>2, CopyIs
<1>4. cmdline' = s
  BY <1>1, <1>3
<1>5. Len(s) = argSize
  BY <1>2 DEF Block
<1>6. Block(vram', argSize', s)
  BY <1>1, <1>2
<1>7. Len(cmdline') = argSize' /\ Lists(cmdline', args')
  BY <1>1, <1>2, <1>4, <1>5
<1>8. pc' \notin PackedPcs
  BY <1>1 DEF PackedPcs
<1>9. QED
  BY <1>1, <1>6, <1>7, <1>8 DEF BlockInv

LEMMA BlockStep ==
  ASSUME BlockInv, WhereInv, [Next]_vars
  PROVE  BlockInv'
<1> USE DEF PackedPcs
<1>1. CASE MinibootPatch \/ Hotkey \/ Chosen \/ Stat \/ PatchLoader \/ PatchProgram \/ Continue
  <2>1. /\ UNCHANGED <<vram, argSize, cmdline>> /\ pc # "started" /\ pc' # "started"
        /\ pc' \in PackedPcs => pc \in PackedPcs /\ args' = args
    BY <1>1 DEF MinibootPatch, Hotkey, Chosen, Stat, PatchLoader, PatchProgram, Continue, Goto
  <2>2. QED
    BY <2>1, BlockKept
<1>2. CASE Browse \/ UNCHANGED vars
  <2>1. UNCHANGED <<pc, args, vram, argSize, cmdline>>
    BY <1>2 DEF Browse, vars
  <2>2. QED
    BY <2>1, BlockKept
<1>3. CASE FillArray
  <2>1. /\ UNCHANGED <<vram, argSize, cmdline>> /\ pc = "fill"
        /\ pc' \in {"stat", "failed"}
    BY <1>3 DEF FillArray, Goto
  <2>2. QED
    BY <2>1, BlockKept
<1>4. CASE PackArguments
  BY <1>4, BlockPacked
<1>5. CASE PassArguments
  BY <1>5, BlockPassed
<1>6. QED
  BY <1>1, <1>2, <1>3, <1>4, <1>5 DEF Next

LEMMA BlockFirst == Init => BlockInv
<1> SUFFICES ASSUME Init PROVE BlockInv
  OBVIOUS
<1>1. pc = "boot" /\ vram = <<>> /\ argSize = 0 /\ cmdline = <<>>
  BY DEF Init
<1>2. PICK s \in Seq(Text) : s = <<>>
  BY EmptySeq
<1>3. Block(vram, argSize, s)
  BY <1>1, <1>2 DEF Block
<1>4. QED
  BY <1>1, <1>2, <1>3 DEF BlockInv, PackedPcs

LEMMA BlockAlways == Spec => [](WhereInv /\ BlockInv)
<1>1. WhereInv /\ BlockInv /\ [Next]_vars => BlockInv'
  BY BlockStep
<1>2. QED
  BY <1>1, BlockFirst, WhereAlways, PTL DEF Spec

\* Every file the browser returns lies in the working directory: what a path in an
\* argument file is relative to differs from what args.cpp:247 takes only where the
\* file was named by a hotkey.
THEOREM BrowsedNearby == Spec => [](at = "chosen" => Folder(PathIn(cwd, chosen)) = Under(cwd))
<1>1. ASSUME NEW dir, IsDir(dir), NEW name, IsName(name)
      PROVE  Folder(PathIn(dir, name)) = Under(dir)
  <2>1. PICK b \in Seq(Chars) : b = Under(dir) /\ Len(b) >= 1 /\ b[Len(b)] = "/"
    <3>1. PICK b : b = Under(dir)
      OBVIOUS
    <3>2. b \in Seq(Chars) /\ Len(b) >= Len(dir) /\ b[Len(b)] = "/" /\ Len(dir) >= 2
      <4>1. dir \in Seq(Chars) /\ Len(dir) >= 2 /\ Len(<<>>) = 0
        BY <1>1 DEF IsDir
      <4>2. dir # <<>>
        BY <4>1
      <4>3. QED
        BY <3>1, <4>1, <4>2, UnderIs
    <3>3. Len(b) >= 1
      BY <1>1, <3>2 DEF IsDir
    <3>4. QED
      BY <3>1, <3>2, <3>3
  <2>2. name \in Seq(Chars) /\ ~(name = <<>> \/ Whole(name))
    <3>1. name \in Seq(Chars) /\ name # <<>> /\ name[1] # "/"
      BY <1>1 DEF IsName
    <3>2. 1 \in 1 .. Len(name)
      BY <3>1, EmptySeq
    <3>3. name[1] # "fat:"
      BY <1>1, <3>2 DEF IsName
    <3>4. QED
      BY <3>1, <3>3 DEF Whole
  <2>3. PICK t : t = b \o name
    OBVIOUS
  <2>4. PathIn(dir, name) = t
    BY <2>1, <2>2, <2>3, WholeIs DEF PathIn
  <2>5. PICK k \in Nat \ {0} : k = Len(b)
    BY <2>1
  <2>6. /\ t \in Seq(Chars) /\ Len(t) = Len(b) + Len(name)
        /\ \A i \in 1 .. Len(b) : t[i] = b[i]
        /\ \A i \in 1 .. Len(name) : t[Len(b) + i] = name[i]
    BY <2>1, <2>2, <2>3
  <2> DEFINE slashes == {i \in 1 .. Len(t) : t[i] = "/"}
  <2>7. k \in slashes
    BY <2>1, <2>2, <2>5, <2>6
  <2>8. slashes \subseteq 1 .. k
    <3> SUFFICES ASSUME NEW i \in 1 .. Len(t), t[i] = "/", i > k PROVE FALSE
      BY <2>5, <2>6
    <3>1. PICK j \in 1 .. Len(name) : i = Len(b) + j
      <4>1. i - k \in 1 .. Len(name) /\ i = Len(b) + (i - k)
        BY <2>2, <2>5, <2>6
      <4>2. QED
        BY <4>1
    <3>2. t[i] = name[j]
      BY <2>6, <3>1
    <3>3. QED
      BY <1>1, <3>1, <3>2 DEF IsName
  <2>9. SelectLastInSeq(t, LAMBDA c : c = "/") = IF slashes # {} THEN Max(slashes) ELSE 0
    BY DEF SelectLastInSeq
  <2> HIDE DEF slashes
  <2>10. SelectLastInSeq(t, LAMBDA c : c = "/") = k
    BY <2>7, <2>8, <2>9, MaxOf
  <2>11. SubSeq(t, 1, k) = b
    <3>1. PICK s : s = SubSeq(t, 1, k)
      OBVIOUS
    <3>2. s \in Seq(Chars) /\ Len(s) = k /\ \A i \in 1 .. k : s[i] = t[i]
      BY <2>2, <2>5, <2>6, <3>1
    <3>3. Len(s) = Len(b) /\ \A i \in 1 .. Len(s) : s[i] = b[i]
      BY <2>5, <2>6, <3>2
    <3>4. s = b
      BY <2>1, <3>2, <3>3, SeqEqual
    <3>5. QED
      BY <3>1, <3>4
  <2>12. QED
    BY <2>1, <2>4, <2>10, <2>11 DEF Folder
<1>2. WhereInv => (at = "chosen" => Folder(PathIn(cwd, chosen)) = Under(cwd))
  BY <1>1 DEF WhereInv
<1>3. QED
  BY <1>2, WhereAlways, PTL

\* A program receives the documented arguments, each a string of its own,
\* for all cards, paths and directories: none is lost, split, joined or cut where
\* VRAM takes halfwords only, where the copy goes word by word, or where an
\* empty argument leaves a NUL of its own (nds_loader_arm9.c:299-321,
\* boot.c:147-152).
THEOREM ArgumentsReceived == Spec => []ArgumentsArrive
<1>1. ASSUME WhereInv, BlockInv PROVE ArgumentsArrive
  <2> SUFFICES ASSUME pc = "started", Plain PROVE Received = Expected
    BY DEF ArgumentsArrive
  <2>1. PICK card, dir, path, arr, file, lines, expected :
          /\ card = files /\ dir = cwd /\ path = filePath /\ arr = args
          /\ file = ArgumentFile /\ lines = ArgumentLines /\ expected = Expected
    OBVIOUS
  <2>2. Where("started", card, dir, path, arr) /\ ProperCard(card) /\ IsDir(dir)
    BY <1>1, <2>1, LaunchAssumption DEF WhereInv
  <2>3. IsFile(path) /\ arr = argarray(card, dir, path) /\ argsFillArray(arr)
    BY <2>2 DEF Where, FillPcs, FilledPcs, StartPcs
  <2>4. file = IF strCaseEnd(path, NDS_EXT) THEN <<>>
               ELSE IF strCaseEnd(path, ARG_EXT) THEN Located(path, dir)
               ELSE toExtPath(path)
    BY <2>1 DEF ArgumentFile
  <2>5. lines = IF file \in DOMAIN card THEN card[file] ELSE <<>>
    BY <2>1 DEF ArgumentLines
  <2>6. /\ \A k \in DOMAIN lines : ~Contains(lines[k], "#")
        /\ lines # <<>> => Words(lines[1]) # <<>>
    BY <2>1, <2>2, PlainIs
  <2>7. expected = ExpectedOf(card, dir, path)
    BY <2>1, <2>2, PlainIs
  <2>8. arr \in Seq(Seq(Chars)) /\ Keep(arr) = expected
    BY <2>2, <2>3, <2>4, <2>5, <2>6, <2>7, ArgsExpected
  <2>9. Strings(cmdline) = Keep(args)
    BY <1>1, <2>1, <2>8 DEF BlockInv, Lists
  <2>10. Received = Strings(cmdline)
    BY DEF Received, Strings
  <2>11. QED
    BY <2>1, <2>8, <2>9, <2>10
<1>2. QED
  BY <1>1, BlockAlways, PTL

-----------------------------------------------------------------------------
\* Types

\* Patching keeps the room's words.
LEMMA SweepDomain ==
  ASSUME NEW w, NEW first, NEW last, NEW step, NEW lo, NEW hi, NEW offset
  PROVE  DOMAIN Sweep(w, first, last, step, lo, hi, offset) = DOMAIN w
BY DEF Sweep

LEMMA FixedDomain ==
  ASSUME NEW d, NEW w, NEW step, NEW lo, NEW hi, NEW all, NEW offset
  PROVE  DOMAIN Fixed(d, w, step, lo, hi, all, offset) = DOMAIN w
<1> DEFINE At(k) == d.w[k] - d.w[text_start]
           w1 == Pass(w, "all", d.fix, 0, At(data_end), step, lo, hi, offset)
           w2 == Pass(w1, "glue", d.fix, At(glue_start), At(glue_end), step, lo, hi, offset)
           w3 == Pass(w2, "got", d.fix, At(got_start), At(got_end), step, lo, all, offset)
           w4 == IF "bss" \in d.fix THEN Clear(w3, At(bss_start), At(bss_end)) ELSE w3
<1>1. Fixed(d, w, step, lo, hi, all, offset) = w4
  BY DEF Fixed
<1>2. DOMAIN w1 = DOMAIN w
  BY SweepDomain DEF Pass
<1> HIDE DEF w1
<1>3. DOMAIN w2 = DOMAIN w1
  BY SweepDomain DEF Pass
<1> HIDE DEF w2
<1>4. DOMAIN w3 = DOMAIN w2
  BY SweepDomain DEF Pass
<1> HIDE DEF w3
<1>5. DOMAIN w4 = DOMAIN w3
  BY ClearIs
<1>6. QED
  BY <1>1, <1>2, <1>3, <1>4, <1>5

LEMMA RelocateDomain ==
  ASSUME NEW d, IsImage(d), NEW p
  PROVE  /\ IsImage(dldi_patch_relocate(p, d))
         /\ DOMAIN dldi_patch_relocate(p, d).w = WordsOf(p.alloc)
<1>1. PICK w : w = [i \in WordsOf(p.alloc) |-> IF i \in DOMAIN d.w THEN d.w[i] ELSE 0]
  OBVIOUS
<1>2. PICK x, target : /\ x = [d EXCEPT !.alloc = p.alloc, !.w = w]
                       /\ target = p.w[text_start]
  OBVIOUS
<1>3. IsImage(x) /\ DOMAIN x.w = WordsOf(p.alloc)
  BY <1>1, <1>2 DEF IsImage
<1>4. dldi_patch_relocate(p, d) = dldi_relocate(x, target)
  BY <1>1, <1>2 DEF dldi_patch_relocate
<1> DEFINE start == x.w[text_start]
           spaceEnd == start + SizeOf(x.log)
           allocEnd == IF /\ x.w[bss_start] \in start .. spaceEnd - 1
                          /\ x.w[bss_end] \in x.w[data_end] + 1 .. spaceEnd
                       THEN x.w[bss_end] ELSE x.w[data_end]
           offset == target - start
           w1 == MoveHeader(x.w, offset)
           at1(k) == w1[k] - target
           w2 == IF "all" \in x.fix
                 THEN Sweep(w1, 0, at1(data_end), 4, start, allocEnd, offset) ELSE w1
           w3 == IF "glue" \in x.fix
                 THEN Sweep(w2, at1(glue_start), at1(glue_end), 4, start, allocEnd, offset) ELSE w2
           w4 == IF "got" \in x.fix
                 THEN Sweep(w3, at1(got_start), at1(got_end), 4, start, spaceEnd, offset) ELSE w3
           w5 == IF "bss" \in x.fix THEN Clear(w4, at1(bss_start), at1(bss_end)) ELSE w4
<1>5. dldi_relocate(x, target) = [x EXCEPT !.w = w5]
  BY Zenon DEF dldi_relocate
<1>6. DOMAIN w1 = DOMAIN x.w
  BY DEF MoveHeader
<1> HIDE DEF w1, start, spaceEnd, allocEnd, offset
<1>7. DOMAIN w2 = DOMAIN w1
  BY SweepDomain
<1> HIDE DEF w2
<1>8. DOMAIN w3 = DOMAIN w2
  BY SweepDomain
<1> HIDE DEF w3
<1>9. DOMAIN w4 = DOMAIN w3
  BY SweepDomain
<1> HIDE DEF w4
<1>10. DOMAIN w5 = DOMAIN w4
  BY ClearIs
<1> HIDE DEF w5
<1>11. QED
  BY <1>3, <1>4, <1>5, <1>6, <1>7, <1>8, <1>9, <1>10 DEF IsImage

LEMMA PatchDomain ==
  ASSUME NEW p, NEW x, IsImage(x)
  PROVE  DOMAIN dldiPatch(p, x, TRUE).w = DOMAIN p.w
<1>1. PICK offset, end : offset = Address(p) - x.w[text_start] /\ end = x.w[text_start] + SizeOf(x.log)
  OBVIOUS
<1>2. PICK y : y = dldiPatch(p, x, TRUE)
  OBVIOUS
<1>3. PatchedInto(p, x, y, x.w[text_start], end, offset)
  BY <1>1, <1>2, DldiPatchIs
<1>4. DOMAIN Written(p, x, offset) = DOMAIN p.w
  BY DEF Written, MoveHeader
<1>5. DOMAIN y.w = DOMAIN p.w
  BY <1>3, <1>4, FixedDomain DEF PatchedInto
<1>6. QED
  BY <1>2, <1>5

\* The images keep the words of their rooms.
WordsInv ==
  DOMAIN loader.w = DOMAIN LoaderRoom.w /\ DOMAIN hbmenu.w = DOMAIN HbmenuRoom.w

LEMMA WordsStep ==
  ASSUME CarryInv, WordsInv, [Next]_vars
  PROVE  WordsInv'
<1>1. CASE MinibootPatch
  <2>1. loader' = loader /\ hbmenu = HbmenuRoom /\ driver \in Drivers
    BY <1>1 DEF MinibootPatch, Goto, CarryInv
  <2>2. CASE hbmenu' = hbmenu
    BY <2>1, <2>2 DEF WordsInv
  <2>3. CASE hbmenu' # hbmenu
    <3>1. PICK d, room : d = driver /\ room = HbmenuRoom
      OBVIOUS
    <3>2. PICK y : y = dldi_patch_relocate(room, d)
      OBVIOUS
    <3>3. hbmenu' = [y EXCEPT !.w = [k \in DOMAIN y.w |->
                       IF InSection(d, k, "bss", bss_start, bss_end)
                       THEN y.w[text_start] ELSE y.w[k]]]
      BY <1>1, <2>1, <2>3, <3>1, <3>2 DEF MinibootPatch
    <3>4. ProperDriver(d) /\ ProperRoom(room)
      BY <2>1, <3>1, Places
    <3>5. IsImage(y) /\ DOMAIN y.w = WordsOf(room.alloc)
      BY <3>2, <3>4, RelocateDomain DEF ProperDriver
    <3>6. DOMAIN room.w = WordsOf(room.alloc)
      BY <3>4 DEF ProperRoom
    <3>7. DOMAIN hbmenu'.w = DOMAIN y.w
      BY <3>3, <3>5 DEF IsImage
    <3>8. QED
      BY <2>1, <3>1, <3>5, <3>6, <3>7 DEF WordsInv
  <2>4. QED
    BY <2>2, <2>3
<1>2. CASE PatchLoader
  <2>1. CASE UNCHANGED <<hbmenu, loader>>
    BY <2>1 DEF WordsInv
  <2>2. CASE ~UNCHANGED <<hbmenu, loader>>
    <3>1. /\ pc = "patch" /\ loader' = dldiPatch(loader, hbmenu, TRUE)
          /\ hbmenu' = [hbmenu EXCEPT !.alloc = loader.alloc]
      BY <1>2, <2>2 DEF PatchLoader, Goto
    <3>2. IsImage(hbmenu)
      BY <3>1 DEF CarryInv, MenuPcs, Carried
    <3>3. PICK p, x : p = loader /\ x = hbmenu
      OBVIOUS
    <3>4. DOMAIN dldiPatch(p, x, TRUE).w = DOMAIN p.w
      BY <3>2, <3>3, PatchDomain
    <3>5. hbmenu'.w = hbmenu.w
      BY <3>1, <3>2 DEF IsImage
    <3>6. QED
      BY <3>1, <3>3, <3>4, <3>5 DEF WordsInv
  <2>3. QED
    BY <2>1, <2>2
<1>3. CASE PatchProgram
  BY <1>3 DEF PatchProgram, WordsInv
<1>4. CASE Hotkey \/ Browse \/ Chosen \/ FillArray \/ Stat \/ PackArguments \/ PassArguments
           \/ Continue \/ UNCHANGED vars
  <2>1. UNCHANGED images
    BY <1>4 DEF Hotkey, Browse, Chosen, FillArray, Stat, PackArguments, PassArguments, Continue, vars
  <2>2. QED
    BY <2>1 DEF images, WordsInv
<1>5. QED
  BY <1>1, <1>2, <1>3, <1>4 DEF Next

\* The offsets are in the directory, or just behind it.
OffsetsInv ==
  /\ at \in {"away", "keys", "chosen", "thrown"} /\ Len(dirContents) \in Nat
  /\ fileOffset \in 0 .. Len(dirContents) /\ screenOffset \in 0 .. Len(dirContents)

LEMMA OffsetsShown ==
  ASSUME files \in Cards, NEW dir, ShowFirst(dir)
  PROVE  OffsetsInv'
<1>1. IsFiniteSet(DOMAIN files)
  BY LaunchAssumption DEF ProperCard
<1>2. /\ dirContents' = getDirectoryContents(dir) /\ fileOffset' = 0 /\ screenOffset' = 0
      /\ at' \in {"keys", "thrown"}
  BY DEF ShowFirst
<1>3. Len(dirContents') \in Nat
  BY <1>1, <1>2, ContentsAre
<1>4. QED
  BY <1>2, <1>3 DEF OffsetsInv

LEMMA OffsetsPressed ==
  ASSUME BrowseInv, OffsetsInv, NEW pressed, Press(pressed)
  PROVE  OffsetsInv'
<1>1. files \in Cards /\ at = "keys" /\ Len(dirContents) > 0
  BY DEF BrowseInv, Press
<1>2. PICK n \in Nat : n = Len(dirContents) /\ n > 0
  BY <1>1 DEF OffsetsInv
<1>3. fileOffset \in 0 .. n /\ screenOffset \in 0 .. n
  BY <1>2 DEF OffsetsInv
<1>4. PICK offset \in Int : offset = Cursor(pressed) /\ offset \in 0 .. n - 1
  <2>1. fileOffset \in Int
    BY <1>3
  <2>2. Cursor(pressed) \in 0 .. n - 1
    BY <1>1, <1>2, <2>1, CursorIs
  <2>3. QED
    BY <2>2
<1>5. Scrolled(offset) \in 0 .. n
  BY <1>2, <1>3, <1>4, ScreenAssumption DEF Scrolled
<1>6. CASE /\ fileOffset' = offset /\ screenOffset' = Scrolled(offset)
           /\ dirContents' = dirContents /\ (at' = at \/ at' = "chosen")
  BY <1>1, <1>2, <1>4, <1>5, <1>6 DEF OffsetsInv
<1>7. CASE \E dir : ShowFirst(dir)
  BY <1>1, <1>7, OffsetsShown
<1>8. QED
  BY <1>4, <1>6, <1>7 DEF Press

LEMMA OffsetsStep ==
  ASSUME BrowseInv, OffsetsInv, [Next]_vars
  PROVE  OffsetsInv'
<1>1. CASE Browse
  <2>1. CASE browseForFile
    BY <2>1, OffsetsShown DEF browseForFile, BrowseInv
  <2>2. CASE \E pressed \in SUBSET Keys \ {{}} : Press(pressed)
    BY <2>2, OffsetsPressed
  <2>3. QED
    BY <1>1, <2>1, <2>2 DEF Browse
<1>2. CASE Chosen
  BY <1>2 DEF Chosen, Return, OffsetsInv
<1>3. CASE MinibootPatch \/ Hotkey \/ FillArray \/ Stat \/ PackArguments \/ PatchLoader
           \/ PatchProgram \/ PassArguments \/ Continue \/ UNCHANGED vars
  <2>1. UNCHANGED browser
    BY <1>3 DEF MinibootPatch, Hotkey, FillArray, Stat, PackArguments, PatchLoader,
       PatchProgram, PassArguments, Continue, vars
  <2>2. QED
    BY <2>1 DEF browser, OffsetsInv
<1>4. QED
  BY <1>1, <1>2, <1>3 DEF Next

Pcs == {"boot", "menu", "browse", "fill", "stat", "pack", "patch", "load",
        "arguments", "started", "failed", "stopped"}

LEMMA PcStep ==
  ASSUME pc \in Pcs, [Next]_vars
  PROVE  pc' \in Pcs
<1> USE DEF Goto, Pcs
<1>1. CASE MinibootPatch \/ Hotkey \/ Chosen \/ Stat \/ PatchLoader \/ PatchProgram \/ Continue
  BY <1>1 DEF MinibootPatch, Hotkey, Chosen, Stat, PatchLoader, PatchProgram, Continue
<1>2. CASE FillArray \/ PackArguments \/ PassArguments
  BY <1>2 DEF FillArray, PackArguments, PassArguments
<1>3. CASE Browse \/ UNCHANGED vars
  BY <1>3 DEF Browse, vars
<1>4. QED
  BY <1>1, <1>2, <1>3 DEF Next

\* Every variable holds a value of its type: above all, the argument block's
\* length never exceeds what is written of it, and the command line is as long
\* as the program is told (nds_loader_arm9.c:299-321, boot.c:147-152).
THEOREM LaunchTypes == Spec => []TypeOK
<1> DEFINE TypeInv == pc \in Pcs /\ OffsetsInv /\ WordsInv
<1>1. Init => TypeInv
  BY DEF Init, Pcs, OffsetsInv, WordsInv
<1>2. BrowseInv /\ CarryInv /\ TypeInv /\ [Next]_vars => TypeInv'
  BY PcStep, OffsetsStep, WordsStep
<1>3. TypeInv /\ BlockInv => TypeOK
  <2> SUFFICES ASSUME TypeInv, BlockInv PROVE TypeOK
    OBVIOUS
  <2>1. argSize <= 2 * Len(vram)
    BY DEF BlockInv, Block
  <2>2. Len(cmdline) \in {0, argSize}
    BY DEF BlockInv
  <2>3. QED
    BY <2>1, <2>2 DEF TypeOK, Pcs, OffsetsInv, WordsInv
<1> HIDE DEF TypeInv
<1>4. QED
  BY <1>1, <1>2, <1>3, CarryAlways, BlockAlways, WhereAlways, PTL DEF Spec
=============================================================================
