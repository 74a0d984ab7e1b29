------------------------- MODULE KernelLoaderProofs -------------------------
(***************************************************************************)
(* What the GBA kernel loader and FatFs do together, for every board, card *)
(* and order of a file's clusters, and whatever commands fail, by proof.   *)
(*                                                                         *)
(* Four things are followed: the window, whose bytes are always those of   *)
(* the sector its tag names; the place in a chain that each loop is at;    *)
(* what main has tried and copied; and, when no command fails, that        *)
(* nothing is refused.  All but the types is about volumes that are taken  *)
(* for what they are, as those of proper cards always are (ProperTaken).   *)
(***************************************************************************)
EXTENDS KernelLoader, TLAPS

-----------------------------------------------------------------------------
\* Arithmetic

\* Quotient and remainder.
LEMMA DivMod ==
  ASSUME NEW a \in Int, NEW b \in Nat \ {0}
  PROVE  /\ a \div b \in Int /\ a % b \in 0 .. b - 1
         /\ a = b * (a \div b) + (a % b)
         /\ a >= 0 => a \div b \in Nat
OBVIOUS

\* They are the only ones.
LEMMA DivUnique ==
  ASSUME NEW b \in Nat \ {0}, NEW q \in Int, NEW r \in 0 .. b - 1
  PROVE  (b * q + r) \div b = q /\ (b * q + r) % b = r
OBVIOUS

\* Multiples of b are at least b apart.
LEMMA Apart ==
  ASSUME NEW b \in Nat \ {0}, NEW x \in Int, NEW y \in Int, x < y
  PROVE  b * x + b <= b * y
OBVIOUS

\* Products of numbers are numbers.
LEMMA Product ==
  /\ \A x, y \in Int : x * y \in Int
  /\ \A x, y \in Nat : x * y \in Nat
OBVIOUS

\* Factors may be taken out.
LEMMA Distribute ==
  /\ \A x, y, z \in Int : x * (y + z) = x * y + x * z /\ (y + z) * x = x * y + x * z
  /\ \A x, y \in Int : x * y = y * x
  /\ \A x, y, z \in Int : x * (y * z) = (x * y) * z
OBVIOUS

\* CeilDiv rounds up.
LEMMA Ceil ==
  ASSUME NEW a \in Nat, NEW b \in Nat \ {0}
  PROVE  CeilDiv(a, b) \in Nat /\ a <= b * CeilDiv(a, b)
<1>1. a + b - 1 \in Int /\ a + b - 1 >= 0
  OBVIOUS
<1>2. PICK q \in Nat : q = (a + b - 1) \div b
  BY <1>1, DivMod
<1>3. a + b - 1 - b * q \in 0 .. b - 1
  BY <1>1, <1>2, DivMod, Product
<1>4. QED
  BY <1>2, <1>3, Product DEF CeilDiv

\* Sequences have their elements in places 1 to their length.
LEMMA Elements ==
  \A S : \A s \in Seq(S) :
    Len(s) \in Nat /\ DOMAIN s = 1 .. Len(s) /\ \A i \in DOMAIN s : s[i] \in S
<1>1. ASSUME NEW S, NEW s \in Seq(S), NEW i \in DOMAIN s
      PROVE  s[i] \in S
  OBVIOUS
<1>2. ASSUME NEW S, NEW s \in Seq(S)
      PROVE  Len(s) \in Nat /\ DOMAIN s = 1 .. Len(s)
  OBVIOUS
<1>3. QED
  BY <1>1, <1>2, Zenon

-----------------------------------------------------------------------------
\* Cards

\* The sizes of sectors, directories and buffers.
LEMMA SizeFacts ==
  /\ SS \in Nat \ {0} /\ SS % 4 = 0 /\ DirPerSector \in Nat \ {0}
  /\ MAX_DIR \in Nat \ {0} /\ BufSize \in Nat \ {0} /\ BufSize % SS = 0
  /\ MAX_FAT12 \in Nat /\ MAX_FAT12 <= 4085 /\ MAX_FAT16 \in Nat /\ MAX_FAT16 <= 65525
  /\ MAX_FAT12 <= MAX_FAT16
BY FatFsAssumption

\* The fields of a boot sector are numbers.
LEMMA BpbFacts ==
  ASSUME NEW c \in Cards
  PROVE  /\ c.bpb.ss \in Nat /\ c.bpb.csize \in Nat /\ c.bpb.nrsv \in Nat /\ c.bpb.fats \in Nat
         /\ c.bpb.rootent \in Nat /\ c.bpb.tot \in Nat /\ c.bpb.fatsz \in Nat
         /\ c.bpb.rootclus \in Nat
         /\ c.part \in Nat /\ c.table \in [1 .. 4 -> Nat] /\ c.kind \in {12, 16, 32}
         /\ c.branch \in BOOLEAN /\ c.proper \in BOOLEAN
<1>1. ProperCard(c)
  BY CardsAssumption
<1>2. QED
  BY <1>1 DEF ProperCard

\* The objects of a card.
LEMMA ObjectFacts ==
  ASSUME NEW c \in Cards
  PROVE  /\ \A x \in DOMAIN c.chains : c.chains[x] \in Seq(2 .. EndMark(c.kind) - 1)
         /\ \A x, y \in DOMAIN c.chains :
              \A i \in DOMAIN c.chains[x], j \in DOMAIN c.chains[y] :
                c.chains[x][i] = c.chains[y][j] => x = y /\ i = j
         /\ "root" \in DOMAIN c.dirs
         /\ DOMAIN c.dirs \subseteq DOMAIN c.chains /\ DOMAIN c.size \subseteq DOMAIN c.chains
         /\ "root" \notin DOMAIN c.size /\ "none" \notin DOMAIN c.size
         /\ \A x \in DOMAIN c.size : x \notin DOMAIN c.dirs /\ x \in STRING /\ c.size[x] \in Nat
         /\ \A d \in DOMAIN c.dirs :
              /\ Len(c.dirs[d]) \in Nat /\ DOMAIN c.dirs[d] = 1 .. Len(c.dirs[d])
              /\ \A i \in DOMAIN c.dirs[d] : ProperEntry(c, c.dirs[d][i])
<1>1. ProperCard(c)
  BY CardsAssumption
<1>2. QED
  BY <1>1 DEF ProperCard

\* A volume FatFs takes for what it is has its directories in it; on a proper one the
\* files are in it too.
LEMMA InVolumeFacts ==
  ASSUME NEW c \in Cards
  PROVE  /\ Mountable(c) =>
              /\ \A d \in DOMAIN c.dirs : InVolume(c, d) /\ Len(c.dirs[d]) <= Room(c, d)
              /\ c.kind = 32 => c.chains["root"] # <<>> /\ c.bpb.rootclus = c.chains["root"][1]
         /\ c.proper =>
              /\ Mountable(c) /\ (c.part = 0 \/ \E i \in 1 .. 4 : c.table[i] = c.part)
              /\ \A x \in DOMAIN c.size :
                   InVolume(c, x) /\ c.size[x] <= Len(c.chains[x]) * (c.bpb.csize * SS)
<1>1. ProperCard(c)
  BY CardsAssumption
<1>2. QED
  BY <1>1, Zenon DEF ProperCard

\* What a volume's boot sector says of it.
LEMMA Clusters ==
  ASSUME NEW c \in Cards
  PROVE  /\ c.bpb.rootent \div DirPerSector \in Nat /\ c.bpb.fats * c.bpb.fatsz \in Nat
         /\ sysect(c.bpb) \in Nat /\ nclst(c.bpb) \in Nat
<1>1. PICK e \in Nat : e = c.bpb.rootent
  BY BpbFacts
<1>2. e \div DirPerSector \in Nat
  BY SizeFacts, DivMod
<1>3. c.bpb.fats * c.bpb.fatsz \in Nat
  BY BpbFacts, Product
<1>4. PICK s \in Nat : s = sysect(c.bpb)
  BY <1>1, <1>2, <1>3, BpbFacts DEF sysect
<1>5. nclst(c.bpb) \in Nat
  <2>1. CASE c.bpb.csize = 0 \/ c.bpb.tot < s
    BY <1>4, <2>1 DEF nclst
  <2>2. CASE c.bpb.csize # 0 /\ ~(c.bpb.tot < s)
    <3>1. PICK t \in Nat, z \in Nat \ {0} : t = c.bpb.tot /\ z = c.bpb.csize
      BY <2>2, BpbFacts
    <3>2. t - s \in Int /\ t - s >= 0
      BY <2>2, <3>1
    <3>3. (t - s) \div z \in Nat
      BY <3>1, <3>2, DivMod
    <3>4. QED
      BY <1>4, <2>2, <3>1, <3>3 DEF nclst
  <2>3. QED
    BY <2>1, <2>2
<1>6. QED
  BY <1>1, <1>2, <1>3, <1>4, <1>5

LEMMA VolumeFacts ==
  ASSUME NEW c \in Cards, IsVolume(c.bpb)
  PROVE  /\ c.bpb.csize \in Nat \ {0} /\ c.bpb.nrsv \in Nat \ {0} /\ c.bpb.fats \in Nat \ {0}
         /\ c.bpb.fatsz \in Nat \ {0} /\ c.bpb.rootent % DirPerSector = 0
         /\ KindOf(nclst(c.bpb)) \in {12, 16, 32}
         /\ KindOf(nclst(c.bpb)) = 32 <=> c.bpb.rootent = 0
         /\ KindOf(nclst(c.bpb)) = 12 => nclst(c.bpb) <= 4085
         /\ KindOf(nclst(c.bpb)) = 16 => nclst(c.bpb) <= 65525
         /\ nclst(c.bpb) <= 268435445
         /\ (nclst(c.bpb) + 2) * KindOf(nclst(c.bpb)) <= 8 * (SS * c.bpb.fatsz)
<1>1. PICK n \in Nat : n = nclst(c.bpb)
  BY Clusters
<1>2. PICK k \in {12, 16, 32} : k = KindOf(nclst(c.bpb))
  BY DEF IsVolume, KindOf
<1>3. /\ k = 12 => n <= 4085
      /\ k = 16 => n <= 65525
      /\ n <= 268435445
  BY <1>1, <1>2, SizeFacts, SMT DEF KindOf, MAX_FAT32
<1>4. PICK m \in Nat : m = (n + 2) * k /\ m > 0
  BY <1>2
<1>5. 8 \in Nat \ {0}
  OBVIOUS
<1>6. PICK u \in Nat : u = CeilDiv(m, 8) /\ m <= 8 * u
  BY <1>5, Ceil
<1>7. PICK s \in Nat : s = CeilDiv(u, SS) /\ u <= SS * s
  <2>1. SS \in Nat \ {0}
    BY SizeFacts
  <2>2. QED
    BY <2>1, Ceil
<1>8. c.bpb.fatsz \in Nat /\ c.bpb.fatsz >= s
  BY <1>1, <1>2, <1>4, <1>6, <1>7, BpbFacts DEF IsVolume
<1>9. SS * s <= SS * c.bpb.fatsz
  BY <1>8, SizeFacts
<1>10. SS * c.bpb.fatsz \in Nat /\ SS * s \in Nat
  BY <1>8, SizeFacts, Product
<1>11. m <= 8 * (SS * c.bpb.fatsz)
  BY <1>6, <1>7, <1>9, <1>10
<1>12. c.bpb.fatsz # 0
  BY <1>4, <1>11, SizeFacts
<1>13. c.bpb.csize \in Nat \ {0} /\ c.bpb.nrsv \in Nat \ {0} /\ c.bpb.fats \in Nat \ {0}
  BY BpbFacts DEF IsVolume, PowerOf2
<1>14. c.bpb.rootent % DirPerSector = 0 /\ (k = 32 <=> c.bpb.rootent = 0)
  BY <1>2 DEF IsVolume
<1>15. QED
  BY <1>1, <1>2, <1>3, <1>4, <1>8, <1>11, <1>12, <1>13, <1>14

-----------------------------------------------------------------------------
\* Sectors of files and directories

\* The card in the slot is one of the cards, and FatFs takes it for what it is.
CardKnown == card \in Cards /\ Mountable(card)

\* Where its structures are.
LEMMA Places ==
  ASSUME CardKnown
  PROVE  /\ card.part \in Nat /\ FatStart \in Nat \ {0} /\ RootStart \in Nat \ {0}
         /\ RootStart + card.bpb.rootent \div DirPerSector = card.part + sysect(card.bpb)
         /\ card.bpb.csize \in Nat \ {0} /\ card.bpb.fatsz \in Nat \ {0}
         /\ card.bpb.fats \in Nat \ {0}
         /\ card.bpb.rootent \div DirPerSector \in Nat /\ sysect(card.bpb) \in Nat
<1>1. card \in Cards /\ IsVolume(card.bpb)
  BY DEF CardKnown, Mountable
<1>2. /\ card.part \in Nat /\ card.bpb.nrsv \in Nat \ {0} /\ card.bpb.csize \in Nat \ {0}
      /\ card.bpb.fatsz \in Nat \ {0} /\ card.bpb.fats \in Nat \ {0}
  BY <1>1, BpbFacts, VolumeFacts
<1>3. card.bpb.rootent \div DirPerSector \in Nat /\ card.bpb.fats * card.bpb.fatsz \in Nat
  BY <1>1, Clusters
<1>4. PICK m \in Nat : m = card.bpb.fats * card.bpb.fatsz
  BY <1>3
<1>5. PICK r \in Nat : r = card.bpb.rootent \div DirPerSector
  BY <1>3
<1>6. FatStart \in Nat \ {0}
  BY <1>2 DEF FatStart
<1>7. RootStart = FatStart + m
  BY <1>4 DEF RootStart
<1>8. sysect(card.bpb) = card.bpb.nrsv + m + r
  BY <1>4, <1>5 DEF sysect
<1>9. RootStart + r = card.part + sysect(card.bpb)
  BY <1>2, <1>7, <1>8 DEF FatStart
<1>10. QED
  BY <1>2, <1>3, <1>5, <1>6, <1>7, <1>8, <1>9

\* The clusters' sectors lie behind the fixed root directory, one cluster's behind
\* another's.
LEMMA ClusterPlace ==
  ASSUME CardKnown, NEW c \in Nat \ {0, 1}
  PROVE  /\ ClusterStart(c) = card.part + sysect(card.bpb) + (c - 2) * card.bpb.csize
         /\ ClusterStart(c) \in Nat
         /\ ClusterStart(c) >= RootStart + card.bpb.rootent \div DirPerSector
<1>1. PICK z \in Nat \ {0} : z = card.bpb.csize
  BY Places
<1>2. PICK r \in Nat : r = card.bpb.rootent \div DirPerSector
  BY Places
<1>3. (c - 2) * z \in Nat
  BY Product
<1>4. ClusterStart(c) = RootStart + r + (c - 2) * z
  BY <1>1, <1>2 DEF ClusterStart
<1>5. RootStart \in Nat
  BY Places
<1>6. RootStart + r = card.part + sysect(card.bpb)
  BY <1>2, Places
<1>7. QED
  BY <1>1, <1>2, <1>3, <1>4, <1>5, <1>6

LEMMA ClustersApart ==
  ASSUME CardKnown, NEW a \in Nat \ {0, 1}, NEW b \in Nat \ {0, 1},
         NEW i \in 0 .. card.bpb.csize - 1, NEW j \in 0 .. card.bpb.csize - 1,
         ClusterStart(a) + i = ClusterStart(b) + j
  PROVE  a = b /\ i = j
<1>1. PICK z \in Nat \ {0} : z = card.bpb.csize
  BY Places
<1>2. PICK s \in Nat : s = card.part + sysect(card.bpb)
  BY Places
<1>3. PICK p \in Nat, q \in Nat : p = a - 2 /\ q = b - 2
  OBVIOUS
<1>4. PICK zp \in Nat, zq \in Nat : zp = z * p /\ zq = z * q
  BY <1>1, <1>3, Product
<1>5. ClusterStart(a) = s + zp /\ ClusterStart(b) = s + zq
  <2>1. zp = p * z /\ zq = q * z
    BY <1>1, <1>4, Distribute
  <2>2. QED
    BY <1>1, <1>2, <1>3, <2>1, ClusterPlace
<1>6. i \in 0 .. z - 1 /\ j \in 0 .. z - 1 /\ p \in Int /\ q \in Int
  BY <1>1
<1>7. zp + i = zq + j
  BY <1>2, <1>4, <1>5, <1>6
<1>8. (z * p + i) \div z = p /\ (z * p + i) % z = i
  BY <1>1, <1>6, DivUnique, Zenon
<1>9. (z * q + j) \div z = q /\ (z * q + j) % z = j
  BY <1>1, <1>6, DivUnique, Zenon
<1>10. p = q /\ i = j
  BY <1>4, <1>7, <1>8, <1>9
<1>11. QED
  BY <1>3, <1>10

\* The k-th sector of an object.
Fixed(d) == d = "root" /\ card.kind # 32
LEMMA Sectors ==
  ASSUME CardKnown, NEW x \in DOMAIN card.chains, NEW k \in DOMAIN SectorsOf(x)
  PROVE  /\ k \in Nat \ {0}
         /\ Fixed(x) => /\ k <= card.bpb.rootent \div DirPerSector
                        /\ SectorsOf(x)[k] = RootStart + k - 1
         /\ ~Fixed(x) => \E q \in Nat, r \in 0 .. card.bpb.csize - 1 :
              /\ k - 1 = card.bpb.csize * q + r
              /\ q = (k - 1) \div card.bpb.csize /\ r = (k - 1) % card.bpb.csize
              /\ q + 1 \in DOMAIN card.chains[x]
              /\ card.chains[x][q + 1] \in Nat \ {0, 1}
              /\ SectorsOf(x)[k] = ClusterStart(card.chains[x][q + 1]) + r
<1>1. PICK z \in Nat \ {0} : z = card.bpb.csize
  BY Places
<1>2. PICK e \in Nat : e = card.bpb.rootent \div DirPerSector
  BY Places
<1>3. CASE Fixed(x)
  <2>1. SectorsOf(x) = [i \in 1 .. e |-> RootStart + i - 1]
    BY <1>2, <1>3 DEF SectorsOf, Fixed
  <2>2. QED
    BY <1>2, <1>3, <2>1
<1>4. CASE ~Fixed(x)
  <2>1. PICK s : s = card.chains[x]
    OBVIOUS
  <2>2. s \in Seq(2 .. EndMark(card.kind) - 1)
    BY <2>1, ObjectFacts DEF CardKnown
  <2>3. PICK n \in Nat : n = Len(s)
    BY <2>2
  <2>4. SectorsOf(x) = [i \in 1 .. n * z |-> ClusterStart(s[1 + (i - 1) \div z]) + ((i - 1) % z)]
    BY <1>1, <1>4, <2>1, <2>3 DEF SectorsOf, Fixed
  <2>5. k \in 1 .. n * z /\ n * z \in Nat
    BY <2>4, <1>1, Product
  <2>6. k \in Nat \ {0} /\ k <= n * z
    BY <2>5
  <2>7. PICK q \in Nat, r \in 0 .. z - 1 :
          q = (k - 1) \div z /\ r = (k - 1) % z /\ k - 1 = z * q + r
    <3>1. k - 1 \in Int /\ k - 1 >= 0
      BY <2>6
    <3>2. QED
      BY <1>1, <3>1, DivMod
  <2>8. q < n
    <3>1. SUFFICES ASSUME n <= q PROVE FALSE
      BY <2>3
    <3>2. z * n <= z * q
      BY <1>1, <2>3, <3>1
    <3>3. PICK zq \in Nat, zn \in Nat : zq = z * q /\ zn = z * n
      BY <1>1, <2>3, <2>7, Product
    <3>4. zq <= k - 1
      BY <2>6, <2>7, <3>3
    <3>5. n * z = zn
      BY <1>1, <2>3, <3>3, Distribute
    <3>6. QED
      BY <2>6, <3>2, <3>3, <3>4, <3>5
  <2>9. q + 1 \in DOMAIN s /\ s[q + 1] \in 2 .. EndMark(card.kind) - 1
    <3>1. q + 1 \in 1 .. n
      BY <2>8
    <3>2. DOMAIN s = 1 .. n
      BY <2>2, <2>3
    <3>3. \A i \in DOMAIN s : s[i] \in 2 .. EndMark(card.kind) - 1
      BY <2>2, Elements, Zenon
    <3>4. QED
      BY <3>1, <3>2, <3>3, Zenon
  <2>10. EndMark(card.kind) \in Int
    BY DEF EndMark
  <2>11. s[q + 1] \in Nat \ {0, 1}
    BY <2>9, <2>10
  <2>12. SectorsOf(x)[k] = ClusterStart(s[1 + q]) + r
    BY <2>4, <2>5, <2>7
  <2>13. 1 + q = q + 1
    OBVIOUS
  <2>14. QED
    BY <1>1, <1>4, <2>1, <2>6, <2>7, <2>9, <2>11, <2>12, <2>13
<1>5. QED
  BY <1>3, <1>4

\* No sector belongs to two objects, or twice to one.
LEMMA SectorsApart ==
  ASSUME CardKnown, NEW x \in DOMAIN card.chains, NEW y \in DOMAIN card.chains,
         NEW k \in DOMAIN SectorsOf(x), NEW l \in DOMAIN SectorsOf(y),
         SectorsOf(x)[k] = SectorsOf(y)[l]
  PROVE  x = y /\ k = l
<1>1. k \in Nat /\ l \in Nat /\ RootStart \in Nat
  BY Sectors, Places
<1>2. PICK e \in Nat : e = card.bpb.rootent \div DirPerSector
  BY Places
<1>3. ASSUME NEW u \in DOMAIN card.chains, NEW w \in DOMAIN card.chains,
             NEW i \in DOMAIN SectorsOf(u), NEW j \in DOMAIN SectorsOf(w),
             Fixed(u), ~Fixed(w), SectorsOf(u)[i] = SectorsOf(w)[j]
      PROVE  FALSE
  <2>1. SectorsOf(u)[i] = RootStart + i - 1 /\ i <= e /\ i \in Nat
    BY <1>2, <1>3, Sectors
  <2>2. PICK q \in Nat, r \in 0 .. card.bpb.csize - 1 :
          /\ card.chains[w][q + 1] \in Nat \ {0, 1}
          /\ SectorsOf(w)[j] = ClusterStart(card.chains[w][q + 1]) + r
    BY <1>3, Sectors
  <2>3. PICK c \in Nat : c = ClusterStart(card.chains[w][q + 1]) /\ c >= RootStart + e
    BY <1>2, <2>2, ClusterPlace
  <2>4. PICK z \in Nat : z = card.bpb.csize
    BY Places
  <2>5. PICK g \in Nat : g = RootStart
    BY <1>1
  <2>6. r \in Nat
    BY <2>2, <2>4
  <2>7. g + i - 1 = c + r
    BY <1>3, <2>1, <2>2, <2>3, <2>5
  <2>8. QED
    BY <1>2, <2>1, <2>3, <2>5, <2>6, <2>7
<1>4. CASE Fixed(x) /\ Fixed(y)
  <2>1. SectorsOf(x)[k] = RootStart + k - 1 /\ SectorsOf(y)[l] = RootStart + l - 1
    BY <1>4, Sectors
  <2>2. QED
    BY <1>1, <1>4, <2>1 DEF Fixed
<1>5. CASE ~Fixed(x) /\ ~Fixed(y)
  <2>1. PICK q \in Nat, r \in 0 .. card.bpb.csize - 1 :
          /\ k - 1 = card.bpb.csize * q + r
          /\ q + 1 \in DOMAIN card.chains[x] /\ card.chains[x][q + 1] \in Nat \ {0, 1}
          /\ SectorsOf(x)[k] = ClusterStart(card.chains[x][q + 1]) + r
    BY <1>5, Sectors
  <2>2. PICK t \in Nat, u \in 0 .. card.bpb.csize - 1 :
          /\ l - 1 = card.bpb.csize * t + u
          /\ t + 1 \in DOMAIN card.chains[y] /\ card.chains[y][t + 1] \in Nat \ {0, 1}
          /\ SectorsOf(y)[l] = ClusterStart(card.chains[y][t + 1]) + u
    BY <1>5, Sectors
  <2>3. card.chains[x][q + 1] = card.chains[y][t + 1] /\ r = u
    <3>1. PICK a \in Nat \ {0, 1}, b \in Nat \ {0, 1} :
            a = card.chains[x][q + 1] /\ b = card.chains[y][t + 1]
      BY <2>1, <2>2
    <3>2. ClusterStart(a) + r = ClusterStart(b) + u
      BY <2>1, <2>2, <3>1
    <3>3. a = b /\ r = u
      BY <3>2, ClustersApart
    <3>4. QED
      BY <3>1, <3>3
  <2>4. x = y /\ q + 1 = t + 1
    BY <2>1, <2>2, <2>3, ObjectFacts DEF CardKnown
  <2>5. k - 1 = l - 1
    BY <2>1, <2>2, <2>3, <2>4
  <2>6. QED
    BY <1>1, <2>4, <2>5
<1>6. QED
  BY <1>3, <1>4, <1>5

\* A sector tells which object it is of, and where it is in it.
LEMMA PlaceIs ==
  ASSUME CardKnown, NEW x \in DOMAIN card.chains, NEW k \in DOMAIN SectorsOf(x)
  PROVE  /\ Holds(x, SectorsOf(x)[k]) /\ Place(x, SectorsOf(x)[k]) = k - 1
         /\ \A y \in DOMAIN card.chains : Holds(y, SectorsOf(x)[k]) => y = x
<1>1. Holds(x, SectorsOf(x)[k])
  BY DEF Holds
<1>2. ASSUME NEW l \in DOMAIN SectorsOf(x), SectorsOf(x)[l] = SectorsOf(x)[k]
      PROVE  l = k
  BY <1>2, SectorsApart
<1>3. (CHOOSE l \in DOMAIN SectorsOf(x) : SectorsOf(x)[l] = SectorsOf(x)[k]) = k
  BY <1>2
<1>4. Place(x, SectorsOf(x)[k]) = k - 1
  BY <1>3 DEF Place
<1>5. ASSUME NEW y \in DOMAIN card.chains, Holds(y, SectorsOf(x)[k])
      PROVE  y = x
  <2>1. PICK l \in DOMAIN SectorsOf(y) : SectorsOf(y)[l] = SectorsOf(x)[k]
    BY <1>5 DEF Holds
  <2>2. QED
    BY <2>1, SectorsApart
<1>6. QED
  BY <1>1, <1>4, <1>5

\* What a sector of a directory holds.
LEMMA EntryIs ==
  ASSUME CardKnown, NEW d \in DOMAIN card.dirs, NEW k \in DOMAIN SectorsOf(d), NEW o
  PROVE  EntryAt(SectorsOf(d)[k], o) =
           IF (k - 1) * DirPerSector + o + 1 \in DOMAIN card.dirs[d]
           THEN card.dirs[d][(k - 1) * DirPerSector + o + 1] ELSE Last
<1> DEFINE s == SectorsOf(d)[k]
           holders == {y \in DOMAIN card.dirs : Holds(y, s)}
<1>1. d \in DOMAIN card.chains /\ DOMAIN card.dirs \subseteq DOMAIN card.chains
  BY ObjectFacts DEF CardKnown
<1>2. Place(d, s) = k - 1 /\ Holds(d, s) /\ \A y \in DOMAIN card.chains : Holds(y, s) => y = d
  BY <1>1, PlaceIs
<1>3. holders = {d}
  BY <1>1, <1>2
<1>4. (CHOOSE y \in holders : TRUE) = d
  BY <1>3
<1>5. QED
  BY <1>2, <1>3, <1>4 DEF EntryAt

\* What a sector of a file holds.
LEMMA FileByteIs ==
  ASSUME CardKnown, NEW x \in DOMAIN card.size, NEW k \in DOMAIN SectorsOf(x), NEW o
  PROVE  FileByte(SectorsOf(x)[k], o) = <<x, (k - 1) * SS + o>>
<1> DEFINE s == SectorsOf(x)[k]
           holders == {y \in DOMAIN card.size : Holds(y, s)}
<1>1. x \in DOMAIN card.chains /\ DOMAIN card.size \subseteq DOMAIN card.chains
  BY ObjectFacts DEF CardKnown
<1>2. Place(x, s) = k - 1 /\ Holds(x, s) /\ \A y \in DOMAIN card.chains : Holds(y, s) => y = x
  BY <1>1, PlaceIs
<1>3. holders = {x}
  BY <1>1, <1>2
<1>4. (CHOOSE y \in holders : TRUE) = x
  BY <1>3
<1>5. QED
  BY <1>2, <1>3, <1>4 DEF FileByte

\* Whatever sector is taken for one of a directory, it holds entries.
LEMMA EntryType ==
  ASSUME card \in Cards, NEW s, NEW o
  PROVE  ProperEntry(card, EntryAt(s, o))
<1> DEFINE holders == {y \in DOMAIN card.dirs : Holds(y, s)}
<1>1. ProperEntry(card, Last)
  BY DEF ProperEntry
<1>2. CASE holders = {}
  BY <1>1, <1>2 DEF EntryAt
<1>3. CASE holders # {}
  <2>1. PICK d \in DOMAIN card.dirs : d = (CHOOSE y \in holders : TRUE)
    BY <1>3
  <2>2. \A k \in DOMAIN card.dirs[d] : ProperEntry(card, card.dirs[d][k])
    BY <2>1, ObjectFacts
  <2>3. \/ EntryAt(s, o) = Last
        \/ \E k \in DOMAIN card.dirs[d] : EntryAt(s, o) = card.dirs[d][k]
    BY <1>3, <2>1 DEF EntryAt
  <2>4. QED
    BY <1>1, <2>2, <2>3
<1>4. QED
  BY <1>2, <1>3

\* ... or one of a file, bytes.
Bytes == (DOMAIN card.size \cup {"none"}) \X Int
LEMMA FileByteType ==
  ASSUME card \in Cards, NEW s, NEW o \in Int
  PROVE  FileByte(s, o) \in Bytes
<1> DEFINE holders == {y \in DOMAIN card.size : Holds(y, s)}
<1>1. CASE holders = {}
  <2>1. FileByte(s, o) = <<"none", 0>>
    BY <1>1 DEF FileByte, NoByte
  <2>2. PICK n \in DOMAIN card.size \cup {"none"}, z \in Int : n = "none" /\ z = 0
    OBVIOUS
  <2>3. <<n, z>> \in (DOMAIN card.size \cup {"none"}) \X Int
    OBVIOUS
  <2>4. QED
    BY <2>1, <2>2, <2>3 DEF Bytes
<1>2. CASE holders # {}
  <2>1. PICK x \in DOMAIN card.size : x = (CHOOSE y \in holders : TRUE) /\ Holds(x, s)
    BY <1>2
  <2>2. FileByte(s, o) = <<x, Place(x, s) * SS + o>>
    BY <1>2, <2>1 DEF FileByte
  <2>3. x \in DOMAIN card.chains
    BY <2>1, ObjectFacts
  <2>4. DOMAIN SectorsOf(x) \subseteq Int
    <3>1. card.bpb.rootent \div DirPerSector \in Int
      BY Clusters
    <3>2. Len(card.chains[x]) * card.bpb.csize \in Int
      <4>1. Len(card.chains[x]) \in Int /\ card.bpb.csize \in Int
        BY <2>3, ObjectFacts, BpbFacts
      <4>2. QED
        BY <4>1, Product
    <3>3. QED
      BY <3>1, <3>2 DEF SectorsOf
  <2>5. Place(x, s) \in Int
    <3>1. PICK k \in DOMAIN SectorsOf(x) :
            k = (CHOOSE i \in DOMAIN SectorsOf(x) : SectorsOf(x)[i] = s)
      BY <2>1 DEF Holds
    <3>2. QED
      BY <2>4, <3>1 DEF Place
  <2>6. PICK z \in Int : z = Place(x, s) * SS + o
    BY <2>5, SizeFacts, Product
  <2>7. <<x, z>> \in (DOMAIN card.size \cup {"none"}) \X Int
    BY <2>1
  <2>8. QED
    BY <2>2, <2>6, <2>7 DEF Bytes
<1>3. QED
  BY <1>1, <1>2

-----------------------------------------------------------------------------
\* The FAT

\* The entry of a cluster of an object names the next one, or ends the chain.
LEMMA ChainEntry ==
  ASSUME card \in Cards, NEW x \in DOMAIN card.chains, NEW i \in DOMAIN card.chains[x]
  PROVE  FatEntry(card.chains[x][i]) =
           IF i < Len(card.chains[x]) THEN card.chains[x][i + 1] ELSE EndMark(card.kind)
<1> DEFINE c == card.chains[x][i]
           holders == {y \in DOMAIN card.chains :
                         \E j \in DOMAIN card.chains[y] : card.chains[y][j] = c}
<1>1. \A y \in DOMAIN card.chains : \A j \in DOMAIN card.chains[y] :
        card.chains[y][j] = c => y = x /\ j = i
  BY ObjectFacts
<1>2. holders = {x}
  BY <1>1
<1>3. (CHOOSE y \in holders : TRUE) = x
  BY <1>2
<1>4. (CHOOSE j \in DOMAIN card.chains[x] : card.chains[x][j] = c) = i
  BY <1>1
<1>5. holders # {}
  BY <1>2
<1>6. FatEntry(c) =
        LET s == card.chains[CHOOSE y \in holders : TRUE]
            j == CHOOSE j \in DOMAIN s : s[j] = c
        IN  IF j < Len(s) THEN s[j + 1] ELSE EndMark(card.kind)
  BY <1>5 DEF FatEntry
<1>7. FatEntry(c) =
        LET j == CHOOSE j \in DOMAIN card.chains[x] : card.chains[x][j] = c
        IN  IF j < Len(card.chains[x]) THEN card.chains[x][j + 1] ELSE EndMark(card.kind)
  BY <1>3, <1>6
<1>8. QED
  BY <1>4, <1>7

\* An entry has no more bits than the FAT's kind says.
LEMMA EndMarks ==
  ASSUME card \in Cards
  PROVE  /\ EndMark(card.kind) \in Nat \ {0} /\ EndMark(card.kind) <= 268435455
         /\ card.kind = 12 => EndMark(card.kind) = 4095
         /\ card.kind = 16 => EndMark(card.kind) = 65535
         /\ card.kind = 32 => EndMark(card.kind) = 268435455
<1>1. card.kind \in {12, 16, 32}
  BY BpbFacts
<1>2. QED
  BY <1>1, SMT DEF EndMark

LEMMA ChainNumbers ==
  ASSUME card \in Cards, NEW x \in DOMAIN card.chains
  PROVE  /\ Len(card.chains[x]) \in Nat /\ DOMAIN card.chains[x] = 1 .. Len(card.chains[x])
         /\ \A i \in DOMAIN card.chains[x] :
              card.chains[x][i] \in Nat \ {0, 1} /\ card.chains[x][i] < EndMark(card.kind)
<1>1. card.chains[x] \in Seq(2 .. EndMark(card.kind) - 1)
  BY ObjectFacts
<1>2. EndMark(card.kind) \in Nat
  BY EndMarks
<1>3. \A i \in DOMAIN card.chains[x] : card.chains[x][i] \in 2 .. EndMark(card.kind) - 1
  BY <1>1, Elements, Zenon
<1>4. Len(card.chains[x]) \in Nat /\ DOMAIN card.chains[x] = 1 .. Len(card.chains[x])
  BY <1>1, Elements, Zenon
<1>5. QED
  BY <1>2, <1>3, <1>4

LEMMA EntryFits ==
  ASSUME card \in Cards, NEW c
  PROVE  FatEntry(c) \in Nat /\ FatEntry(c) <= EndMark(card.kind)
<1>1. EndMark(card.kind) \in Nat
  BY EndMarks
<1>2. CASE \E x \in DOMAIN card.chains :
             \E i \in DOMAIN card.chains[x] : card.chains[x][i] = c
  <2>1. PICK x \in DOMAIN card.chains : \E i \in DOMAIN card.chains[x] : card.chains[x][i] = c
    BY <1>2
  <2>2. PICK i \in DOMAIN card.chains[x] : card.chains[x][i] = c
    BY <2>1
  <2>3. FatEntry(c) =
          IF i < Len(card.chains[x]) THEN card.chains[x][i + 1] ELSE EndMark(card.kind)
    BY <2>2, ChainEntry
  <2>4. i < Len(card.chains[x]) => i + 1 \in DOMAIN card.chains[x]
    BY ChainNumbers
  <2>5. QED
    BY <1>1, <2>3, <2>4, ChainNumbers
<1>3. CASE ~\E x \in DOMAIN card.chains :
             \E i \in DOMAIN card.chains[x] : card.chains[x][i] = c
  <2>1. {x \in DOMAIN card.chains :
           \E i \in DOMAIN card.chains[x] : card.chains[x][i] = c} = {}
    BY <1>3
  <2>2. FatEntry(c) = 0
    BY <2>1, Zenon DEF FatEntry
  <2>3. QED
    BY <1>1, <2>2
<1>4. QED
  BY <1>2, <1>3

\* Byte p of the FAT: the bytes of two entries of 12 bits, and of one of 16 or 32.
Packed(p) == PackedByte(card.kind, FatEntry, p)

LEMMA Bytes12 ==
  ASSUME card.kind = 12, NEW k \in Int
  PROVE  /\ Packed(3 * k) = FatEntry(2 * k) % 256
         /\ Packed(3 * k + 1) = FatEntry(2 * k) \div 256 + 16 * (FatEntry(2 * k + 1) % 16)
         /\ Packed(3 * k + 2) = FatEntry(2 * k + 1) \div 16
<1>1. /\ (3 * k) \div 3 = k /\ (3 * k) % 3 = 0
      /\ (3 * k + 1) \div 3 = k /\ (3 * k + 1) % 3 = 1
      /\ (3 * k + 2) \div 3 = k /\ (3 * k + 2) % 3 = 2
  OBVIOUS
<1>2. QED
  BY <1>1, SMT DEF Packed, PackedByte

LEMMA Powers ==
  /\ 256 ^ 0 = 1 /\ 256 ^ 1 = 256 /\ 256 ^ 2 = 65536 /\ 256 ^ 3 = 16777216
  /\ \A e \in Nat : e \div 1 = e
BY SMT

LEMMA Bytes16 ==
  ASSUME card.kind = 16, NEW k \in Int, FatEntry(k) \in Nat
  PROVE  /\ Packed(2 * k) = FatEntry(k) % 256
         /\ Packed(2 * k + 1) = (FatEntry(k) \div 256) % 256
<1>1. 16 \div 8 = 2 /\ 16 # 12
  OBVIOUS
<1>2. \A p : Packed(p) = (FatEntry(p \div 2) \div 256 ^ (p % 2)) % 256
  BY <1>1, SMT DEF Packed, PackedByte
<1>3. \A i \in 0 .. 1 :
        Packed(2 * k + i)
          = (FatEntry((2 * k + i) \div 2) \div 256 ^ ((2 * k + i) % 2)) % 256
  BY <1>2
<1>4. \A i \in 0 .. 1 : (2 * k + i) \div 2 = k /\ (2 * k + i) % 2 = i
  BY SMT
<1>5. \A i \in 0 .. 1 : Packed(2 * k + i) = (FatEntry(k) \div 256 ^ i) % 256
  BY <1>3, <1>4
<1>6. Packed(2 * k + 0) = Packed(2 * k)
  OBVIOUS
<1>7. QED
  BY <1>5, <1>6, Powers

LEMMA Bytes32 ==
  ASSUME card.kind = 32, NEW k \in Int, FatEntry(k) \in Nat
  PROVE  /\ Packed(4 * k) = FatEntry(k) % 256
         /\ Packed(4 * k + 1) = (FatEntry(k) \div 256) % 256
         /\ Packed(4 * k + 2) = (FatEntry(k) \div 65536) % 256
         /\ Packed(4 * k + 3) = (FatEntry(k) \div 16777216) % 256
<1>1. 32 \div 8 = 4 /\ 32 # 12
  OBVIOUS
<1>2. \A p : Packed(p) = (FatEntry(p \div 4) \div 256 ^ (p % 4)) % 256
  BY <1>1, SMT DEF Packed, PackedByte
<1>3. \A i \in 0 .. 3 :
        Packed(4 * k + i)
          = (FatEntry((4 * k + i) \div 4) \div 256 ^ ((4 * k + i) % 4)) % 256
  BY <1>2
<1>4. \A i \in 0 .. 3 : (4 * k + i) \div 4 = k /\ (4 * k + i) % 4 = i
  BY SMT
<1>5. \A i \in 0 .. 3 : Packed(4 * k + i) = (FatEntry(k) \div 256 ^ i) % 256
  BY <1>3, <1>4
<1>6. Packed(4 * k + 0) = Packed(4 * k)
  OBVIOUS
<1>7. QED
  BY <1>5, <1>6, Powers

LEMMA Parity ==
  \A c \in Nat : \E k \in Nat : (c = 2 * k /\ c % 2 = 0) \/ (c = 2 * k + 1 /\ c % 2 = 1)
<1>1. TAKE c \in Nat
<1>2. 2 \in Nat \ {0} /\ c \in Int /\ c >= 0
  OBVIOUS
<1>3. PICK k \in Nat, r \in 0 .. 1 : c = 2 * k + r /\ r = c % 2
  BY <1>2, DivMod
<1>4. QED
  BY <1>3

\* What get_fat makes of them.
LEMMA Unpack ==
  /\ \A e, o \in Nat : e < 4096 =>
       ((e % 256) + 256 * (e \div 256 + 16 * (o % 16))) % 4096 = e
  /\ \A e \in Nat : e < 65536 => (e % 256) + 256 * ((e \div 256) % 256) = e
BY SMT

LEMMA UnpackOdd ==
  ASSUME NEW e \in Nat, NEW o \in Nat, e < 4096
  PROVE  (e \div 256 + 16 * (o % 16) + 256 * (o \div 16)) \div 16 = o
BY SMT

LEMMA Unpack32 ==
  ASSUME NEW e \in Nat, e <= 268435455
  PROVE  (e % 256) + 256 * ((e \div 256) % 256)
           + 65536 * (((e \div 65536) % 256) + 256 * (((e \div 16777216) % 256) % 16)) = e
<1>1. PICK a \in Nat, b \in 0 .. 255 :
        e = 256 * a + b /\ a <= 1048575 /\ e \div 256 = a /\ e % 256 = b
  BY SMT
<1>2. PICK c \in Nat, d \in 0 .. 255 :
        a = 256 * c + d /\ c <= 4095 /\ a \div 256 = c /\ a % 256 = d
  BY <1>1, SMT
<1>3. PICK f \in Nat, g \in 0 .. 255 :
        c = 256 * f + g /\ f <= 15 /\ c \div 256 = f /\ c % 256 = g
  BY <1>2, SMT
<1>4. e \div 65536 = c
  BY <1>1, <1>2, SMT
<1>5. e \div 16777216 = f
  BY <1>1, <1>2, <1>3, SMT
<1>6. (f % 256) % 16 = f
  BY <1>3, SMT
<1>7. QED
  BY <1>1, <1>2, <1>3, <1>4, <1>5, <1>6, SMT

\* The sectors of the first FAT hold its bytes.
LEMMA FatSector ==
  ASSUME CardKnown, NEW q \in Nat, q < SS * card.bpb.fatsz
  PROVE  FatByte(FatStart + q \div SS, q % SS) = Packed(q)
<1>1. PICK n \in Nat \ {0} : n = card.bpb.fatsz
  BY Places
<1>2. PICK b \in Nat \ {0} : b = SS
  BY SizeFacts
<1>3. PICK f \in Nat \ {0} : f = card.bpb.fats
  BY Places
<1>4. PICK s \in Nat, r \in 0 .. b - 1 : s = q \div b /\ r = q % b /\ q = b * s + r
  <2>1. q \in Int /\ q >= 0
    OBVIOUS
  <2>2. QED
    BY <2>1, DivMod
<1>5. s < n
  <2>1. SUFFICES ASSUME n <= s PROVE FALSE
    OBVIOUS
  <2>2. PICK bn \in Nat, bs \in Nat : bn = b * n /\ bs = b * s
    BY Product
  <2>3. bn <= bs
    BY <2>1, <2>2
  <2>4. q < bn
    BY <1>1, <1>2, <2>2
  <2>5. bs <= q
    BY <1>4, <2>2
  <2>6. QED
    BY <2>2, <2>3, <2>4, <2>5
<1>6. PICK g \in Nat : g = FatStart
  BY Places
<1>7. PICK fn \in Nat : fn = f * n /\ n <= fn
  BY Product
<1>8. g + s - g = s /\ s \in 0 .. fn - 1 /\ s % n = s
  BY <1>5, <1>7
<1>9. FatByte(g + s, r) = Packed(s * b + r)
  <2>1. PICK t \in Nat : t = g + s
    OBVIOUS
  <2>2. t - FatStart \in 0 .. card.bpb.fats * card.bpb.fatsz - 1
    BY <1>1, <1>3, <1>6, <1>7, <1>8, <2>1
  <2>3. FatByte(t, r) = Packed(((t - FatStart) % card.bpb.fatsz) * SS + r)
    BY <2>2 DEF FatByte, Packed
  <2>4. (t - FatStart) % card.bpb.fatsz = s
    BY <1>1, <1>6, <1>8, <2>1
  <2>5. QED
    BY <1>2, <2>1, <2>3, <2>4
<1>10. s * b + r = q
  BY <1>4, Distribute
<1>11. QED
  BY <1>2, <1>4, <1>6, <1>9, <1>10

\* Whatever sector is read as a part of the FAT, it holds bytes.
LEMMA PackedBounds ==
  ASSUME card \in Cards, NEW p \in Int
  PROVE  Packed(p) \in 0 .. 255
<1>1. \A c : FatEntry(c) \in Nat /\ FatEntry(c) <= EndMark(card.kind)
  BY EntryFits
<1>2. CASE card.kind = 12
  <2>1. PICK k \in Int, r \in 0 .. 2 : p = 3 * k + r
    <3>1. p = 3 * (p \div 3) + (p % 3)
      BY SMT
    <3>2. QED
      BY <3>1
  <2>2. PICK e \in Nat, o \in Nat :
          e = FatEntry(2 * k) /\ o = FatEntry(2 * k + 1) /\ e <= 4095 /\ o <= 4095
    BY <1>1, <1>2, EndMarks
  <2>3. /\ Packed(3 * k) = e % 256 /\ Packed(3 * k + 1) = e \div 256 + 16 * (o % 16)
        /\ Packed(3 * k + 2) = o \div 16
    BY <1>2, <2>2, Bytes12
  <2>4. e % 256 \in 0 .. 255 /\ e \div 256 + 16 * (o % 16) \in 0 .. 255 /\ o \div 16 \in 0 .. 255
    BY <2>2, SMT
  <2>5. CASE r = 0
    BY <2>1, <2>3, <2>4, <2>5
  <2>6. CASE r = 1
    BY <2>1, <2>3, <2>4, <2>6
  <2>7. CASE r = 2
    BY <2>1, <2>3, <2>4, <2>7
  <2>8. QED
    BY <2>5, <2>6, <2>7
<1>3. \A e \in Nat : e % 256 \in 0 .. 255 /\ e \div 256 \in Nat /\ e \div 65536 \in Nat
                       /\ e \div 16777216 \in Nat
  BY SMT
<1>4. CASE card.kind = 16
  <2>1. PICK k \in Int, r \in 0 .. 1 : p = 2 * k + r
    <3>1. p = 2 * (p \div 2) + (p % 2)
      BY SMT
    <3>2. QED
      BY <3>1
  <2>2. PICK e \in Nat : e = FatEntry(k)
    BY <1>1
  <2>3. Packed(2 * k) = e % 256 /\ Packed(2 * k + 1) = (e \div 256) % 256
    BY <1>4, <2>2, Bytes16
  <2>4. CASE r = 0
    BY <1>3, <2>1, <2>3, <2>4
  <2>5. CASE r = 1
    BY <1>3, <2>1, <2>3, <2>5
  <2>6. QED
    BY <2>4, <2>5
<1>5. CASE card.kind = 32
  <2>1. PICK k \in Int, r \in 0 .. 3 : p = 4 * k + r
    <3>1. p = 4 * (p \div 4) + (p % 4)
      BY SMT
    <3>2. QED
      BY <3>1
  <2>2. PICK e \in Nat : e = FatEntry(k)
    BY <1>1
  <2>3. /\ Packed(4 * k) = e % 256 /\ Packed(4 * k + 1) = (e \div 256) % 256
        /\ Packed(4 * k + 2) = (e \div 65536) % 256
        /\ Packed(4 * k + 3) = (e \div 16777216) % 256
    BY <1>5, <2>2, Bytes32
  <2>4. /\ Packed(4 * k) \in 0 .. 255 /\ Packed(4 * k + 1) \in 0 .. 255
        /\ Packed(4 * k + 2) \in 0 .. 255 /\ Packed(4 * k + 3) \in 0 .. 255
    BY <1>3, <2>3
  <2>5. CASE r = 0
    BY <2>1, <2>4, <2>5
  <2>6. CASE r # 0
    <3>1. r = 1 \/ r = 2 \/ r = 3
      BY <2>6
    <3>2. QED
      BY <2>1, <2>4, <3>1
  <2>7. QED
    BY <2>5, <2>6
<1>6. QED
  BY <1>2, <1>4, <1>5, BpbFacts

LEMMA FatByteBounds ==
  ASSUME card \in Cards, NEW s \in Int, NEW o \in Int
  PROVE  FatByte(s, o) \in 0 .. 255
<1>1. CASE s - FatStart \in 0 .. card.bpb.fats * card.bpb.fatsz - 1
  <2>1. PICK n \in Nat, f \in Nat : n = card.bpb.fatsz /\ f = card.bpb.fats
    BY BpbFacts
  <2>2. PICK g \in Int : g = s - FatStart
    <3>1. FatStart \in Int
      BY BpbFacts DEF FatStart
    <3>2. QED
      BY <3>1
  <2>3. n # 0
    <3>1. ASSUME n = 0 PROVE FALSE
      <4>1. f * n = 0
        BY <3>1
      <4>2. QED
        BY <1>1, <2>1, <4>1
    <3>2. QED
      BY <3>1
  <2>4. PICK m \in Int : m = g % n
    BY <2>3, DivMod
  <2>5. PICK p \in Int : p = m * SS + o
    BY SizeFacts, Product
  <2>6. FatByte(s, o) = Packed(p)
    BY <1>1, <2>1, <2>2, <2>4, <2>5 DEF FatByte, Packed
  <2>7. QED
    BY <2>6, PackedBounds
<1>2. CASE ~(s - FatStart \in 0 .. card.bpb.fats * card.bpb.fatsz - 1)
  <2>1. FatByte(s, o) = 0
    BY <1>2 DEF FatByte
  <2>2. QED
    BY <2>1
<1>3. QED
  BY <1>1, <1>2

\* An entry that begins at a multiple of 2 or 4 bytes lies in one sector.
LEMMA Aligned ==
  ASSUME NEW c \in Nat, NEW a \in {2, 4}, NEW k \in 0 .. a - 1
  PROVE  (a * c + k) \div SS = (a * c) \div SS
<1>1. PICK b \in Nat \ {0} : b = SS
  BY SizeFacts
<1>2. PICK m \in Nat : b = 4 * m
  <2>1. b % 4 = 0
    BY <1>1, SizeFacts
  <2>2. b = 4 * (b \div 4) /\ b \div 4 \in Nat
    BY <2>1, SMT
  <2>3. QED
    BY <2>2
<1>3. PICK p \in Nat : p = a * c
  BY Product
<1>4. PICK s \in Nat, r \in 0 .. b - 1 : s = p \div b /\ p = b * s + r
  <2>1. p \in Int /\ p >= 0
    OBVIOUS
  <2>2. QED
    BY <2>1, DivMod
<1>5. PICK ms \in Nat, bs \in Nat : ms = m * s /\ bs = b * s
  BY Product
<1>6. bs = 4 * ms
  BY <1>2, <1>5, Distribute
<1>7. r + k \in 0 .. b - 1
  <2>1. p = 4 * ms + r
    BY <1>4, <1>5, <1>6
  <2>2. CASE a = 2
    <3>1. 2 * c = 4 * ms + r
      BY <1>3, <2>1, <2>2
    <3>2. QED
      BY <1>2, <2>2, <3>1
  <2>3. CASE a = 4
    <3>1. 4 * c = 4 * ms + r
      BY <1>3, <2>1, <2>3
    <3>2. QED
      BY <1>2, <2>3, <3>1
  <2>4. QED
    BY <2>2, <2>3
<1>8. (b * s + (r + k)) \div b = s
  <2>1. s \in Int
    OBVIOUS
  <2>2. QED
    BY <1>7, <2>1, DivUnique, Zenon
<1>9. p + k = b * s + (r + k)
  BY <1>4, <1>5
<1>10. QED
  BY <1>1, <1>3, <1>4, <1>8, <1>9

-----------------------------------------------------------------------------
\* The window and get_fat

\* What a window holds is what its tag says.
WindowOK(w) == w \in [sect : Int, data : Int] /\ w.data = w.sect

LEMMA InvalidWindow ==
  WindowOK(Invalid) /\ Invalid.sect = -1
BY DEF WindowOK, Invalid, NoSector, Junk

LEMMA MoveWindow ==
  ASSUME NEW w, WindowOK(w), NEW s \in Int, NEW x \in move_window(w, s)
  PROVE  /\ WindowOK(x)
         /\ x.sect # s => MayFail
         /\ x.sect = s => x.data = s
<1>1. CASE s = w.sect
  <2>1. x = w
    BY <1>1 DEF move_window
  <2>2. QED
    BY <1>1, <2>1 DEF WindowOK
<1>2. CASE s # w.sect /\ x = [sect |-> s, data |-> s]
  BY <1>2 DEF WindowOK
<1>3. CASE s # w.sect /\ x = Invalid /\ MayFail
  <2>1. x.sect = -1 /\ WindowOK(x)
    BY <1>3, InvalidWindow
  <2>2. QED
    BY <1>3, <2>1 DEF WindowOK
<1>4. QED
  BY <1>1, <1>2, <1>3 DEF move_window

\* Where the entry of cluster c begins, and what its bytes are taken for.
EntryStart(c) == IF fs.fs_type = 12 THEN c + c \div 2 ELSE c * (fs.fs_type \div 8)
EntrySect(c, k) == fs.fatbase + (EntryStart(c) + k) \div SS
EntryByte(x, c, k) == FatByte(x.data, (EntryStart(c) + k) % SS)
WideValue(x, c) ==
  EntryByte(x, c, 0) + 256 * EntryByte(x, c, 1)
    + (IF fs.fs_type = 32
       THEN 65536 * (EntryByte(x, c, 2) + 256 * (EntryByte(x, c, 3) % 16)) ELSE 0)
PackedValue(x, y, c) ==
  LET wc == FatByte(x.data, EntryStart(c) % SS) + 256 * EntryByte(y, c, 1)
  IN  IF c % 2 = 1 THEN wc \div 16 ELSE wc % 4096

LEMMA GetFatCases ==
  ASSUME NEW w, NEW c \in Int, fs.n_fatent \in Int, c >= 2, c < fs.n_fatent,
         NEW g \in get_fat(w, c)
  PROVE  \E x \in move_window(w, EntrySect(c, 0)) :
           \/ x.sect # EntrySect(c, 0) /\ g = [val |-> DiskError, win |-> x]
           \/ /\ x.sect = EntrySect(c, 0) /\ fs.fs_type # 12
              /\ g = [val |-> WideValue(x, c), win |-> x]
           \/ /\ x.sect = EntrySect(c, 0) /\ fs.fs_type = 12
              /\ \E y \in move_window(x, EntrySect(c, 1)) :
                   \/ y.sect # EntrySect(c, 1) /\ g = [val |-> DiskError, win |-> y]
                   \/ y.sect = EntrySect(c, 1) /\ g = [val |-> PackedValue(x, y, c), win |-> y]
<1> DEFINE Turn(x) ==
      IF x.sect # EntrySect(c, 0) THEN {[val |-> DiskError, win |-> x]}
      ELSE IF fs.fs_type # 12 THEN {[val |-> WideValue(x, c), win |-> x]}
      ELSE {IF y.sect = EntrySect(c, 1) THEN [val |-> PackedValue(x, y, c), win |-> y]
            ELSE [val |-> DiskError, win |-> y] : y \in move_window(x, EntrySect(c, 1))}
<1>1. ~(c < 2 \/ c >= fs.n_fatent)
  OBVIOUS
<1>2. get_fat(w, c) = UNION {Turn(x) : x \in move_window(w, EntrySect(c, 0))}
  BY <1>1 DEF get_fat, EntrySect, EntryStart, WideValue, PackedValue, EntryByte
<1>3. PICK x \in move_window(w, EntrySect(c, 0)) : g \in Turn(x)
  BY <1>2
<1>4. QED
  BY <1>3

LEMMA GetFatOutside ==
  ASSUME NEW w, NEW c \in Int, fs.n_fatent \in Int, c < 2 \/ c >= fs.n_fatent,
         NEW g \in get_fat(w, c)
  PROVE  g.val = 1 /\ g.win = w
<1>1. get_fat(w, c) = {[val |-> 1, win |-> w]}
  BY DEF get_fat
<1>2. QED
  BY <1>1

\* Whatever FATFS says, get_fat returns a number or an error.
LEMMA EntryPlaces ==
  ASSUME fs.fs_type \in {0, 12, 16, 32}, fs.fatbase \in Nat, NEW c \in Int, NEW k \in Int
  PROVE  /\ EntryStart(c) \in Int /\ EntrySect(c, k) \in Int
         /\ EntryStart(c) % SS \in Int /\ (EntryStart(c) + k) % SS \in Int
<1>1. EntryStart(c) \in Int
  <2>1. CASE fs.fs_type = 12
    BY <2>1 DEF EntryStart
  <2>2. CASE fs.fs_type # 12
    <3>1. fs.fs_type \div 8 \in Int
      BY <2>2
    <3>2. QED
      BY <2>2, <3>1, Product DEF EntryStart
  <2>3. QED
    BY <2>1, <2>2
<1>2. PICK b \in Nat \ {0} : b = SS
  BY SizeFacts
<1>3. PICK p \in Int, q \in Int : p = EntryStart(c) /\ q = EntryStart(c) + k
  BY <1>1
<1>4. q \div b \in Int /\ q % b \in Int /\ p % b \in Int
  BY DivMod
<1>5. QED
  BY <1>2, <1>3, <1>4 DEF EntrySect

LEMMA EntryBytes ==
  ASSUME card \in Cards, fs.fs_type \in {0, 12, 16, 32}, fs.fatbase \in Nat, NEW c \in Int,
         NEW x, x.data \in Int
  PROVE  /\ \A k \in Int : EntryByte(x, c, k) \in 0 .. 255
         /\ FatByte(x.data, EntryStart(c) % SS) \in 0 .. 255
<1>1. \A k \in Int : EntryByte(x, c, k) \in 0 .. 255
  <2>1. TAKE k \in Int
  <2>2. PICK s \in Int, o \in Int : s = x.data /\ o = (EntryStart(c) + k) % SS
    BY EntryPlaces
  <2>3. FatByte(s, o) \in 0 .. 255
    BY FatByteBounds
  <2>4. QED
    BY <2>2, <2>3 DEF EntryByte
<1>2. FatByte(x.data, EntryStart(c) % SS) \in 0 .. 255
  <2>1. PICK s \in Int, o \in Int : s = x.data /\ o = EntryStart(c) % SS
    BY EntryPlaces
  <2>2. FatByte(s, o) \in 0 .. 255
    BY FatByteBounds
  <2>3. QED
    BY <2>1, <2>2
<1>3. QED
  BY <1>1, <1>2

LEMMA GetFatType ==
  ASSUME card \in Cards, fs.fs_type \in {0, 12, 16, 32}, fs.fatbase \in Nat, fs.n_fatent \in Int,
         NEW w, WindowOK(w), NEW c \in Int, NEW g \in get_fat(w, c)
  PROVE  /\ g.val \in Nat /\ g.val <= DiskError /\ WindowOK(g.win)
         /\ g.val = DiskError => MayFail
<1>1. CASE c < 2 \/ c >= fs.n_fatent
  <2>1. g.val = 1 /\ g.win = w
    BY <1>1, GetFatOutside
  <2>2. QED
    BY <2>1 DEF DiskError
<1>2. CASE ~(c < 2 \/ c >= fs.n_fatent)
  <2>1. PICK x \in move_window(w, EntrySect(c, 0)) :
           \/ x.sect # EntrySect(c, 0) /\ g = [val |-> DiskError, win |-> x]
           \/ /\ x.sect = EntrySect(c, 0) /\ fs.fs_type # 12
              /\ g = [val |-> WideValue(x, c), win |-> x]
           \/ /\ x.sect = EntrySect(c, 0) /\ fs.fs_type = 12
              /\ \E y \in move_window(x, EntrySect(c, 1)) :
                   \/ y.sect # EntrySect(c, 1) /\ g = [val |-> DiskError, win |-> y]
                   \/ y.sect = EntrySect(c, 1) /\ g = [val |-> PackedValue(x, y, c), win |-> y]
    BY <1>2, GetFatCases
  <2>2. EntrySect(c, 0) \in Int /\ EntrySect(c, 1) \in Int
    BY EntryPlaces
  <2>3. WindowOK(x) /\ (x.sect # EntrySect(c, 0) => MayFail) /\ x.data \in Int
    BY <2>2, MoveWindow DEF WindowOK
  <2>4. \A k \in Int : EntryByte(x, c, k) \in 0 .. 255
    BY <2>3, EntryBytes
  <2>5. CASE x.sect # EntrySect(c, 0) /\ g = [val |-> DiskError, win |-> x]
    BY <2>3, <2>5 DEF DiskError
  <2>6. CASE g = [val |-> WideValue(x, c), win |-> x]
    <3>1. PICK b0 \in 0 .. 255, b1 \in 0 .. 255, b2 \in 0 .. 255, b3 \in 0 .. 255 :
            /\ b0 = EntryByte(x, c, 0) /\ b1 = EntryByte(x, c, 1)
            /\ b2 = EntryByte(x, c, 2) /\ b3 = EntryByte(x, c, 3)
      <4>1. 0 \in Int /\ 1 \in Int /\ 2 \in Int /\ 3 \in Int
        OBVIOUS
      <4>2. /\ EntryByte(x, c, 0) \in 0 .. 255 /\ EntryByte(x, c, 1) \in 0 .. 255
            /\ EntryByte(x, c, 2) \in 0 .. 255 /\ EntryByte(x, c, 3) \in 0 .. 255
        BY <2>4, <4>1, Zenon
      <4>3. QED
        BY <4>2, Zenon
    <3>2. b3 % 16 \in 0 .. 15
      BY SMT
    <3>3. PICK m \in 0 .. 15 : m = b3 % 16
      BY <3>2
    <3>4. WideValue(x, c) = b0 + 256 * b1 + (IF fs.fs_type = 32 THEN 65536 * (b2 + 256 * m) ELSE 0)
      BY <3>1, <3>3 DEF WideValue
    <3>5. WideValue(x, c) \in Nat /\ WideValue(x, c) < 2147483647
      BY <3>4
    <3>6. QED
      BY <2>3, <2>6, <3>5 DEF DiskError
  <2>7. CASE \E y \in move_window(x, EntrySect(c, 1)) :
               \/ y.sect # EntrySect(c, 1) /\ g = [val |-> DiskError, win |-> y]
               \/ y.sect = EntrySect(c, 1) /\ g = [val |-> PackedValue(x, y, c), win |-> y]
    <3>1. PICK y \in move_window(x, EntrySect(c, 1)) :
               \/ y.sect # EntrySect(c, 1) /\ g = [val |-> DiskError, win |-> y]
               \/ y.sect = EntrySect(c, 1) /\ g = [val |-> PackedValue(x, y, c), win |-> y]
      BY <2>7
    <3>2. WindowOK(y) /\ (y.sect # EntrySect(c, 1) => MayFail) /\ y.data \in Int
      BY <2>2, <2>3, MoveWindow DEF WindowOK
    <3>3. PICK b0 \in 0 .. 255 : b0 = FatByte(x.data, EntryStart(c) % SS)
      BY <2>3, EntryBytes
    <3>4. PICK b1 \in 0 .. 255 : b1 = EntryByte(y, c, 1)
      <4>1. 1 \in Int
        OBVIOUS
      <4>2. EntryByte(y, c, 1) \in 0 .. 255
        BY <3>2, <4>1, EntryBytes
      <4>3. QED
        BY <4>2
    <3>5. PICK v \in Nat : v = b0 + 256 * b1 /\ v <= 65535
      BY SMT
    <3>6. PackedValue(x, y, c) = IF c % 2 = 1 THEN v \div 16 ELSE v % 4096
      BY <3>3, <3>4, <3>5 DEF PackedValue
    <3>7. v \div 16 \in Nat /\ v \div 16 <= 65535 /\ v % 4096 \in Nat /\ v % 4096 <= 65535
      BY <3>5, SMT
    <3>8. PackedValue(x, y, c) \in Nat /\ PackedValue(x, y, c) < 2147483647
      BY <3>6, <3>7
    <3>9. QED
      BY <3>1, <3>2, <3>8 DEF DiskError
  <2>8. QED
    BY <2>1, <2>5, <2>6, <2>7
<1>3. QED
  BY <1>1, <1>2

\* FATFS says of the volume what its boot sector says.
VolumeKnown ==
  /\ CardKnown /\ fs.fs_type = card.kind /\ fs.csize = card.bpb.csize
  /\ fs.n_rootdir = card.bpb.rootent /\ fs.n_fatent = nclst(card.bpb) + 2
  /\ fs.fatbase = FatStart /\ fs.database = card.part + sysect(card.bpb)
  /\ fs.dirbase = IF card.bpb.rootent = 0 THEN card.bpb.rootclus ELSE RootStart

\* Then get_fat returns the entry of any cluster, in whichever sectors its bytes are.
LEMMA GetFat ==
  ASSUME VolumeKnown, NEW w, WindowOK(w), NEW c \in Nat \ {0, 1}, c < fs.n_fatent,
         NEW g \in get_fat(w, c)
  PROVE  /\ WindowOK(g.win)
         /\ g.val = FatEntry(c) \/ (g.val = DiskError /\ MayFail)
<1>1. CardKnown /\ card \in Cards /\ IsVolume(card.bpb) /\ card.kind = KindOf(nclst(card.bpb))
  BY DEF VolumeKnown, CardKnown, Mountable
<1>2. PICK f \in Nat : f = FatStart /\ f = fs.fatbase
  BY <1>1, Places DEF VolumeKnown
<1>3. card.kind \in {12, 16, 32} /\ fs.fs_type = card.kind
  BY <1>1, BpbFacts DEF VolumeKnown
<1>4. PICK n \in Nat : n = SS * card.bpb.fatsz
  BY <1>1, BpbFacts, SizeFacts, Product
<1>5. PICK m \in Nat : m = nclst(card.bpb) + 2 /\ m = fs.n_fatent
  BY <1>1, Clusters DEF VolumeKnown
<1>6. m * card.kind <= 8 * n
  BY <1>1, <1>4, <1>5, VolumeFacts
<1>7. PICK e \in Nat : e = FatEntry(c) /\ e <= EndMark(card.kind)
  BY <1>1, EntryFits
<1>8. \A q \in Nat : q < n => FatByte(f + q \div SS, q % SS) = Packed(q)
  BY <1>1, <1>2, <1>4, FatSector
<1>9. PICK x \in move_window(w, EntrySect(c, 0)) :
           \/ x.sect # EntrySect(c, 0) /\ g = [val |-> DiskError, win |-> x]
           \/ /\ x.sect = EntrySect(c, 0) /\ fs.fs_type # 12
              /\ g = [val |-> WideValue(x, c), win |-> x]
           \/ /\ x.sect = EntrySect(c, 0) /\ fs.fs_type = 12
              /\ \E y \in move_window(x, EntrySect(c, 1)) :
                   \/ y.sect # EntrySect(c, 1) /\ g = [val |-> DiskError, win |-> y]
                   \/ y.sect = EntrySect(c, 1) /\ g = [val |-> PackedValue(x, y, c), win |-> y]
  BY <1>5, GetFatCases
<1>10. EntrySect(c, 0) \in Int /\ EntrySect(c, 1) \in Int
  BY <1>2, <1>3, EntryPlaces
<1>11. /\ WindowOK(x) /\ (x.sect # EntrySect(c, 0) => MayFail)
       /\ x.sect = EntrySect(c, 0) => x.data = EntrySect(c, 0)
  BY <1>10, MoveWindow
<1>12. CASE x.sect # EntrySect(c, 0) /\ g = [val |-> DiskError, win |-> x]
  BY <1>11, <1>12
<1>13. CASE x.sect = EntrySect(c, 0) /\ fs.fs_type # 12 /\ g = [val |-> WideValue(x, c), win |-> x]
  <2>1. CASE card.kind = 16
    <3>1. EntryStart(c) = 2 * c /\ 2 * c + 1 < n
      BY <1>3, <1>5, <1>6, <2>1 DEF EntryStart
    <3>2. PICK p \in Nat : p = 2 * c
      OBVIOUS
    <3>3. (p + 0) \div SS = p \div SS /\ (p + 1) \div SS = p \div SS /\ p + 0 = p
      BY <3>2, Aligned
    <3>4. x.data = f + p \div SS
      BY <1>2, <1>11, <1>13, <3>1, <3>2, <3>3 DEF EntrySect
    <3>5. EntryByte(x, c, 0) = Packed(p) /\ EntryByte(x, c, 1) = Packed(p + 1)
      BY <1>8, <3>1, <3>2, <3>3, <3>4 DEF EntryByte
    <3>6. Packed(p) = e % 256 /\ Packed(p + 1) = (e \div 256) % 256
      BY <1>7, <2>1, <3>2, Bytes16
    <3>7. e < 65536
      BY <1>1, <1>7, <2>1, EndMarks
    <3>8. (e % 256) + 256 * ((e \div 256) % 256) = e
      BY <3>7, Unpack
    <3>9. WideValue(x, c) = e
      <4>1. fs.fs_type # 32
        BY <1>3, <2>1
      <4>2. WideValue(x, c) = EntryByte(x, c, 0) + 256 * EntryByte(x, c, 1) + 0
        BY <4>1 DEF WideValue
      <4>3. QED
        BY <3>5, <3>6, <3>8, <4>2
    <3>10. QED
      BY <1>7, <1>11, <1>13, <3>9
  <2>2. CASE card.kind = 32
    <3>1. EntryStart(c) = 4 * c /\ 4 * c + 3 < n
      BY <1>3, <1>5, <1>6, <2>2 DEF EntryStart
    <3>2. PICK p \in Nat : p = 4 * c
      OBVIOUS
    <3>3. \A k \in 0 .. 3 : (p + k) \div SS = p \div SS
      BY <3>2, Aligned
    <3>4. p + 0 = p
      OBVIOUS
    <3>5. x.data = f + p \div SS
      BY <1>2, <1>11, <1>13, <3>1, <3>2, <3>4 DEF EntrySect
    <3>6. \A k \in 0 .. 3 : EntryByte(x, c, k) = Packed(p + k)
      <4>1. TAKE k \in 0 .. 3
      <4>2. PICK q \in Nat : q = p + k /\ q < n
        BY <3>1, <3>2
      <4>3. FatByte(f + q \div SS, q % SS) = Packed(q)
        BY <1>8, <4>2
      <4>4. QED
        BY <3>1, <3>2, <3>3, <3>5, <4>2, <4>3 DEF EntryByte
    <3>7. /\ EntryByte(x, c, 0) = e % 256 /\ EntryByte(x, c, 1) = (e \div 256) % 256
          /\ EntryByte(x, c, 2) = (e \div 65536) % 256
          /\ EntryByte(x, c, 3) = (e \div 16777216) % 256
      BY <1>7, <2>2, <3>2, <3>4, <3>6, Bytes32
    <3>8. e <= 268435455
      BY <1>1, <1>7, <2>2, EndMarks
    <3>9. WideValue(x, c) =
            (e % 256) + 256 * ((e \div 256) % 256)
              + 65536 * (((e \div 65536) % 256) + 256 * (((e \div 16777216) % 256) % 16))
      <4>1. fs.fs_type = 32
        BY <1>3, <2>2
      <4>2. WideValue(x, c) =
              EntryByte(x, c, 0) + 256 * EntryByte(x, c, 1)
                + 65536 * (EntryByte(x, c, 2) + 256 * (EntryByte(x, c, 3) % 16))
        BY <4>1 DEF WideValue
      <4>3. PICK b0, b1, b2, b3 :
              /\ b0 = e % 256 /\ b1 = (e \div 256) % 256 /\ b2 = (e \div 65536) % 256
              /\ b3 = (e \div 16777216) % 256
        OBVIOUS
      <4>4. /\ EntryByte(x, c, 0) = b0 /\ EntryByte(x, c, 1) = b1
            /\ EntryByte(x, c, 2) = b2 /\ EntryByte(x, c, 3) = b3
        BY <3>7, <4>3
      <4>5. WideValue(x, c) = b0 + 256 * b1 + 65536 * (b2 + 256 * (b3 % 16))
        BY <4>2, <4>4
      <4>6. QED
        BY <4>3, <4>5
    <3>10. WideValue(x, c) = e
      BY <3>8, <3>9, Unpack32
    <3>11. QED
      BY <1>7, <1>11, <1>13, <3>10
  <2>3. QED
    BY <1>3, <1>13, <2>1, <2>2
<1>14. CASE /\ x.sect = EntrySect(c, 0) /\ fs.fs_type = 12
            /\ \E y \in move_window(x, EntrySect(c, 1)) :
                 \/ y.sect # EntrySect(c, 1) /\ g = [val |-> DiskError, win |-> y]
                 \/ y.sect = EntrySect(c, 1) /\ g = [val |-> PackedValue(x, y, c), win |-> y]
  <2>1. PICK y \in move_window(x, EntrySect(c, 1)) :
               \/ y.sect # EntrySect(c, 1) /\ g = [val |-> DiskError, win |-> y]
               \/ y.sect = EntrySect(c, 1) /\ g = [val |-> PackedValue(x, y, c), win |-> y]
    BY <1>14
  <2>2. /\ WindowOK(y) /\ (y.sect # EntrySect(c, 1) => MayFail)
        /\ y.sect = EntrySect(c, 1) => y.data = EntrySect(c, 1)
    BY <1>10, <1>11, MoveWindow
  <2>3. CASE y.sect # EntrySect(c, 1) /\ g = [val |-> DiskError, win |-> y]
    BY <2>2, <2>3
  <2>4. CASE y.sect = EntrySect(c, 1) /\ g = [val |-> PackedValue(x, y, c), win |-> y]
    <3>1. card.kind = 12
      BY <1>3, <1>14
    <3>2. PICK k \in Nat : (c = 2 * k /\ c % 2 = 0) \/ (c = 2 * k + 1 /\ c % 2 = 1)
      <4>1. c \in Nat
        OBVIOUS
      <4>2. QED
        BY <4>1, Parity
    <3>3. PICK a \in Nat, o \in Nat :
            a = FatEntry(2 * k) /\ o = FatEntry(2 * k + 1) /\ a < 4096 /\ o < 4096
      BY <1>1, <3>1, EntryFits, EndMarks
    <3>4. /\ Packed(3 * k) = a % 256 /\ Packed(3 * k + 1) = a \div 256 + 16 * (o % 16)
          /\ Packed(3 * k + 2) = o \div 16
      BY <3>1, <3>3, Bytes12
    <3>5. PICK p \in Nat : p = EntryStart(c) /\ p + 1 < n
                           /\ (c = 2 * k => p = 3 * k) /\ (c = 2 * k + 1 => p = 3 * k + 1)
      BY <1>3, <1>5, <1>6, <3>1, <3>2, SMT DEF EntryStart
    <3>6. p + 0 = p /\ p < n /\ p + 1 \in Nat
      BY <3>5
    <3>7. FatByte(x.data, EntryStart(c) % SS) = Packed(p)
      BY <1>2, <1>8, <1>11, <1>14, <3>5, <3>6 DEF EntrySect
    <3>8. EntryByte(y, c, 1) = Packed(p + 1)
      BY <1>2, <1>8, <2>2, <2>4, <3>5, <3>6 DEF EntrySect, EntryByte
    <3>9. PackedValue(x, y, c) =
            IF c % 2 = 1 THEN (Packed(p) + 256 * Packed(p + 1)) \div 16
            ELSE (Packed(p) + 256 * Packed(p + 1)) % 4096
      BY <3>7, <3>8 DEF PackedValue
    <3>10. CASE c = 2 * k /\ c % 2 = 0
      <4>1. PackedValue(x, y, c) = ((a % 256) + 256 * (a \div 256 + 16 * (o % 16))) % 4096
        BY <3>4, <3>5, <3>9, <3>10
      <4>2. PackedValue(x, y, c) = a
        BY <3>3, <4>1, Unpack
      <4>3. QED
        BY <2>2, <2>4, <3>3, <3>10, <4>2
    <3>11. CASE c = 2 * k + 1 /\ c % 2 = 1
      <4>1. p = 3 * k + 1 /\ p + 1 = 3 * k + 2
        BY <3>5, <3>11
      <4>2. PackedValue(x, y, c) = (a \div 256 + 16 * (o % 16) + 256 * (o \div 16)) \div 16
        <5>1. PICK lo, hi : lo = a \div 256 + 16 * (o % 16) /\ hi = o \div 16
          OBVIOUS
        <5>2. Packed(p) = lo /\ Packed(p + 1) = hi
          BY <3>4, <4>1, <5>1
        <5>3. PackedValue(x, y, c) = (lo + 256 * hi) \div 16
          BY <3>9, <3>11, <5>2
        <5>4. QED
          BY <5>1, <5>3
      <4>3. PackedValue(x, y, c) = o
        <5>1. (a \div 256 + 16 * (o % 16) + 256 * (o \div 16)) \div 16 = o
          BY <3>3, UnpackOdd
        <5>2. QED
          BY <4>2, <5>1, Zenon
      <4>4. QED
        BY <2>2, <2>4, <3>3, <3>11, <4>3
    <3>12. QED
      BY <3>2, <3>10, <3>11
  <2>5. QED
    BY <2>1, <2>3, <2>4
<1>15. QED
  BY <1>9, <1>12, <1>13, <1>14

-----------------------------------------------------------------------------
\* The types and the counts

\* What FATFS holds of card c.
VolumeOf(c) ==
  [fs_type |-> KindOf(nclst(c.bpb)), probe |-> 0, csize |-> c.bpb.csize,
   n_rootdir |-> c.bpb.rootent, n_fatent |-> nclst(c.bpb) + 2,
   fatbase |-> c.part + c.bpb.nrsv,
   dirbase |-> IF c.bpb.rootent = 0 THEN c.bpb.rootclus
               ELSE c.part + c.bpb.nrsv + c.bpb.fats * c.bpb.fatsz,
   database |-> c.part + sysect(c.bpb)]
VolumeInv ==
  /\ fs.probe \in 0 .. 4
  /\ \/ fs = [NoVolume EXCEPT !.probe = fs.probe]
     \/ /\ IsFatBoot(card.bpb) /\ IsVolume(card.bpb)
        /\ fs = [VolumeOf(card) EXCEPT !.probe = fs.probe]
  /\ op \in {"check", "geometry"} => fs.fs_type = 0
  /\ op = "geometry" => win.sect = card.part /\ IsFatBoot(card.bpb)

\* Every variable but those below holds a value of its type.
BaseInv ==
  /\ card \in Cards /\ board \in Boards
  /\ status \in {"noinit", "ready", "nodisk"}
  /\ WindowOK(win)
  /\ ioErrors \in 0 .. MaxErrors
  /\ buf \in [1 .. BufSize -> Bytes]
  /\ path \in DOMAIN Paths
  /\ mode \subseteq {"flash", "sdram", "sdcard", "write"}
  /\ hit \subseteq DOMAIN Paths
  /\ dp \in [sclust : Int, clust : Int, sect : Int, dptr : Nat, path : Seq(STRING)]
  /\ op = "find" => dp.path # <<>>
  /\ DOMAIN sdram = 0 .. SdramSize - 1

\* The loop that runs is the one main waits for.
StepInv ==
  /\ op \in {"idle", "check", "geometry", "find", "read"}
  /\ op \in {"check", "geometry"} => pc = "mounting"
  /\ op = "find" => pc = "opening"
  /\ op = "read" => pc = "reading"
  /\ pc \in {"start", "mount", "mounting", "open", "opening", "size", "read", "reading",
             "verify", "total", "started", "stopped"}
  /\ pc \in {"open", "opening", "size", "read", "reading", "verify", "total", "started"} =>
       fs.fs_type # 0
  /\ pc = "mounting" /\ op = "idle" /\ res = "ok" => fs.fs_type # 0
  /\ pc # "stopped" => screen = "black"

\* The open file is one of the card's.
FileInv ==
  /\ fil \in [obj : DOMAIN card.size \cup {"none"}, sclust : Nat, objsize : Nat, fptr : Nat,
              clust : Int, sect : Int, err : {"ok", "int_err", "disk_err"}]
  /\ fil.sclust < DiskError /\ fil.clust < DiskError /\ fil.fptr <= fil.objsize
  /\ fil.obj # "none" =>
       /\ fil.objsize = card.size[fil.obj]
       /\ fil.sclust = IF card.chains[fil.obj] = <<>> THEN 0 ELSE card.chains[fil.obj][1]
  /\ pc = "opening" /\ op = "idle" /\ res = "ok" => fil.obj # "none"
  /\ pc \in {"size", "read", "reading", "verify", "total", "started"} => fil.obj # "none"
  /\ pc \in {"start", "mount", "mounting", "open", "opening", "size"} =>
       fil.err = "ok" /\ fil.fptr = 0
  /\ pc \in {"read", "verify", "total", "started"} => fil.err = "ok"
  /\ pc = "reading" /\ (op = "read" \/ res = "ok") => fil.err = "ok"

\* How many bytes have been read and copied.
CountInv ==
  /\ total \in Nat /\ total <= fil.fptr
  /\ rd \in [btr : 0 .. BufSize, br : 0 .. BufSize]
  /\ pc \in {"start", "mount", "mounting", "open", "opening", "size"} => total = 0
  /\ pc \in {"size", "read", "total", "started"} => total = fil.fptr
  /\ pc \in {"reading", "verify"} => total + rd.br = fil.fptr
  /\ pc \in {"read", "reading", "verify", "total", "started"} =>
       fil.objsize <= MaxKernel /\ (total % BufSize = 0 \/ total = fil.objsize)
  /\ pc \in {"reading", "verify"} =>
       /\ rd.br + rd.btr <= BufSize /\ total + rd.br + rd.btr <= fil.objsize
       /\ rd.br + rd.btr = BufSize \/ total + rd.br + rd.btr = fil.objsize
  /\ pc = "reading" /\ op = "idle" /\ res = "ok" => rd.btr = 0
  /\ pc = "verify" => rd.btr = 0 /\ rd.br > 0
  /\ pc \in {"total", "started"} => total = fil.objsize

TypeInv == BaseInv /\ VolumeInv /\ StepInv /\ FileInv /\ CountInv

LEMMA TypeInit == Init => TypeInv
<1> SUFFICES ASSUME Init PROVE TypeInv
  OBVIOUS
<1>1. BaseInv
  <2>1. 1 \in DOMAIN Paths
    BY LoaderAssumption
  <2>2. ioErrors \in 0 .. MaxErrors
    BY FatFsAssumption DEF Init, FatInit
  <2>3. buf \in [1 .. BufSize -> Bytes]
    <3>1. NoByte \in Bytes
      BY DEF NoByte, Bytes
    <3>2. QED
      BY <3>1 DEF Init, FatInit
  <2>4. dp \in [sclust : Int, clust : Int, sect : Int, dptr : Nat, path : Seq(STRING)]
    BY DEF Init, FatInit, NoDir
  <2>5. WindowOK(win)
    BY InvalidWindow DEF Init, FatInit
  <2>6. QED
    BY <2>1, <2>2, <2>3, <2>4, <2>5 DEF BaseInv, Init, FatInit
<1>2. VolumeInv
  BY DEF VolumeInv, Init, FatInit, NoVolume
<1>3. StepInv
  BY DEF StepInv, Init, FatInit
<1>4. FileInv
  BY DEF FileInv, Init, FatInit, NoFile, DiskError
<1>5. CountInv
  BY SizeFacts DEF CountInv, Init, FatInit, NoFile
<1>6. QED
  BY <1>1, <1>2, <1>3, <1>4, <1>5 DEF TypeInv

\* The steps of main that do not call FatFs.
MainAlone ==
  \/ LoadDldi \/ NoParameters \/ Mounted \/ Opened \/ CheckSize
  \/ CopyBlock \/ NoBlock \/ Verify \/ CheckTotal

LEMMA FatStays ==
  ASSUME MainAlone
  PROVE  UNCHANGED fatVars /\ UNCHANGED board
<1>1. CASE LoadDldi
  BY <1>1 DEF LoadDldi
<1>2. CASE NoParameters
  BY <1>2 DEF NoParameters
<1>3. CASE Mounted
  BY <1>3 DEF Mounted
<1>4. CASE Opened
  BY <1>4 DEF Opened
<1>5. CASE CheckSize
  BY <1>5 DEF CheckSize
<1>6. CASE CopyBlock
  BY <1>6 DEF CopyBlock
<1>7. CASE NoBlock
  BY <1>7 DEF NoBlock
<1>8. CASE Verify
  BY <1>8 DEF Verify
<1>9. CASE CheckTotal
  BY <1>9 DEF CheckTotal
<1>10. QED
  BY <1>1, <1>2, <1>3, <1>4, <1>5, <1>6, <1>7, <1>8, <1>9 DEF MainAlone

LEMMA MainAloneTypes ==
  ASSUME TypeInv, MainAlone
  PROVE  TypeInv'
<1> USE DEF TypeInv
<1>1. UNCHANGED <<card, status, win, fs, dp, fil, rd, buf, op, res, ioErrors, board>>
  BY FatStays DEF fatVars
<1>2. VolumeInv'
  BY <1>1 DEF VolumeInv
<1>3. Bytes' = Bytes
  BY <1>1 DEF Bytes
<1>4. UNCHANGED hit /\ (path' = path \/ (path < Len(Paths) /\ path' = path + 1))
  BY DEF MainAlone, LoadDldi, NoParameters, Mounted, Opened, CheckSize, CopyBlock, NoBlock,
         Verify, CheckTotal
<1>5. path' \in DOMAIN Paths
  BY <1>4, LoaderAssumption DEF BaseInv
<1>6. DOMAIN sdram' = DOMAIN sdram
  BY DEF MainAlone, LoadDldi, NoParameters, Mounted, Opened, CheckSize, CopyBlock, NoBlock,
         Verify, CheckTotal
<1>7. mode' \subseteq {"flash", "sdram", "sdcard", "write"}
  BY DEF MainAlone, LoadDldi, NoParameters, Mounted, Opened, CheckSize, CopyBlock, NoBlock,
         Verify, CheckTotal, BaseInv
<1>8. BaseInv'
  BY <1>1, <1>3, <1>4, <1>5, <1>6, <1>7 DEF BaseInv, WindowOK
<1>9. CASE LoadDldi
  BY <1>1, <1>2, <1>8, <1>9 DEF LoadDldi, StepInv, FileInv, CountInv
<1>10. CASE NoParameters
  BY <1>1, <1>2, <1>8, <1>10 DEF NoParameters, Stop, StepInv, FileInv, CountInv
<1>11. CASE Mounted
  <2>1. StepInv'
    BY <1>1, <1>11 DEF Mounted, Stop, StepInv
  <2>2. FileInv'
    BY <1>1, <1>11 DEF Mounted, Stop, FileInv, StepInv
  <2>3. CountInv'
    BY <1>1, <1>11 DEF Mounted, Stop, CountInv
  <2>4. QED
    BY <1>2, <1>8, <2>1, <2>2, <2>3
<1>12. CASE Opened
  <2>1. StepInv'
    BY <1>1, <1>12 DEF Opened, Stop, StepInv
  <2>2. FileInv'
    BY <1>1, <1>12 DEF Opened, Stop, FileInv, StepInv
  <2>3. CountInv'
    BY <1>1, <1>12 DEF Opened, Stop, CountInv, FileInv
  <2>4. QED
    BY <1>2, <1>8, <2>1, <2>2, <2>3
<1>13. CASE CheckSize
  <2>1. StepInv'
    BY <1>1, <1>13 DEF CheckSize, Stop, StepInv
  <2>2. FileInv'
    BY <1>1, <1>13 DEF CheckSize, Stop, FileInv, StepInv
  <2>3. total = 0 /\ 0 % BufSize = 0
    BY <1>13, SizeFacts DEF CheckSize, CountInv
  <2>4. CountInv'
    BY <1>1, <1>13, <2>3, LoaderAssumption DEF CheckSize, Stop, CountInv, FileInv
  <2>5. QED
    BY <1>2, <1>8, <2>1, <2>2, <2>4
<1>14. CASE CopyBlock
  <2>1. StepInv'
    BY <1>1, <1>14 DEF CopyBlock, Stop, StepInv
  <2>2. FileInv'
    BY <1>1, <1>14 DEF CopyBlock, Stop, FileInv, StepInv
  <2>3. CountInv'
    BY <1>1, <1>14 DEF CopyBlock, Stop, CountInv
  <2>4. QED
    BY <1>2, <1>8, <2>1, <2>2, <2>3
<1>15. CASE NoBlock
  <2>1. StepInv'
    BY <1>1, <1>15 DEF NoBlock, Stop, StepInv
  <2>2. FileInv'
    BY <1>1, <1>15 DEF NoBlock, Stop, FileInv, StepInv
  <2>3. CountInv'
    BY <1>1, <1>15, SizeFacts DEF NoBlock, Stop, CountInv
  <2>4. QED
    BY <1>2, <1>8, <2>1, <2>2, <2>3
<1>16. CASE Verify
  <2>1. StepInv'
    BY <1>1, <1>16 DEF Verify, Stop, StepInv
  <2>2. FileInv'
    BY <1>1, <1>16 DEF Verify, Stop, FileInv, StepInv
  <2>3. CountInv'
    BY <1>1, <1>16, SizeFacts DEF Verify, Stop, CountInv
  <2>4. QED
    BY <1>2, <1>8, <2>1, <2>2, <2>3
<1>17. CASE CheckTotal
  <2>1. StepInv'
    BY <1>1, <1>17 DEF CheckTotal, Stop, StepInv
  <2>2. FileInv'
    BY <1>1, <1>17 DEF CheckTotal, Stop, FileInv, StepInv
  <2>3. CountInv'
    BY <1>1, <1>17 DEF CheckTotal, Stop, CountInv
  <2>4. QED
    BY <1>2, <1>8, <2>1, <2>2, <2>3
<1>18. QED
  BY <1>9, <1>10, <1>11, <1>12, <1>13, <1>14, <1>15, <1>16, <1>17 DEF MainAlone

\* What FATFS says are numbers.
LEMMA VolumeTypes ==
  ASSUME TypeInv
  PROVE  /\ fs.fs_type \in {0, 12, 16, 32} /\ fs.csize \in Nat /\ fs.n_rootdir \in Nat
         /\ fs.n_fatent \in Nat /\ fs.n_fatent <= 268435447
         /\ fs.fatbase \in Nat /\ fs.dirbase \in Nat /\ fs.database \in Nat
         /\ fs.probe \in 0 .. 4
         /\ fs.fs_type # 0 => fs.csize # 0 /\ fs.n_fatent = nclst(card.bpb) + 2
                              /\ IsFatBoot(card.bpb) /\ IsVolume(card.bpb)
                              /\ fs = [VolumeOf(card) EXCEPT !.probe = fs.probe]
<1>1. card \in Cards /\ fs.probe \in 0 .. 4
  BY DEF TypeInv, BaseInv, VolumeInv
<1>2. CASE fs = [NoVolume EXCEPT !.probe = fs.probe]
  BY <1>1, <1>2 DEF NoVolume
<1>3. CASE /\ IsFatBoot(card.bpb) /\ IsVolume(card.bpb)
           /\ fs = [VolumeOf(card) EXCEPT !.probe = fs.probe]
  <2>1. PICK p \in Nat, n \in Nat, m \in Nat, y \in Nat, z \in Nat \ {0}, r \in Nat, k \in Nat :
          /\ p = card.part /\ n = card.bpb.nrsv /\ m = card.bpb.fats * card.bpb.fatsz
          /\ y = sysect(card.bpb) /\ z = card.bpb.csize /\ r = card.bpb.rootclus
          /\ k = nclst(card.bpb)
    BY <1>1, <1>3, BpbFacts, Clusters, VolumeFacts
  <2>2. k <= 268435445 /\ KindOf(k) \in {12, 16, 32} /\ card.bpb.rootent \in Nat
    BY <1>1, <1>3, <2>1, BpbFacts, VolumeFacts
  <2>3. fs = [fs_type |-> KindOf(k), probe |-> fs.probe, csize |-> z, n_rootdir |-> card.bpb.rootent,
              n_fatent |-> k + 2, fatbase |-> p + n,
              dirbase |-> IF card.bpb.rootent = 0 THEN r ELSE p + n + m, database |-> p + y]
    BY <1>3, <2>1 DEF VolumeOf
  <2>4. fs.dirbase = IF card.bpb.rootent = 0 THEN r ELSE p + n + m
    BY <2>3
  <2>5. fs.dirbase \in Nat
    BY <2>4
  <2>6. /\ fs.fs_type = KindOf(k) /\ fs.csize = z /\ fs.n_rootdir = card.bpb.rootent
        /\ fs.n_fatent = k + 2 /\ fs.fatbase = p + n /\ fs.database = p + y
    BY <2>3
  <2>7. QED
    BY <1>1, <1>3, <2>1, <2>2, <2>5, <2>6
<1>4. QED
  BY <1>2, <1>3 DEF TypeInv, VolumeInv

LEMMA ClusterSector ==
  ASSUME TypeInv, NEW c \in Int
  PROVE  clst2sect(c) \in Nat
<1>1. CASE c - 2 \in 0 .. fs.n_fatent - 3
  <2>1. PICK z \in Nat, d \in Nat, q \in Nat : z = fs.csize /\ d = fs.database /\ q = c - 2
    BY <1>1, VolumeTypes
  <2>2. z * q \in Nat
    BY Product
  <2>3. QED
    BY <1>1, <2>1, <2>2 DEF clst2sect
<1>2. CASE ~(c - 2 \in 0 .. fs.n_fatent - 3)
  BY <1>2 DEF clst2sect
<1>3. QED
  BY <1>1, <1>2

\* The values of dp.
Dirs == [sclust : Int, clust : Int, sect : Int, dptr : Nat, path : Seq(STRING)]

LEMMA DirStart ==
  ASSUME TypeInv, NEW c \in Int, NEW p \in Seq(STRING)
  PROVE  dir_sdi(c, p) \in Dirs
<1>1. PICK b \in Int : b = fs.dirbase
  BY VolumeTypes
<1>2. PICK k \in Int : k = IF c = 0 /\ fs.fs_type = 32 THEN fs.dirbase ELSE c
  BY <1>1
<1>3. PICK s \in Int : s = IF k = 0 THEN fs.dirbase ELSE clst2sect(k)
  BY <1>1, ClusterSector
<1>4. dir_sdi(c, p) = [sclust |-> c, clust |-> k, dptr |-> 0, path |-> p, sect |-> s]
  BY <1>2, <1>3 DEF dir_sdi
<1>5. QED
  BY <1>4 DEF Dirs

\* A failure is counted.
LEMMA Counted ==
  ASSUME ioErrors \in 0 .. MaxErrors, NEW b \in BOOLEAN, b => MayFail, Count(b)
  PROVE  ioErrors' \in 0 .. MaxErrors /\ (b <=> ioErrors' # ioErrors)
<1>1. PICK e \in Nat, m \in Nat : e = ioErrors /\ m = MaxErrors
  BY FatFsAssumption
<1>2. ioErrors' = e + (IF b THEN 1 ELSE 0)
  BY <1>1 DEF Count
<1>3. QED
  BY <1>1, <1>2 DEF MayFail

\* What a step of FatFs leaves alone.
MainStays ==
  UNCHANGED <<board, driver, mode, pc, path, total, sdram, screen>> /\ hit' \subseteq DOMAIN Paths

LEMMA BaseKept ==
  ASSUME BaseInv, MainStays, card' = card, status' = status, WindowOK(win'),
         ioErrors' \in 0 .. MaxErrors, buf' \in [1 .. BufSize -> Bytes], dp' \in Dirs,
         op' = "find" => dp'.path # <<>>
  PROVE  BaseInv'
<1>1. Bytes' = Bytes
  BY DEF Bytes
<1>2. QED
  BY <1>1 DEF BaseInv, MainStays, WindowOK, Dirs

\* Mount, Open and Read.
LEMMA MountTypes ==
  ASSUME TypeInv, Mount
  PROVE  TypeInv'
<1>1. PICK started \in BOOLEAN :
        f_mount(started) /\ mode' = IF started THEN {"sdram", "sdcard"} ELSE mode
  BY DEF Mount
<1>2. /\ UNCHANGED <<card, dp, fil, rd, buf, ioErrors, board, driver, path, total, sdram, screen, hit>>
      /\ fs' = NoVolume /\ win' = Invalid /\ pc = "mount" /\ pc' = "mounting" /\ op = "idle"
      /\ (op' = "check" \/ (op' = "idle" /\ res' = "not_ready"))
      /\ status' \in {"ready", "nodisk", "noinit"}
  BY <1>1 DEF Mount, f_mount, Return, disk_initialize
<1>3. BaseInv'
  <2>1. Bytes' = Bytes
    BY <1>2 DEF Bytes
  <2>2. WindowOK(win)'
    BY <1>2, InvalidWindow DEF WindowOK
  <2>3. mode' \subseteq {"flash", "sdram", "sdcard", "write"}
    BY <1>1 DEF TypeInv, BaseInv
  <2>4. QED
    BY <1>2, <2>1, <2>2, <2>3 DEF TypeInv, BaseInv
<1>4. VolumeInv'
  BY <1>2 DEF VolumeInv, NoVolume
<1>5. StepInv'
  BY <1>2 DEF TypeInv, StepInv
<1>6. FileInv'
  BY <1>2 DEF TypeInv, FileInv
<1>7. CountInv'
  BY <1>2 DEF TypeInv, CountInv
<1>8. QED
  BY <1>3, <1>4, <1>5, <1>6, <1>7 DEF TypeInv

LEMMA OpenTypes ==
  ASSUME TypeInv, Open
  PROVE  TypeInv'
<1>1. /\ UNCHANGED <<card, status, win, fs, rd, buf, ioErrors, board, driver, mode, path, total,
                     sdram, screen, hit>>
      /\ pc = "open" /\ pc' = "opening" /\ fil' = NoFile /\ fs.fs_type # 0
      /\ dp' = dir_sdi(0, Paths[path])
      /\ (op' = "find" \/ (op' = "idle" /\ res' = "int_err"))
  BY DEF Open, f_open, StartFind, Return
<1>2. Paths[path] \in Seq(STRING) /\ Paths[path] # <<>>
  <2>1. path \in DOMAIN Paths
    BY DEF TypeInv, BaseInv
  <2>2. Len(Paths[path]) \in {1, 2}
    BY <2>1, LoaderAssumption
  <2>3. Paths[path] \in Seq(STRING)
    <3>1. Paths \in Seq(Seq(STRING))
      BY LoaderAssumption
    <3>2. QED
      BY <2>1, <3>1
  <2>4. Len(<<>>) = 0 /\ 0 \notin {1, 2}
    OBVIOUS
  <2>5. QED
    BY <2>2, <2>3, <2>4, Zenon
<1>3. dp' \in Dirs /\ dp'.path # <<>>
  <2>1. dp' \in Dirs
    BY <1>1, <1>2, DirStart
  <2>2. dp'.path = Paths[path]
    BY <1>1 DEF dir_sdi
  <2>3. QED
    BY <1>2, <2>1, <2>2
<1>4. BaseInv'
  <2>1. Bytes' = Bytes
    BY <1>1 DEF Bytes
  <2>2. QED
    BY <1>1, <1>3, <2>1 DEF TypeInv, BaseInv, WindowOK, Dirs
<1>5. VolumeInv'
  BY <1>1 DEF TypeInv, VolumeInv
<1>6. StepInv'
  BY <1>1 DEF TypeInv, StepInv
<1>7. FileInv'
  BY <1>1 DEF TypeInv, FileInv, NoFile, DiskError
<1>8. CountInv'
  BY <1>1 DEF TypeInv, CountInv, NoFile
<1>9. QED
  BY <1>4, <1>5, <1>6, <1>7, <1>8 DEF TypeInv

\* The lesser of two numbers.
LEMMA MinIs ==
  ASSUME NEW a \in Int, NEW b \in Int
  PROVE  Min({a, b}) = IF a <= b THEN a ELSE b
BY DEF Min

LEMMA ReadTypes ==
  ASSUME TypeInv, Read
  PROVE  /\ TypeInv'
         /\ UNCHANGED <<card, status, win, fs, dp, fil, buf, ioErrors, board, driver, mode, path,
                        total, sdram, screen, hit, res>>
         /\ pc' = "reading" /\ op' = "read" /\ pc = "read" /\ rd'.br = 0
<1>1. /\ UNCHANGED <<card, status, win, fs, dp, fil, buf, ioErrors, board, driver, mode, path, total,
                     sdram, screen, hit, res>>
      /\ pc = "read" /\ pc' = "reading" /\ op' = "read" /\ fil.err = "ok"
      /\ rd' = [btr |-> Min({BufSize, fil.objsize - fil.fptr}), br |-> 0]
  BY DEF Read, f_read
<1>2. PICK b \in Nat, n \in Nat : b = BufSize /\ n = fil.objsize - fil.fptr
  BY SizeFacts DEF TypeInv, FileInv
<1>3. PICK m \in Nat : m = Min({b, n}) /\ m <= b /\ m <= n /\ (m = b \/ m = n)
  BY MinIs
<1>4. rd' = [btr |-> m, br |-> 0]
  BY <1>1, <1>2, <1>3
<1>5. BaseInv'
  <2>1. Bytes' = Bytes
    BY <1>1 DEF Bytes
  <2>2. QED
    BY <1>1, <2>1 DEF TypeInv, BaseInv, WindowOK
<1>6. VolumeInv'
  BY <1>1 DEF TypeInv, VolumeInv
<1>7. StepInv'
  BY <1>1 DEF TypeInv, StepInv
<1>8. FileInv'
  BY <1>1 DEF TypeInv, FileInv
<1>9. CountInv'
  <2>1. PICK t \in Nat, f \in Nat, o \in Nat : t = total /\ f = fil.fptr /\ o = fil.objsize
    BY DEF TypeInv, CountInv, FileInv
  <2>2. t = f /\ n = o - f /\ f <= o /\ o <= MaxKernel /\ (t % BufSize = 0 \/ t = o)
    BY <1>1, <1>2, <2>1 DEF TypeInv, CountInv, FileInv
  <2>3. rd' \in [btr : 0 .. BufSize, br : 0 .. BufSize] /\ rd'.br = 0 /\ rd'.btr = m
    BY <1>2, <1>3, <1>4
  <2>4. QED
    BY <1>1, <1>2, <1>3, <2>1, <2>2, <2>3 DEF CountInv
<1>10. QED
  BY <1>1, <1>4, <1>5, <1>6, <1>7, <1>8, <1>9 DEF TypeInv

\* The steps of FatFs.
LEMMA FatIs ==
  ASSUME TypeInv, Fat
  PROVE  /\ MainStays /\ FatStep /\ pc \in {"mounting", "opening", "reading"}
         /\ hit' = IF pc = "opening" /\ ioErrors' # ioErrors THEN hit \cup {path} ELSE hit
BY DEF Fat, MainStays, TypeInv, BaseInv

\* Only the sector that holds the volume's boot sector is taken for one.
LEMMA BootOnly ==
  ASSUME NEW s
  PROVE  IsFatBoot(Boot(s)) => s = card.part /\ Boot(s) = card.bpb
<1>1. CASE s = card.part
  BY <1>1 DEF Boot
<1>2. CASE s # card.part
  <2>1. Boot(s) = NoBpb \/ Boot(s) = [NoBpb EXCEPT !.sig = TRUE]
    BY <1>2 DEF Boot
  <2>2. Boot(s).jmp = FALSE
    BY <2>1 DEF NoBpb
  <2>3. QED
    BY <2>2 DEF IsFatBoot
<1>3. QED
  BY <1>1, <1>2

\* A turn of find_volume: the sector it looks at, the window and the verdict.
LEMMA FindVolumeIs ==
  ASSUME TypeInv, find_volume
  PROVE  \E s \in Nat, fmt \in {0, 2, 3, 4} :
           /\ s = IF fs.probe = 0 THEN 0 ELSE card.table[fs.probe]
           /\ WindowOK(win') /\ Count(fmt = 4) /\ (fmt = 4 => MayFail)
           /\ fmt = 0 => win'.sect = s /\ IsFatBoot(Boot(s)) /\ ~(fs.probe > 0 /\ s = 0)
           /\ fmt \in {2, 3} /\ ~(fs.probe > 0 /\ s = 0) => ~IsFatBoot(Boot(s))
           /\ fmt = 3 /\ ~(fs.probe > 0 /\ s = 0) => ~Boot(s).sig
           /\ \/ fmt = 0 /\ op' = "geometry" /\ UNCHANGED <<fs, res>>
              \/ /\ fmt # 0 /\ (IF fs.probe = 0 THEN fmt = 2 ELSE fs.probe < 4)
                 /\ fs' = [fs EXCEPT !.probe = @ + 1] /\ UNCHANGED <<op, res>>
              \/ /\ fmt # 0 /\ ~(IF fs.probe = 0 THEN fmt = 2 ELSE fs.probe < 4)
                 /\ op' = "idle" /\ res' \in {"disk_err", "no_filesystem"} /\ UNCHANGED fs
<1>1. PICK s : /\ s = IF fs.probe = 0 THEN 0 ELSE card.table[fs.probe]
               /\ \E w \in IF fs.probe > 0 /\ s = 0 THEN {win} ELSE move_window(Invalid, s) :
                  \E fmt \in {IF fs.probe > 0 /\ s = 0 THEN 3 ELSE check_fs(w, s)} :
                    /\ win' = w /\ Count(fmt = 4)
                    /\ \E next \in {fmt # 0 /\ (IF fs.probe = 0 THEN fmt = 2 ELSE fs.probe < 4)} :
                       \/ /\ fmt = 0
                          /\ op' = "geometry" /\ UNCHANGED <<fs, res>>
                       \/ /\ next
                          /\ fs' = [fs EXCEPT !.probe = @ + 1] /\ UNCHANGED <<op, res>>
                       \/ /\ fmt # 0 /\ ~next
                          /\ Return(IF fmt = 4 THEN "disk_err" ELSE "no_filesystem")
                          /\ UNCHANGED fs
  BY DEF find_volume
<1>2. PICK w \in IF fs.probe > 0 /\ s = 0 THEN {win} ELSE move_window(Invalid, s) :
        \E fmt \in {IF fs.probe > 0 /\ s = 0 THEN 3 ELSE check_fs(w, s)} :
          /\ win' = w /\ Count(fmt = 4)
          /\ \E next \in {fmt # 0 /\ (IF fs.probe = 0 THEN fmt = 2 ELSE fs.probe < 4)} :
             \/ /\ fmt = 0
                /\ op' = "geometry" /\ UNCHANGED <<fs, res>>
             \/ /\ next
                /\ fs' = [fs EXCEPT !.probe = @ + 1] /\ UNCHANGED <<op, res>>
             \/ /\ fmt # 0 /\ ~next
                /\ Return(IF fmt = 4 THEN "disk_err" ELSE "no_filesystem")
                /\ UNCHANGED fs
  BY <1>1
<1>3. PICK fmt :
        /\ fmt = IF fs.probe > 0 /\ s = 0 THEN 3 ELSE check_fs(w, s)
        /\ win' = w /\ Count(fmt = 4)
        /\ \/ fmt = 0 /\ op' = "geometry" /\ UNCHANGED <<fs, res>>
           \/ /\ fmt # 0 /\ (IF fs.probe = 0 THEN fmt = 2 ELSE fs.probe < 4)
              /\ fs' = [fs EXCEPT !.probe = @ + 1] /\ UNCHANGED <<op, res>>
           \/ /\ fmt # 0 /\ ~(IF fs.probe = 0 THEN fmt = 2 ELSE fs.probe < 4)
              /\ Return(IF fmt = 4 THEN "disk_err" ELSE "no_filesystem") /\ UNCHANGED fs
  BY <1>2
<1>4. s \in Nat
  <2>1. fs.probe \in 0 .. 4 /\ card \in Cards
    BY VolumeTypes DEF TypeInv, BaseInv
  <2>2. card.table \in [1 .. 4 -> Nat]
    BY <2>1, BpbFacts
  <2>3. QED
    BY <1>1, <2>1, <2>2
<1>5. /\ fmt \in {0, 2, 3, 4} /\ WindowOK(w) /\ (fmt = 4 => MayFail)
      /\ fmt = 0 => w.sect = s /\ IsFatBoot(Boot(s)) /\ ~(fs.probe > 0 /\ s = 0)
      /\ fmt \in {2, 3} /\ ~(fs.probe > 0 /\ s = 0) => ~IsFatBoot(Boot(s))
      /\ fmt = 3 /\ ~(fs.probe > 0 /\ s = 0) => ~Boot(s).sig
  <2>1. CASE fs.probe > 0 /\ s = 0
    BY <1>2, <1>3, <2>1 DEF TypeInv, BaseInv
  <2>2. CASE ~(fs.probe > 0 /\ s = 0)
    <3>1. w \in move_window(Invalid, s)
      BY <2>2
    <3>2. WindowOK(w) /\ (w.sect # s => MayFail) /\ (w.sect = s => w.data = s)
      BY <1>4, <3>1, InvalidWindow, MoveWindow
    <3>3. fmt = check_fs(w, s)
      BY <1>3, <2>2
    <3>4. fmt \in {0, 2, 3, 4} /\ (fmt = 4 => w.sect # s)
          /\ (fmt = 0 => w.sect = s /\ IsFatBoot(Boot(w.data)))
          /\ (fmt \in {2, 3} => w.sect = s /\ ~IsFatBoot(Boot(w.data)))
          /\ (fmt = 3 => w.sect = s /\ ~Boot(w.data).sig)
      BY <3>3 DEF check_fs
    <3>5. QED
      BY <2>2, <3>2, <3>4
  <2>3. QED
    BY <2>1, <2>2
<1>6. QED
  BY <1>1, <1>3, <1>4, <1>5 DEF Return

LEMMA FindVolumeTypes ==
  ASSUME TypeInv, MainStays, find_volume, pc = "mounting"
  PROVE  TypeInv'
<1>1. PICK s \in Nat, fmt \in {0, 2, 3, 4} :
        /\ s = IF fs.probe = 0 THEN 0 ELSE card.table[fs.probe]
        /\ WindowOK(win') /\ Count(fmt = 4) /\ (fmt = 4 => MayFail)
        /\ fmt = 0 => win'.sect = s /\ IsFatBoot(Boot(s)) /\ ~(fs.probe > 0 /\ s = 0)
        /\ \/ fmt = 0 /\ op' = "geometry" /\ UNCHANGED <<fs, res>>
           \/ /\ fmt # 0 /\ (IF fs.probe = 0 THEN fmt = 2 ELSE fs.probe < 4)
              /\ fs' = [fs EXCEPT !.probe = @ + 1] /\ UNCHANGED <<op, res>>
           \/ /\ fmt # 0 /\ ~(IF fs.probe = 0 THEN fmt = 2 ELSE fs.probe < 4)
              /\ op' = "idle" /\ res' \in {"disk_err", "no_filesystem"} /\ UNCHANGED fs
  BY FindVolumeIs
<1>2. UNCHANGED <<card, status, dp, fil, rd, buf>> /\ op = "check"
  BY DEF find_volume
<1>3. BaseInv'
  <2>1. ioErrors' \in 0 .. MaxErrors
    <3>1. ioErrors \in 0 .. MaxErrors
      BY DEF TypeInv, BaseInv
    <3>2. QED
      BY <1>1, <3>1, Counted
  <2>2. dp' \in Dirs /\ buf' \in [1 .. BufSize -> Bytes] /\ op' # "find"
    BY <1>1, <1>2 DEF TypeInv, BaseInv, Dirs
  <2>3. QED
    BY <1>1, <1>2, <2>1, <2>2, BaseKept DEF TypeInv
<1>4. VolumeInv'
  <2>1. fs.fs_type = 0 /\ fs.probe \in 0 .. 4
    BY <1>2, VolumeTypes DEF TypeInv, VolumeInv
  <2>2. fs = [NoVolume EXCEPT !.probe = fs.probe]
    <3>1. IsVolume(card.bpb) => KindOf(nclst(card.bpb)) # 0
      BY DEF IsVolume
    <3>2. IsVolume(card.bpb) => ~(fs = [VolumeOf(card) EXCEPT !.probe = fs.probe])
      BY <2>1, <3>1 DEF VolumeOf
    <3>3. QED
      BY <3>2 DEF TypeInv, VolumeInv
  <2>3. fs'.probe \in 0 .. 4 /\ fs' = [NoVolume EXCEPT !.probe = fs'.probe] /\ fs'.fs_type = 0
    <3>1. CASE fs' = fs
      BY <2>1, <2>2, <3>1
    <3>2. CASE fs' = [fs EXCEPT !.probe = @ + 1] /\ fs.probe \in 0 .. 3
      BY <2>1, <2>2, <3>2 DEF NoVolume
    <3>3. (IF fs.probe = 0 THEN TRUE ELSE fs.probe < 4) => fs.probe \in 0 .. 3
      BY <2>1
    <3>4. QED
      BY <1>1, <3>1, <3>2, <3>3
  <2>4. op' = "geometry" => win'.sect = card'.part /\ IsFatBoot(card'.bpb)
    <3>1. op' = "geometry" => fmt = 0
      BY <1>1, <1>2
    <3>2. QED
      BY <1>1, <1>2, <3>1, BootOnly
  <2>5. QED
    BY <2>3, <2>4 DEF VolumeInv
<1>5. StepInv'
  BY <1>1, <1>2, <1>4 DEF TypeInv, StepInv, MainStays
<1>6. FileInv'
  BY <1>1, <1>2 DEF TypeInv, FileInv, MainStays
<1>7. CountInv'
  BY <1>1, <1>2 DEF TypeInv, CountInv, MainStays
<1>8. QED
  BY <1>3, <1>4, <1>5, <1>6, <1>7 DEF TypeInv

\* mount_volume fills in FATFS, or refuses.
LEMMA MountVolumeIs ==
  ASSUME TypeInv, mount_volume
  PROVE  /\ fs = [NoVolume EXCEPT !.probe = fs.probe]
         /\ \/ /\ IsVolume(card.bpb) /\ op' = "idle" /\ res' = "ok"
               /\ fs' = [VolumeOf(card) EXCEPT !.probe = fs.probe]
            \/ ~IsVolume(card.bpb) /\ op' = "idle" /\ res' = "no_filesystem" /\ UNCHANGED fs
<1>1. op = "geometry" /\ win.sect = card.part /\ fs.fs_type = 0
  BY DEF mount_volume, TypeInv, VolumeInv
<1>2. win.data = card.part
  BY <1>1 DEF TypeInv, BaseInv, WindowOK
<1>3. Boot(win.data) = card.bpb
  BY <1>2 DEF Boot
<1>4. fs = [NoVolume EXCEPT !.probe = fs.probe]
  <2>1. IsVolume(card.bpb) => KindOf(nclst(card.bpb)) # 0
    BY DEF IsVolume
  <2>2. IsVolume(card.bpb) => ~(fs = [VolumeOf(card) EXCEPT !.probe = fs.probe])
    BY <1>1, <2>1 DEF VolumeOf
  <2>3. QED
    BY <2>2 DEF TypeInv, VolumeInv
<1>5. \/ /\ IsVolume(card.bpb) /\ op' = "idle" /\ res' = "ok"
         /\ fs' = [fs EXCEPT !.fs_type = KindOf(nclst(card.bpb)), !.csize = card.bpb.csize,
                     !.n_rootdir = card.bpb.rootent, !.n_fatent = nclst(card.bpb) + 2,
                     !.fatbase = win.sect + card.bpb.nrsv,
                     !.database = win.sect + sysect(card.bpb),
                     !.dirbase = IF card.bpb.rootent = 0 THEN card.bpb.rootclus
                                 ELSE win.sect + card.bpb.nrsv + card.bpb.fats * card.bpb.fatsz]
      \/ ~IsVolume(card.bpb) /\ op' = "idle" /\ res' = "no_filesystem" /\ UNCHANGED fs
  <2>1. PICK b : b = Boot(win.data)
    OBVIOUS
  <2>2. \/ /\ IsVolume(b) /\ op' = "idle" /\ res' = "ok"
           /\ fs' = [fs EXCEPT !.fs_type = KindOf(nclst(b)), !.csize = b.csize,
                       !.n_rootdir = b.rootent, !.n_fatent = nclst(b) + 2,
                       !.fatbase = win.sect + b.nrsv, !.database = win.sect + sysect(b),
                       !.dirbase = IF b.rootent = 0 THEN b.rootclus
                                   ELSE win.sect + b.nrsv + b.fats * b.fatsz]
        \/ ~IsVolume(b) /\ op' = "idle" /\ res' = "no_filesystem" /\ UNCHANGED fs
    BY <2>1 DEF mount_volume, Return
  <2>3. QED
    BY <1>3, <2>1, <2>2
<1>6. CASE IsVolume(card.bpb)
  <2>1. PICK k, z, r, n, f, d, i :
          /\ k = KindOf(nclst(card.bpb)) /\ z = card.bpb.csize /\ r = card.bpb.rootent
          /\ n = nclst(card.bpb) + 2 /\ f = card.part + card.bpb.nrsv
          /\ d = card.part + sysect(card.bpb)
          /\ i = IF card.bpb.rootent = 0 THEN card.bpb.rootclus
                 ELSE card.part + card.bpb.nrsv + card.bpb.fats * card.bpb.fatsz
    OBVIOUS
  <2>2. fs' = [fs EXCEPT !.fs_type = k, !.csize = z, !.n_rootdir = r, !.n_fatent = n,
                         !.fatbase = f, !.database = d, !.dirbase = i]
    BY <1>1, <1>5, <1>6, <2>1
  <2>3. fs = [fs_type |-> 0, probe |-> fs.probe, csize |-> 0, n_rootdir |-> 0, n_fatent |-> 0,
              fatbase |-> 0, dirbase |-> 0, database |-> 0]
    BY <1>4 DEF NoVolume
  <2>4. fs' = [fs_type |-> k, probe |-> fs.probe, csize |-> z, n_rootdir |-> r, n_fatent |-> n,
               fatbase |-> f, dirbase |-> i, database |-> d]
    BY <2>2, <2>3
  <2>5. VolumeOf(card) = [fs_type |-> k, probe |-> 0, csize |-> z, n_rootdir |-> r,
                          n_fatent |-> n, fatbase |-> f, dirbase |-> i, database |-> d]
    BY <2>1 DEF VolumeOf
  <2>6. fs' = [VolumeOf(card) EXCEPT !.probe = fs.probe]
    BY <2>4, <2>5
  <2>7. QED
    BY <1>4, <1>5, <1>6, <2>6
<1>7. QED
  BY <1>4, <1>5, <1>6

LEMMA MountVolumeTypes ==
  ASSUME TypeInv, MainStays, mount_volume, pc = "mounting"
  PROVE  TypeInv'
<1>1. /\ fs = [NoVolume EXCEPT !.probe = fs.probe]
      /\ \/ /\ IsVolume(card.bpb) /\ op' = "idle" /\ res' = "ok"
            /\ fs' = [VolumeOf(card) EXCEPT !.probe = fs.probe]
         \/ ~IsVolume(card.bpb) /\ op' = "idle" /\ res' = "no_filesystem" /\ UNCHANGED fs
  BY MountVolumeIs
<1>2. UNCHANGED <<card, status, win, dp, fil, rd, buf, ioErrors>> /\ op = "geometry"
  BY DEF mount_volume
<1>3. BaseInv'
  BY <1>1, <1>2, BaseKept DEF TypeInv, BaseInv, WindowOK, Dirs
<1>4. VolumeInv' /\ (res' = "ok" => fs'.fs_type # 0)
  <2>1. IsFatBoot(card.bpb) /\ fs.probe \in 0 .. 4
    BY <1>2 DEF TypeInv, VolumeInv
  <2>2. CASE /\ IsVolume(card.bpb) /\ op' = "idle" /\ res' = "ok"
             /\ fs' = [VolumeOf(card) EXCEPT !.probe = fs.probe]
    <3>1. KindOf(nclst(card.bpb)) # 0
      BY <2>2 DEF IsVolume
    <3>2. fs'.probe = fs.probe /\ fs'.fs_type # 0
      BY <2>2, <3>1 DEF VolumeOf
    <3>3. QED
      BY <1>2, <2>1, <2>2, <3>2 DEF VolumeInv
  <2>3. CASE ~IsVolume(card.bpb) /\ op' = "idle" /\ res' = "no_filesystem" /\ UNCHANGED fs
    BY <1>1, <1>2, <2>1, <2>3 DEF VolumeInv
  <2>4. QED
    BY <1>1, <2>2, <2>3
<1>5. StepInv'
  BY <1>1, <1>2, <1>4 DEF TypeInv, StepInv, MainStays
<1>6. FileInv'
  BY <1>1, <1>2 DEF TypeInv, FileInv, MainStays
<1>7. CountInv'
  BY <1>1, <1>2 DEF TypeInv, CountInv, MainStays
<1>8. QED
  BY <1>3, <1>4, <1>5, <1>6, <1>7 DEF TypeInv

\* What an entry names.
LEMMA EntryFacts ==
  ASSUME card \in Cards, NEW e, ProperEntry(card, e), e.name # "last", e.attr # "label"
  PROVE  /\ e.attr \in {"file", "dir"}
         /\ e.attr = "file" => e.obj \in DOMAIN card.size
         /\ e.attr = "dir" => /\ e.obj \in DOMAIN card.dirs /\ e.obj # "root"
                              /\ 1 \in DOMAIN card.chains[e.obj]
                              /\ ld_clust(e) = card.chains[e.obj][1]
                              /\ ld_clust(e) \in Nat \ {0, 1}
         /\ ld_clust(e) \in Nat /\ ld_clust(e) < DiskError
         /\ ld_clust(e) = IF card.chains[e.obj] = <<>> THEN 0 ELSE card.chains[e.obj][1]
<1>1. /\ e.attr \in {"file", "dir"}
      /\ e.attr = "file" => e.obj \in DOMAIN card.size
      /\ e.attr = "dir" => e.obj \in DOMAIN card.dirs /\ e.obj # "root" /\ card.chains[e.obj] # <<>>
  <2>1. e # Last
    BY DEF Last
  <2>2. QED
    BY <2>1 DEF ProperEntry
<1>2. e.obj \in DOMAIN card.chains
  BY <1>1, ObjectFacts
<1>3. ld_clust(e) = IF card.chains[e.obj] = <<>> THEN 0 ELSE card.chains[e.obj][1]
  BY DEF ld_clust
<1>4. card.chains[e.obj] # <<>> => 1 \in DOMAIN card.chains[e.obj]
  <2>1. card.chains[e.obj] \in Seq(2 .. EndMark(card.kind) - 1)
    BY <1>2, ObjectFacts
  <2>2. QED
    BY <2>1
<1>5. card.chains[e.obj] # <<>> =>
        card.chains[e.obj][1] \in Nat \ {0, 1} /\ card.chains[e.obj][1] < EndMark(card.kind)
  BY <1>2, <1>4, ChainNumbers
<1>6. EndMark(card.kind) \in Nat /\ EndMark(card.kind) <= 268435455
  BY EndMarks
<1>7. ld_clust(e) \in Nat /\ ld_clust(e) < DiskError
  BY <1>3, <1>5, <1>6 DEF DiskError
<1>8. QED
  BY <1>1, <1>3, <1>4, <1>5, <1>7

\* The window in which the search looks.
LEMMA FindWindow ==
  ASSUME TypeInv, NEW w \in move_window(win, dp.sect)
  PROVE  /\ WindowOK(w) /\ (w.sect # dp.sect => MayFail) /\ (w.sect = dp.sect => w.data = dp.sect)
         /\ ProperEntry(card, EntryAt(w.data, dp.dptr % DirPerSector))
<1>1. card \in Cards /\ WindowOK(win) /\ dp.sect \in Int
  BY DEF TypeInv, BaseInv
<1>2. QED
  BY <1>1, MoveWindow, EntryType

LEMMA FindFailsTypes ==
  ASSUME TypeInv, MainStays, FindFails, pc = "opening"
  PROVE  TypeInv'
<1>1. PICK w \in move_window(win, dp.sect) :
        /\ win' = w /\ Count(w.sect # dp.sect)
        /\ op' = "idle" /\ res' = (IF w.sect # dp.sect THEN "disk_err" ELSE NotFound)
  BY DEF FindFails, Return
<1>2. UNCHANGED <<card, status, fs, dp, fil, rd, buf>> /\ op = "find"
  BY DEF FindFails
<1>3. WindowOK(win') /\ (w.sect # dp.sect => MayFail) /\ res' # "ok"
  BY <1>1, FindWindow DEF NotFound
<1>4. BaseInv'
  <2>1. ioErrors' \in 0 .. MaxErrors
    <3>1. ioErrors \in 0 .. MaxErrors
      BY DEF TypeInv, BaseInv
    <3>2. QED
      BY <1>1, <1>3, <3>1, Counted
  <2>2. dp' \in Dirs /\ buf' \in [1 .. BufSize -> Bytes] /\ op' # "find"
    BY <1>1, <1>2 DEF TypeInv, BaseInv, Dirs
  <2>3. QED
    BY <1>2, <1>3, <2>1, <2>2, BaseKept DEF TypeInv
<1>5. VolumeInv'
  BY <1>1, <1>2 DEF TypeInv, VolumeInv
<1>6. StepInv'
  BY <1>1, <1>2, <1>3 DEF TypeInv, StepInv, MainStays
<1>7. FileInv'
  BY <1>1, <1>2, <1>3 DEF TypeInv, FileInv, MainStays
<1>8. CountInv'
  BY <1>1, <1>2, <1>3 DEF TypeInv, CountInv, MainStays
<1>9. QED
  BY <1>4, <1>5, <1>6, <1>7, <1>8 DEF TypeInv

LEMMA EnterDirTypes ==
  ASSUME TypeInv, MainStays, EnterDir, pc = "opening"
  PROVE  TypeInv'
<1> DEFINE e(w) == EntryAt(w.data, dp.dptr % DirPerSector)
<1>1. PICK w \in move_window(win, dp.sect) :
        /\ w.sect = dp.sect /\ Matches(e(w)) /\ win' = w
        /\ \/ e(w).attr = "dir" /\ StartFind(ld_clust(e(w)), Tail(dp.path))
           \/ e(w).attr # "dir" /\ Return("no_path") /\ UNCHANGED dp
  BY DEF EnterDir
<1>2. UNCHANGED <<card, status, fs, fil, rd, buf, ioErrors>> /\ op = "find" /\ Len(dp.path) > 1
  BY DEF EnterDir
<1>3. WindowOK(win') /\ ProperEntry(card, e(w))
  BY <1>1, FindWindow
<1>4. e(w).name # "last" /\ e(w).attr # "label"
  BY <1>1 DEF Matches
<1>5. card \in Cards /\ dp \in Dirs /\ dp.path \in Seq(STRING)
  BY DEF TypeInv, BaseInv, Dirs
<1>6. dp' \in Dirs /\ (op' = "find" => dp'.path # <<>>)
      /\ (op' = "find" \/ (op' = "idle" /\ res' # "ok"))
  <2>1. CASE e(w).attr = "dir" /\ StartFind(ld_clust(e(w)), Tail(dp.path))
    <3>1. PICK c \in Int, p \in Seq(STRING) :
            c = ld_clust(e(w)) /\ p = Tail(dp.path) /\ Len(p) = Len(dp.path) - 1
      <4>1. ld_clust(e(w)) \in Int
        BY <1>3, <1>4, <1>5, EntryFacts
      <4>2. PICK s \in Seq(STRING) : s = dp.path /\ Len(s) > 1
        BY <1>2, <1>5
      <4>3. s # <<>>
        <5>1. Len(<<>>) = 0 /\ ~(0 > 1)
          OBVIOUS
        <5>2. QED
          BY <4>2, <5>1, Zenon
      <4>4. Tail(s) \in Seq(STRING) /\ Len(Tail(s)) = Len(s) - 1
        BY <4>3
      <4>5. QED
        BY <4>1, <4>2, <4>4
    <3>2. dp' = dir_sdi(c, p) /\ (op' = "find" \/ (op' = "idle" /\ res' = "int_err"))
      BY <2>1, <3>1 DEF StartFind, Return
    <3>3. dp' \in Dirs
      BY <3>2, DirStart
    <3>4. dp'.path = p
      BY <3>2 DEF dir_sdi
    <3>5. p # <<>>
      <4>1. Len(p) > 0 /\ Len(<<>>) = 0
        BY <1>2, <1>5, <3>1
      <4>2. QED
        BY <4>1
    <3>6. QED
      BY <3>2, <3>3, <3>4, <3>5
  <2>2. CASE e(w).attr # "dir" /\ Return("no_path") /\ UNCHANGED dp
    BY <1>5, <2>2 DEF Return
  <2>3. QED
    BY <1>1, <2>1, <2>2
<1>7. BaseInv'
  <2>1. ioErrors' \in 0 .. MaxErrors /\ buf' \in [1 .. BufSize -> Bytes]
    BY <1>2 DEF TypeInv, BaseInv
  <2>2. QED
    BY <1>2, <1>3, <1>6, <2>1, BaseKept DEF TypeInv
<1>8. VolumeInv'
  BY <1>2, <1>6 DEF TypeInv, VolumeInv
<1>9. StepInv'
  BY <1>2, <1>6 DEF TypeInv, StepInv, MainStays
<1>10. FileInv'
  BY <1>2, <1>6 DEF TypeInv, FileInv, MainStays
<1>11. CountInv'
  BY <1>2, <1>6 DEF TypeInv, CountInv, MainStays
<1>12. QED
  BY <1>7, <1>8, <1>9, <1>10, <1>11 DEF TypeInv

LEMMA OpenFileTypes ==
  ASSUME TypeInv, MainStays, OpenFile, pc = "opening"
  PROVE  TypeInv'
<1> DEFINE e(w) == EntryAt(w.data, dp.dptr % DirPerSector)
<1>1. PICK w \in move_window(win, dp.sect) :
        /\ w.sect = dp.sect /\ Matches(e(w)) /\ win' = w /\ op' = "idle"
        /\ \/ /\ e(w).attr = "file" /\ res' = "ok"
              /\ fil' = [NoFile EXCEPT !.obj = e(w).obj, !.sclust = ld_clust(e(w)),
                                       !.objsize = card.size[e(w).obj]]
           \/ e(w).attr = "dir" /\ res' = "no_file" /\ UNCHANGED fil
  BY DEF OpenFile, Return
<1>2. UNCHANGED <<card, status, fs, dp, rd, buf, ioErrors>> /\ op = "find"
  BY DEF OpenFile
<1>3. WindowOK(win') /\ ProperEntry(card, e(w))
  BY <1>1, FindWindow
<1>4. e(w).name # "last" /\ e(w).attr # "label"
  BY <1>1 DEF Matches
<1>5. BaseInv'
  <2>1. /\ ioErrors' \in 0 .. MaxErrors /\ buf' \in [1 .. BufSize -> Bytes]
        /\ dp' \in Dirs /\ op' # "find"
    BY <1>1, <1>2 DEF TypeInv, BaseInv, Dirs
  <2>2. QED
    BY <1>2, <1>3, <2>1, BaseKept DEF TypeInv
<1>6. VolumeInv'
  BY <1>1, <1>2 DEF TypeInv, VolumeInv
<1>7. StepInv'
  BY <1>1, <1>2 DEF TypeInv, StepInv, MainStays
<1>8. FileInv' /\ fil'.fptr = 0
  <2>1. CASE fil' = fil /\ res' = "no_file"
    BY <1>1, <1>2, <2>1 DEF TypeInv, FileInv, MainStays
  <2>2. CASE /\ e(w).attr = "file" /\ res' = "ok"
             /\ fil' = [NoFile EXCEPT !.obj = e(w).obj, !.sclust = ld_clust(e(w)),
                                      !.objsize = card.size[e(w).obj]]
    <3>1. card \in Cards
      BY DEF TypeInv, BaseInv
    <3>2. PICK x \in DOMAIN card.size, c \in Nat, n \in Nat :
            /\ x = e(w).obj /\ c = ld_clust(e(w)) /\ n = card.size[x] /\ c < DiskError
            /\ c = IF card.chains[x] = <<>> THEN 0 ELSE card.chains[x][1]
      BY <1>3, <1>4, <2>2, <3>1, EntryFacts, ObjectFacts
    <3>3. fil' = [obj |-> x, sclust |-> c, objsize |-> n, fptr |-> 0, clust |-> 0, sect |-> 0,
                  err |-> "ok"]
      BY <2>2, <3>2 DEF NoFile
    <3>4. x # "none" /\ 0 < DiskError
      BY <3>1, ObjectFacts DEF DiskError
    <3>5. QED
      BY <1>1, <1>2, <3>2, <3>3, <3>4 DEF TypeInv, FileInv, MainStays
  <2>3. QED
    BY <1>1, <2>1, <2>2
<1>9. CountInv'
  BY <1>1, <1>2, <1>8 DEF TypeInv, CountInv, MainStays
<1>10. QED
  BY <1>5, <1>6, <1>7, <1>8, <1>9 DEF TypeInv

\* The ways dir_next can go.
DirEnd(w) == [dp |-> [dp EXCEPT !.sect = 0], win |-> w, res |-> "no_file"]
DirAt(s, c, w) ==
  [dp |-> [dp EXCEPT !.dptr = dp.dptr + 1, !.sect = s, !.clust = c], win |-> w, res |-> "ok"]
DirAfter(g) ==
  IF g.val <= 1 THEN [dp |-> dp, win |-> g.win, res |-> "int_err"]
  ELSE IF g.val = DiskError THEN [dp |-> dp, win |-> g.win, res |-> "disk_err"]
  ELSE IF g.val >= fs.n_fatent THEN DirEnd(g.win)
  ELSE DirAt(clst2sect(g.val), g.val, g.win)

LEMMA DirNextCases ==
  ASSUME NEW w, NEW n \in dir_next(w)
  PROVE  \/ dp.dptr + 1 >= MAX_DIR /\ n = DirEnd(w)
         \/ /\ ~(dp.dptr + 1 >= MAX_DIR) /\ (dp.dptr + 1) % DirPerSector # 0
            /\ n = DirAt(dp.sect, dp.clust, w)
         \/ /\ ~(dp.dptr + 1 >= MAX_DIR) /\ (dp.dptr + 1) % DirPerSector = 0 /\ dp.clust = 0
            /\ dp.dptr + 1 >= fs.n_rootdir /\ n = DirEnd(w)
         \/ /\ ~(dp.dptr + 1 >= MAX_DIR) /\ (dp.dptr + 1) % DirPerSector = 0 /\ dp.clust = 0
            /\ ~(dp.dptr + 1 >= fs.n_rootdir) /\ n = DirAt(dp.sect + 1, 0, w)
         \/ /\ ~(dp.dptr + 1 >= MAX_DIR) /\ (dp.dptr + 1) % DirPerSector = 0 /\ dp.clust # 0
            /\ ((dp.dptr + 1) \div DirPerSector) % fs.csize = 0
            /\ \E g \in get_fat(w, dp.clust) : n = DirAfter(g)
         \/ /\ ~(dp.dptr + 1 >= MAX_DIR) /\ (dp.dptr + 1) % DirPerSector = 0 /\ dp.clust # 0
            /\ ((dp.dptr + 1) \div DirPerSector) % fs.csize # 0
            /\ n = DirAt(dp.sect + 1, dp.clust, w)
<1>1. CASE dp.dptr + 1 >= MAX_DIR
  BY <1>1 DEF dir_next, DirEnd
<1>2. CASE ~(dp.dptr + 1 >= MAX_DIR) /\ (dp.dptr + 1) % DirPerSector # 0
  BY <1>2 DEF dir_next, DirAt
<1>3. CASE ~(dp.dptr + 1 >= MAX_DIR) /\ (dp.dptr + 1) % DirPerSector = 0 /\ dp.clust = 0
  BY <1>3 DEF dir_next, DirEnd, DirAt
<1>4. CASE /\ ~(dp.dptr + 1 >= MAX_DIR) /\ (dp.dptr + 1) % DirPerSector = 0 /\ dp.clust # 0
           /\ ((dp.dptr + 1) \div DirPerSector) % fs.csize # 0
  BY <1>4 DEF dir_next, DirAt
<1>5. CASE /\ ~(dp.dptr + 1 >= MAX_DIR) /\ (dp.dptr + 1) % DirPerSector = 0 /\ dp.clust # 0
           /\ ((dp.dptr + 1) \div DirPerSector) % fs.csize = 0
  <2>1. PICK g \in get_fat(w, dp.clust) :
          n = IF g.val <= 1 THEN [dp |-> dp, win |-> g.win, res |-> "int_err"]
              ELSE IF g.val = DiskError THEN [dp |-> dp, win |-> g.win, res |-> "disk_err"]
              ELSE IF g.val >= fs.n_fatent
              THEN [[dp |-> [dp EXCEPT !.sect = 0], win |-> w, res |-> "no_file"]
                      EXCEPT !.win = g.win]
              ELSE [dp |-> [dp EXCEPT !.dptr = dp.dptr + 1, !.sect = clst2sect(g.val),
                                      !.clust = g.val],
                    win |-> g.win, res |-> "ok"]
    BY <1>5 DEF dir_next
  <2>2. n = DirAfter(g)
    BY <2>1 DEF DirAfter, DirEnd, DirAt
  <2>3. QED
    BY <1>5, <2>2
<1>6. QED
  BY <1>1, <1>2, <1>3, <1>4, <1>5

LEMMA DirNextTypes ==
  ASSUME TypeInv, NEW w, WindowOK(w), NEW n \in dir_next(w)
  PROVE  /\ n.dp \in Dirs /\ n.dp.path = dp.path /\ WindowOK(n.win)
         /\ n.res \in {"ok", "no_file", "int_err", "disk_err"}
         /\ n.res = "disk_err" => MayFail
<1>1. dp \in Dirs /\ card \in Cards
  BY DEF TypeInv, BaseInv, Dirs
<1>2. ASSUME NEW x, WindowOK(x), n = DirEnd(x)
      PROVE  /\ n.dp \in Dirs /\ n.dp.path = dp.path /\ WindowOK(n.win) /\ n.res = "no_file"
  BY <1>1, <1>2 DEF DirEnd, Dirs
<1>3. ASSUME NEW x, WindowOK(x), NEW s \in Int, NEW c \in Int, n = DirAt(s, c, x)
      PROVE  /\ n.dp \in Dirs /\ n.dp.path = dp.path /\ WindowOK(n.win) /\ n.res = "ok"
  <2>1. PICK d \in Dirs, k \in Nat : d = dp /\ k = dp.dptr + 1
    BY <1>1 DEF Dirs
  <2>2. n = [dp |-> [d EXCEPT !.dptr = k, !.sect = s, !.clust = c], win |-> x, res |-> "ok"]
    BY <1>3, <2>1 DEF DirAt
  <2>3. n.dp = [sclust |-> d.sclust, clust |-> c, sect |-> s, dptr |-> k, path |-> d.path]
    BY <2>2 DEF Dirs
  <2>4. n.win = x /\ n.res = "ok"
    BY <2>2
  <2>5. n.dp \in Dirs
    BY <2>1, <2>3 DEF Dirs
  <2>6. QED
    BY <1>3, <2>1, <2>3, <2>4, <2>5
<1>4. ASSUME NEW g \in get_fat(w, dp.clust), n = DirAfter(g)
      PROVE  /\ n.dp \in Dirs /\ n.dp.path = dp.path /\ WindowOK(n.win)
             /\ n.res \in {"ok", "no_file", "int_err", "disk_err"}
             /\ n.res = "disk_err" => MayFail
  <2>1. g.val \in Nat /\ WindowOK(g.win) /\ (g.val = DiskError => MayFail)
    <3>1. dp.clust \in Int
      BY <1>1 DEF Dirs
    <3>2. QED
      BY <1>1, <3>1, VolumeTypes, GetFatType
  <2>2. CASE g.val <= 1
    BY <1>1, <1>4, <2>1, <2>2 DEF DirAfter, Dirs
  <2>3. CASE ~(g.val <= 1) /\ g.val = DiskError
    BY <1>1, <1>4, <2>1, <2>3 DEF DirAfter, Dirs
  <2>4. CASE ~(g.val <= 1) /\ g.val # DiskError /\ g.val >= fs.n_fatent
    <3>1. n = DirEnd(g.win)
      BY <1>4, <2>4 DEF DirAfter
    <3>2. QED
      BY <1>2, <2>1, <3>1
  <2>5. CASE ~(g.val <= 1) /\ g.val # DiskError /\ ~(g.val >= fs.n_fatent)
    <3>1. n = DirAt(clst2sect(g.val), g.val, g.win)
      BY <1>4, <2>5 DEF DirAfter
    <3>2. clst2sect(g.val) \in Int /\ g.val \in Int
      BY <2>1, ClusterSector
    <3>3. QED
      BY <1>3, <2>1, <3>1, <3>2
  <2>6. QED
    BY <2>2, <2>3, <2>4, <2>5
<1>5. dp.sect \in Int /\ dp.clust \in Int /\ dp.sect + 1 \in Int /\ 0 \in Int
  BY <1>1 DEF Dirs
<1>6. \/ n = DirEnd(w) \/ n = DirAt(dp.sect, dp.clust, w) \/ n = DirAt(dp.sect + 1, 0, w)
      \/ n = DirAt(dp.sect + 1, dp.clust, w) \/ \E g \in get_fat(w, dp.clust) : n = DirAfter(g)
  BY DirNextCases, Zenon
<1>7. CASE n = DirEnd(w)
  BY <1>2, <1>7
<1>8. CASE n = DirAt(dp.sect, dp.clust, w)
  BY <1>3, <1>5, <1>8
<1>9. CASE n = DirAt(dp.sect + 1, 0, w)
  BY <1>3, <1>5, <1>9
<1>10. CASE n = DirAt(dp.sect + 1, dp.clust, w)
  BY <1>3, <1>5, <1>10
<1>11. CASE \E g \in get_fat(w, dp.clust) : n = DirAfter(g)
  BY <1>4, <1>11
<1>12. QED
  BY <1>6, <1>7, <1>8, <1>9, <1>10, <1>11

LEMMA FindNextIs ==
  ASSUME FindNext
  PROVE  \E w \in move_window(win, dp.sect) :
           /\ w.sect = dp.sect
           /\ EntryAt(w.data, dp.dptr % DirPerSector).name # "last"
           /\ ~Matches(EntryAt(w.data, dp.dptr % DirPerSector))
           /\ \E n \in dir_next(w) :
                /\ dp' = n.dp /\ win' = n.win /\ Count(n.res = "disk_err")
                /\ \/ n.res = "ok" /\ UNCHANGED <<op, res>>
                   \/ /\ n.res # "ok" /\ op' = "idle"
                      /\ res' = IF n.res = "no_file" THEN NotFound ELSE n.res
BY DEF FindNext, Return

LEMMA FindNextTypes ==
  ASSUME TypeInv, MainStays, FindNext, pc = "opening"
  PROVE  TypeInv'
<1>1. PICK w \in move_window(win, dp.sect) : \E n \in dir_next(w) :
         /\ dp' = n.dp /\ win' = n.win /\ Count(n.res = "disk_err")
         /\ \/ n.res = "ok" /\ UNCHANGED <<op, res>>
            \/ /\ n.res # "ok" /\ op' = "idle"
               /\ res' = IF n.res = "no_file" THEN NotFound ELSE n.res
  BY FindNextIs
<1>2. PICK n \in dir_next(w) :
         /\ dp' = n.dp /\ win' = n.win /\ Count(n.res = "disk_err")
         /\ \/ n.res = "ok" /\ UNCHANGED <<op, res>>
            \/ /\ n.res # "ok" /\ op' = "idle"
               /\ res' = IF n.res = "no_file" THEN NotFound ELSE n.res
  BY <1>1
<1>3. UNCHANGED <<card, status, fs, fil, rd, buf>> /\ op = "find"
  BY DEF FindNext
<1>4. /\ n.dp \in Dirs /\ n.dp.path = dp.path /\ WindowOK(n.win)
      /\ n.res = "disk_err" => MayFail
  BY FindWindow, DirNextTypes
<1>5. op' = "find" \/ (op' = "idle" /\ res' # "ok")
  BY <1>2, <1>3 DEF NotFound
<1>6. BaseInv'
  <2>1. ioErrors' \in 0 .. MaxErrors
    <3>1. ioErrors \in 0 .. MaxErrors
      BY DEF TypeInv, BaseInv
    <3>2. PICK b \in BOOLEAN : b = (n.res = "disk_err")
      OBVIOUS
    <3>3. Count(b) /\ (b => MayFail)
      BY <1>2, <1>4, <3>2
    <3>4. QED
      BY <3>1, <3>3, Counted
  <2>2. dp' \in Dirs /\ buf' \in [1 .. BufSize -> Bytes] /\ dp'.path # <<>> /\ WindowOK(win')
    BY <1>2, <1>3, <1>4 DEF TypeInv, BaseInv
  <2>3. QED
    BY <1>3, <2>1, <2>2, BaseKept DEF TypeInv
<1>7. VolumeInv'
  BY <1>3, <1>5 DEF TypeInv, VolumeInv
<1>8. StepInv'
  BY <1>3, <1>5 DEF TypeInv, StepInv, MainStays
<1>9. FileInv'
  BY <1>3, <1>5 DEF TypeInv, FileInv, MainStays
<1>10. CountInv'
  BY <1>3, <1>5 DEF TypeInv, CountInv, MainStays
<1>11. QED
  BY <1>6, <1>7, <1>8, <1>9, <1>10 DEF TypeInv

LEMMA ReadEndsTypes ==
  ASSUME TypeInv, MainStays, ReadEnds, pc = "reading"
  PROVE  TypeInv'
<1>1. UNCHANGED <<card, status, win, fs, dp, fil, rd, buf, ioErrors>> /\ op = "read"
      /\ op' = "idle" /\ res' = "ok" /\ rd.btr = 0
  BY DEF ReadEnds, Return
<1>2. BaseInv'
  BY <1>1, BaseKept DEF TypeInv, BaseInv, WindowOK, Dirs
<1>3. VolumeInv'
  BY <1>1 DEF TypeInv, VolumeInv
<1>4. StepInv'
  BY <1>1 DEF TypeInv, StepInv, MainStays
<1>5. FileInv'
  BY <1>1 DEF TypeInv, FileInv, MainStays
<1>6. CountInv'
  BY <1>1 DEF TypeInv, CountInv, MainStays
<1>7. QED
  BY <1>2, <1>3, <1>4, <1>5, <1>6 DEF TypeInv

\* The cluster f_read goes on in.
LEMMA FollowingTypes ==
  ASSUME TypeInv, NEW g \in Following
  PROVE  /\ g.val \in Int /\ g.val <= DiskError /\ WindowOK(g.win)
         /\ g.val = DiskError => MayFail
<1>1. card \in Cards /\ WindowOK(win)
  BY DEF TypeInv, BaseInv
<1>2. fil.clust \in Int /\ fil.clust < DiskError /\ fil.sclust \in Int /\ fil.sclust < DiskError
  BY DEF TypeInv, FileInv
<1>3. CASE g = [val |-> fil.clust, win |-> win] \/ g = [val |-> fil.sclust, win |-> win]
  BY <1>1, <1>2, <1>3 DEF DiskError
<1>4. CASE g \in get_fat(win, fil.clust)
  BY <1>1, <1>2, <1>4, VolumeTypes, GetFatType
<1>5. QED
  BY <1>3, <1>4 DEF Following

LEMMA ReadFailsTypes ==
  ASSUME TypeInv, MainStays, ReadFails, pc = "reading"
  PROVE  TypeInv'
<1>1. PICK g \in Following, r \in {"int_err", "disk_err"} :
        win' = g.win /\ Abort(r) /\ (r = "disk_err" => g.val = DiskError \/ MayFail)
  <2>1. PICK g \in Following :
          /\ win' = g.win
          /\ \/ Abort("int_err")
             \/ g.val = DiskError /\ Abort("disk_err")
             \/ MayFail /\ Abort("disk_err")
    BY DEF ReadFails
  <2>2. QED
    BY <2>1
<1>2. UNCHANGED <<card, status, fs, dp, rd, buf>> /\ op = "read"
  BY DEF ReadFails
<1>3. WindowOK(win') /\ (r = "disk_err" => MayFail)
  BY <1>1, FollowingTypes
<1>4. /\ fil' = [fil EXCEPT !.err = r] /\ op' = "idle" /\ res' = r /\ Count(r = "disk_err")
  BY <1>1 DEF Abort, Return
<1>5. BaseInv'
  <2>1. ioErrors' \in 0 .. MaxErrors
    <3>1. ioErrors \in 0 .. MaxErrors
      BY DEF TypeInv, BaseInv
    <3>2. PICK b \in BOOLEAN : b = (r = "disk_err")
      OBVIOUS
    <3>3. Count(b) /\ (b => MayFail)
      BY <1>3, <1>4, <3>2
    <3>4. QED
      BY <3>1, <3>3, Counted
  <2>2. dp' \in Dirs /\ buf' \in [1 .. BufSize -> Bytes] /\ op' # "find"
    BY <1>2, <1>4 DEF TypeInv, BaseInv, Dirs
  <2>3. QED
    BY <1>2, <1>3, <2>1, <2>2, BaseKept DEF TypeInv
<1>6. VolumeInv'
  BY <1>2, <1>4 DEF TypeInv, VolumeInv
<1>7. StepInv'
  BY <1>2, <1>4 DEF TypeInv, StepInv, MainStays
<1>8. FileInv'
  BY <1>2, <1>4 DEF TypeInv, FileInv, MainStays
<1>9. CountInv'
  BY <1>2, <1>4 DEF TypeInv, CountInv, FileInv, MainStays
<1>10. QED
  BY <1>5, <1>6, <1>7, <1>8, <1>9 DEF TypeInv

\* A turn of f_read: the cluster it reads from, and how much.  It never leaves that
\* cluster, nor what was asked for.
Transferred(s, from, rcnt) ==
  [i \in 1 .. BufSize |->
     IF i - 1 \in rd.br .. rd.br + rcnt - 1
     THEN FileByte(s + (from + i - 1 - rd.br) \div SS, (from + i - 1 - rd.br) % SS)
     ELSE buf[i]]

LEMMA ReadTurnIs ==
  ASSUME TypeInv, ReadTurn, pc = "reading"
  PROVE  \E g \in Following, first \in Nat, cs \in Nat, from \in Nat, rcnt \in Nat, s \in Int :
           /\ g.val >= 2 /\ g.val # DiskError /\ first = clst2sect(g.val) /\ first # 0
           /\ cs = csect /\ cs < fs.csize /\ from = fil.fptr % SS
           /\ rcnt > 0 /\ rcnt <= rd.btr /\ from + rcnt <= SS * (fs.csize - cs)
           /\ win' = g.win
           /\ buf' = Transferred(first + cs, from, rcnt)
           /\ rd' = [btr |-> rd.btr - rcnt, br |-> rd.br + rcnt]
           /\ fil' = [fil EXCEPT !.clust = g.val, !.fptr = fil.fptr + rcnt, !.sect = s]
<1>1. PICK g \in Following :
        \E first \in {clst2sect(g.val)} :
        \E n \in {IF fil.fptr % SS = 0 THEN Whole ELSE 0} :
        \E rcnt \in {IF n > 0 THEN n * SS ELSE Min({SS - (fil.fptr % SS), rd.btr})} :
          /\ g.val >= 2 /\ g.val # DiskError /\ first # 0
          /\ win' = g.win
          /\ Transfer(first + csect, fil.fptr % SS, rcnt)
          /\ fil' = [fil EXCEPT !.clust = g.val, !.fptr = @ + rcnt,
                                !.sect = IF n > 0 THEN @ ELSE first + csect]
  BY DEF ReadTurn
<1>2. PICK first, n, rcnt :
          /\ first = clst2sect(g.val) /\ n = (IF fil.fptr % SS = 0 THEN Whole ELSE 0)
          /\ rcnt = (IF n > 0 THEN n * SS ELSE Min({SS - (fil.fptr % SS), rd.btr}))
          /\ g.val >= 2 /\ g.val # DiskError /\ first # 0
          /\ win' = g.win
          /\ Transfer(first + csect, fil.fptr % SS, rcnt)
          /\ fil' = [fil EXCEPT !.clust = g.val, !.fptr = @ + rcnt,
                                !.sect = IF n > 0 THEN @ ELSE first + csect]
  BY <1>1
<1>3. fs.fs_type # 0 /\ rd.btr > 0
  BY DEF TypeInv, StepInv, ReadTurn
<1>4. PICK z \in Nat \ {0} : z = fs.csize
  BY <1>3, VolumeTypes
<1>5. PICK b \in Nat \ {0} : b = SS
  BY SizeFacts
<1>6. PICK f \in Nat, m \in Nat \ {0}, c \in Int, t \in Int :
        f = fil.fptr /\ m = rd.btr /\ c = g.val /\ t = fil.sect
  BY <1>3, FollowingTypes DEF TypeInv, FileInv, CountInv
<1>7. PICK from \in 0 .. b - 1, q \in Nat : from = f % b /\ q = f \div b
  <2>1. f \in Int /\ f >= 0
    OBVIOUS
  <2>2. QED
    BY <2>1, DivMod
<1>8. PICK cs \in 0 .. z - 1 : cs = csect
  <2>1. q \in Int
    OBVIOUS
  <2>2. q % z \in 0 .. z - 1
    BY <2>1, DivMod
  <2>3. csect = q % z
    BY <1>4, <1>5, <1>6, <1>7 DEF csect
  <2>4. QED
    BY <2>2, <2>3
<1>9. first \in Nat
  BY <1>2, <1>6, ClusterSector
<1>10. PICK w \in Nat, r \in 0 .. b - 1 : w = m \div b /\ m = b * w + r /\ r = m % b
  <2>1. m \in Int /\ m >= 0
    OBVIOUS
  <2>2. QED
    BY <2>1, DivMod
<1>11. PICK k \in Nat : k = Min({w, z - cs}) /\ k <= w /\ k <= z - cs /\ (k = w \/ k = z - cs)
  BY MinIs
<1>12. Whole = k
  BY <1>4, <1>5, <1>6, <1>8, <1>10, <1>11 DEF Whole
<1>13. PICK bw \in Nat, bk \in Nat, bz \in Nat : bw = b * w /\ bk = b * k /\ bz = b * (z - cs)
  BY Product
<1>14. rcnt \in Nat /\ rcnt > 0 /\ rcnt <= m /\ from + rcnt <= bz
  <2>1. bz >= b
    <3>1. 0 < z - cs /\ 0 \in Int /\ z - cs \in Int
      OBVIOUS
    <3>2. b * 0 + b <= b * (z - cs)
      BY <3>1, Apart
    <3>3. QED
      BY <1>13, <3>2
  <2>2. CASE from = 0 /\ k > 0
    <3>1. rcnt = k * b
      BY <1>2, <1>5, <1>6, <1>7, <1>12, <2>2
    <3>2. rcnt = bk
      BY <1>13, <3>1, Distribute
    <3>3. bk <= bw /\ bk <= bz
      BY <1>11, <1>13
    <3>4. bk >= b
      <4>1. b * 0 + b <= b * k
        BY <2>2, Apart
      <4>2. QED
        BY <1>13, <4>1
    <3>5. QED
      BY <1>10, <1>13, <2>2, <3>2, <3>3, <3>4
  <2>3. CASE ~(from = 0 /\ k > 0)
    <3>1. n = 0
      BY <1>2, <1>5, <1>6, <1>7, <1>12, <2>3
    <3>2. rcnt = Min({b - from, m})
      BY <1>2, <1>5, <1>6, <1>7, <3>1
    <3>3. rcnt = IF b - from <= m THEN b - from ELSE m
      BY <3>2, MinIs
    <3>4. QED
      BY <2>1, <3>3
  <2>4. QED
    BY <2>2, <2>3
<1>15. PICK s \in Int : s = IF n > 0 THEN fil.sect ELSE first + csect
  BY <1>6, <1>8, <1>9
<1>16. /\ buf' = Transferred(first + cs, from, rcnt)
       /\ rd' = [btr |-> rd.btr - rcnt, br |-> rd.br + rcnt]
  BY <1>2, <1>5, <1>6, <1>7, <1>8 DEF Transfer, Transferred
<1>17. fil' = [fil EXCEPT !.clust = g.val, !.fptr = fil.fptr + rcnt, !.sect = s]
  BY <1>2, <1>15
<1>18. SS * (fs.csize - cs) = bz
  BY <1>4, <1>5, <1>13
<1>19. cs \in Nat /\ from \in Nat /\ cs < fs.csize /\ from = fil.fptr % SS /\ rcnt <= rd.btr
       /\ from + rcnt <= SS * (fs.csize - cs)
  BY <1>4, <1>5, <1>6, <1>7, <1>8, <1>14, <1>18
<1>20. /\ g.val >= 2 /\ g.val # DiskError /\ first = clst2sect(g.val) /\ first # 0
       /\ cs = csect /\ cs < fs.csize /\ from = fil.fptr % SS
       /\ rcnt > 0 /\ rcnt <= rd.btr /\ from + rcnt <= SS * (fs.csize - cs)
       /\ win' = g.win
       /\ buf' = Transferred(first + cs, from, rcnt)
       /\ rd' = [btr |-> rd.btr - rcnt, br |-> rd.br + rcnt]
       /\ fil' = [fil EXCEPT !.clust = g.val, !.fptr = fil.fptr + rcnt, !.sect = s]
  BY <1>2, <1>8, <1>14, <1>16, <1>17, <1>19, Zenon
<1>21. QED
  BY <1>9, <1>14, <1>19, <1>20, Zenon

LEMMA ReadTurnTypes ==
  ASSUME TypeInv, MainStays, ReadTurn, pc = "reading"
  PROVE  TypeInv'
<1>1. PICK g \in Following, first \in Nat, cs \in Nat, from \in Nat, rcnt \in Nat, s \in Int :
        /\ g.val >= 2 /\ g.val # DiskError /\ first = clst2sect(g.val) /\ first # 0
        /\ cs = csect /\ cs < fs.csize /\ from = fil.fptr % SS
        /\ rcnt > 0 /\ rcnt <= rd.btr /\ from + rcnt <= SS * (fs.csize - cs)
        /\ win' = g.win
        /\ buf' = Transferred(first + cs, from, rcnt)
        /\ rd' = [btr |-> rd.btr - rcnt, br |-> rd.br + rcnt]
        /\ fil' = [fil EXCEPT !.clust = g.val, !.fptr = fil.fptr + rcnt, !.sect = s]
  BY ReadTurnIs
<1>2. UNCHANGED <<card, status, fs, dp, op, res, ioErrors>> /\ op = "read"
  BY DEF ReadTurn
<1>3. PICK c \in Int : c = g.val /\ c < DiskError /\ WindowOK(g.win)
  BY <1>1, FollowingTypes DEF DiskError
<1>4. buf' \in [1 .. BufSize -> Bytes]
  <2>1. card \in Cards /\ buf \in [1 .. BufSize -> Bytes]
    BY DEF TypeInv, BaseInv
  <2>2. PICK b \in Nat : b = rd.br
    BY DEF TypeInv, CountInv
  <2>3. ASSUME NEW i \in 1 .. BufSize
        PROVE  FileByte(first + cs + (from + i - 1 - rd.br) \div SS, (from + i - 1 - rd.br) % SS)
                 \in Bytes
    <3>1. i \in Int
      BY SizeFacts
    <3>2. PICK j \in Int : j = from + i - 1 - rd.br
      BY <2>2, <3>1
    <3>3. j % SS \in Int
      BY SizeFacts, DivMod
    <3>4. PICK o \in Int : o = j % SS
      BY <3>3
    <3>5. FileByte(first + cs + j \div SS, o) \in Bytes
      BY <2>1, FileByteType
    <3>6. QED
      BY <3>2, <3>4, <3>5
  <2>4. QED
    BY <1>1, <2>1, <2>3 DEF Transferred
<1>5. BaseInv'
  <2>1. ioErrors' \in 0 .. MaxErrors /\ dp' \in Dirs /\ op' # "find"
    BY <1>2 DEF TypeInv, BaseInv, Dirs
  <2>2. QED
    BY <1>1, <1>2, <1>3, <1>4, <2>1, BaseKept DEF TypeInv
<1>6. VolumeInv'
  BY <1>2 DEF TypeInv, VolumeInv
<1>7. StepInv'
  BY <1>2 DEF TypeInv, StepInv, MainStays
<1>8. PICK f \in Nat, o \in Nat, t \in Nat, r \in Nat, m \in Nat, z \in Nat :
        /\ f = fil.fptr /\ o = fil.objsize /\ t = total /\ r = rd.br /\ m = rd.btr /\ z = BufSize
        /\ r + m <= z /\ t + r + m <= o /\ t + r = f /\ rcnt <= m
        /\ (r + m = z \/ t + r + m = o)
  BY <1>1, SizeFacts DEF TypeInv, CountInv, FileInv
<1>9. fil' = [fil EXCEPT !.clust = c, !.fptr = f + rcnt, !.sect = s]
      /\ rd' = [btr |-> m - rcnt, br |-> r + rcnt]
  BY <1>1, <1>3, <1>8
<1>10. FileInv'
  <2>1. f + rcnt <= o /\ f + rcnt \in Nat
    BY <1>8
  <2>2. fil' \in [obj : DOMAIN card.size \cup {"none"}, sclust : Nat, objsize : Nat, fptr : Nat,
                  clust : Int, sect : Int, err : {"ok", "int_err", "disk_err"}]
    BY <1>9, <2>1 DEF TypeInv, FileInv
  <2>3. /\ fil'.obj = fil.obj /\ fil'.sclust = fil.sclust /\ fil'.objsize = o
        /\ fil'.fptr = f + rcnt /\ fil'.clust = c /\ fil'.err = fil.err
    BY <1>8, <1>9 DEF TypeInv, FileInv
  <2>4. QED
    BY <1>2, <1>3, <1>8, <2>1, <2>2, <2>3 DEF TypeInv, FileInv, MainStays
<1>11. CountInv'
  <2>1. fil'.fptr = f + rcnt /\ fil'.objsize = o /\ rd'.br = r + rcnt /\ rd'.btr = m - rcnt
    BY <1>8, <1>9 DEF TypeInv, FileInv
  <2>2. rd' \in [btr : 0 .. BufSize, br : 0 .. BufSize]
    BY <1>8, <1>9
  <2>3. /\ UNCHANGED <<total, pc, op>> /\ pc = "reading" /\ op = "read"
        /\ total % BufSize = 0 \/ total = fil.objsize
        /\ fil.objsize <= MaxKernel /\ fil'.objsize = fil.objsize
    BY <1>2, <1>8, <2>1 DEF TypeInv, CountInv, MainStays
  <2>4. /\ total' \in Nat /\ total' <= fil'.fptr /\ total' + rd'.br = fil'.fptr
        /\ rd'.br + rd'.btr <= BufSize /\ total' + rd'.br + rd'.btr <= fil'.objsize
        /\ rd'.br + rd'.btr = BufSize \/ total' + rd'.br + rd'.btr = fil'.objsize
    <3>1. total' = t
      BY <1>8, <2>3
    <3>2. /\ t \in Nat /\ t <= f + rcnt /\ t + (r + rcnt) = f + rcnt
          /\ (r + rcnt) + (m - rcnt) <= z /\ t + (r + rcnt) + (m - rcnt) <= o
          /\ (r + rcnt) + (m - rcnt) = z \/ t + (r + rcnt) + (m - rcnt) = o
      BY <1>8
    <3>3. BufSize = z
      BY <1>8
    <3>4. QED
      BY <2>1, <3>1, <3>2, <3>3
  <2>5. QED
    BY <2>2, <2>3, <2>4 DEF CountInv
<1>12. QED
  BY <1>5, <1>6, <1>7, <1>10, <1>11 DEF TypeInv

LEMMA FatTypes ==
  ASSUME TypeInv, Fat
  PROVE  TypeInv'
<1>1. MainStays /\ FatStep
  BY FatIs
<1>2. /\ op \in {"check", "geometry"} => pc = "mounting"
      /\ op = "find" => pc = "opening"
      /\ op = "read" => pc = "reading"
  BY DEF TypeInv, StepInv
<1>3. CASE find_volume
  BY <1>1, <1>2, <1>3, FindVolumeTypes DEF find_volume
<1>4. CASE mount_volume
  BY <1>1, <1>2, <1>4, MountVolumeTypes DEF mount_volume
<1>5. CASE FindFails
  BY <1>1, <1>5, FindFailsTypes DEF FindFails, TypeInv, StepInv
<1>6. CASE EnterDir
  BY <1>1, <1>6, EnterDirTypes DEF EnterDir, TypeInv, StepInv
<1>7. CASE OpenFile
  BY <1>1, <1>7, OpenFileTypes DEF OpenFile, TypeInv, StepInv
<1>8. CASE FindNext
  BY <1>1, <1>8, FindNextTypes DEF FindNext, TypeInv, StepInv
<1>9. CASE ReadEnds
  BY <1>1, <1>9, ReadEndsTypes DEF ReadEnds, TypeInv, StepInv
<1>10. CASE ReadTurn
  BY <1>1, <1>10, ReadTurnTypes DEF ReadTurn, TypeInv, StepInv
<1>11. CASE ReadFails
  BY <1>1, <1>11, ReadFailsTypes DEF ReadFails, TypeInv, StepInv
<1>12. QED
  BY <1>1, <1>3, <1>4, <1>5, <1>6, <1>7, <1>8, <1>9, <1>10, <1>11 DEF FatStep

\* The steps: of main alone, the three that call FatFs, and FatFs's.
LEMMA Steps ==
  ASSUME [Next]_vars
  PROVE  MainAlone \/ Mount \/ Open \/ Read \/ Fat \/ UNCHANGED vars
BY Zenon DEF Next, MainStep, MainAlone

LEMMA TypeStutter ==
  ASSUME TypeInv, UNCHANGED vars
  PROVE  TypeInv'
<1>1. UNCHANGED fatVars /\ UNCHANGED mainVars
  BY DEF vars
<1>2. /\ UNCHANGED <<card, status, win, fs, dp, fil, rd, buf, op, res, ioErrors>>
      /\ UNCHANGED <<board, driver, mode, pc, path, total, sdram, screen, hit>>
  BY <1>1 DEF fatVars, mainVars
<1>3. BaseInv'
  <2>1. Bytes' = Bytes
    BY <1>2 DEF Bytes
  <2>2. QED
    BY <1>2, <2>1 DEF TypeInv, BaseInv, WindowOK
<1>4. VolumeInv'
  BY <1>2 DEF TypeInv, VolumeInv
<1>5. StepInv'
  BY <1>2 DEF TypeInv, StepInv
<1>6. FileInv'
  BY <1>2 DEF TypeInv, FileInv
<1>7. CountInv'
  BY <1>2 DEF TypeInv, CountInv
<1>8. QED
  BY <1>3, <1>4, <1>5, <1>6, <1>7 DEF TypeInv

LEMMA TypeNext ==
  ASSUME TypeInv, [Next]_vars
  PROVE  TypeInv'
BY Steps, MainAloneTypes, MountTypes, OpenTypes, ReadTypes, FatTypes, TypeStutter, Zenon

LEMMA TypesHold == Spec => []TypeInv
<1>1. Init => TypeInv
  BY TypeInit
<1>2. TypeInv /\ [Next]_vars => TypeInv'
  BY TypeNext
<1>3. QED
  BY <1>1, <1>2, PTL DEF Spec

\* Every variable of the loader and of FatFs always holds a value of its type: no
\* count leaves the buffer, the file pointer never passes the file's end, and
\* main's total never passes the file pointer (ff.c:3920-4008, main.c:101-121).
THEOREM LoaderTypes == Spec => []TypeOK
<1>1. ASSUME TypeInv
      PROVE  TypeOK
  <2>1. /\ fil.fptr \in Nat /\ fil.objsize \in Nat /\ fil.fptr <= fil.objsize
        /\ total \in Nat /\ total <= fil.fptr
        /\ rd.btr \in 0 .. BufSize /\ rd.br \in 0 .. BufSize
    BY <1>1 DEF TypeInv, FileInv, CountInv
  <2>2. Len(buf) = BufSize
    <3>1. buf \in [1 .. BufSize -> Bytes] /\ BufSize \in Nat
      BY <1>1, SizeFacts DEF TypeInv, BaseInv
    <3>2. buf \in Seq(Bytes) /\ DOMAIN buf = 1 .. BufSize
      BY <3>1
    <3>3. QED
      BY <3>1, <3>2
  <2>3. /\ card \in Cards /\ board \in Boards /\ status \in {"noinit", "ready", "nodisk"}
        /\ win \in [sect : Int, data : Int] /\ ioErrors \in 0 .. MaxErrors
        /\ path \in DOMAIN Paths /\ mode \subseteq {"flash", "sdram", "sdcard", "write"}
        /\ hit \subseteq DOMAIN Paths
    BY <1>1 DEF TypeInv, BaseInv, WindowOK
  <2>4. /\ op \in {"idle", "check", "geometry", "find", "read"}
        /\ pc \in {"start", "mount", "mounting", "open", "opening", "size", "read", "reading",
                   "verify", "total", "started", "stopped"}
    BY <1>1 DEF TypeInv, StepInv
  <2>5. fil.fptr \in 0 .. fil.objsize /\ total \in 0 .. fil.fptr
    BY <2>1
  <2>6. QED
    BY <2>1, <2>2, <2>3, <2>4, <2>5 DEF TypeOK
<1>2. QED
  BY <1>1, TypesHold, PTL

-----------------------------------------------------------------------------
\* Reading

\* A volume taken for what it is.
LEMMA Known ==
  ASSUME TypeInv, fs.fs_type # 0, ~Mistaken
  PROVE  VolumeKnown
<1>1. IsFatBoot(card.bpb) /\ IsVolume(card.bpb) /\ fs = [VolumeOf(card) EXCEPT !.probe = fs.probe]
  BY VolumeTypes
<1>2. /\ fs.fs_type = KindOf(nclst(card.bpb)) /\ fs.csize = card.bpb.csize
      /\ fs.n_rootdir = card.bpb.rootent /\ fs.n_fatent = nclst(card.bpb) + 2
      /\ fs.fatbase = card.part + card.bpb.nrsv /\ fs.database = card.part + sysect(card.bpb)
      /\ fs.dirbase = IF card.bpb.rootent = 0 THEN card.bpb.rootclus
                      ELSE card.part + card.bpb.nrsv + card.bpb.fats * card.bpb.fatsz
  BY <1>1 DEF VolumeOf
<1>3. fs.fs_type = card.kind
  BY DEF Mistaken
<1>4. CardKnown
  BY <1>1, <1>2, <1>3 DEF CardKnown, Mountable, TypeInv, BaseInv
<1>5. QED
  BY <1>2, <1>3, <1>4 DEF VolumeKnown, FatStart, RootStart

\* No cluster's number is an end mark.
LEMMA EndOutside ==
  ASSUME VolumeKnown
  PROVE  /\ EndMark(card.kind) >= fs.n_fatent /\ fs.n_fatent \in Nat
         /\ fs.csize \in Nat \ {0} /\ fs.database \in Nat \ {0}
<1>1. CardKnown /\ card \in Cards /\ IsVolume(card.bpb) /\ card.kind = KindOf(nclst(card.bpb))
  BY DEF VolumeKnown, CardKnown, Mountable
<1>2. PICK n \in Nat : n = nclst(card.bpb)
  BY <1>1, Clusters
<1>3. /\ card.kind \in {12, 16, 32} /\ n <= 268435445
      /\ card.kind = 12 => n <= 4085
      /\ card.kind = 16 => n <= 65525
  BY <1>1, <1>2, VolumeFacts
<1>4. EndMark(card.kind) >= n + 2
  BY <1>1, <1>3, EndMarks
<1>5. fs.database \in Nat \ {0}
  <2>1. /\ RootStart + card.bpb.rootent \div DirPerSector = card.part + sysect(card.bpb)
        /\ RootStart \in Nat \ {0} /\ card.bpb.rootent \div DirPerSector \in Nat
    BY <1>1, Places
  <2>2. QED
    BY <2>1 DEF VolumeKnown
<1>6. QED
  BY <1>1, <1>2, <1>4, <1>5, Places DEF VolumeKnown

\* The sectors of a cluster.
LEMMA ClusterSectorIs ==
  ASSUME VolumeKnown, NEW c \in Int
  PROVE  clst2sect(c) = IF 2 <= c /\ c < fs.n_fatent THEN ClusterStart(c) ELSE 0
<1>1. fs.n_fatent \in Nat
  BY EndOutside
<1>2. CASE 2 <= c /\ c < fs.n_fatent
  <2>1. clst2sect(c) = fs.database + fs.csize * (c - 2)
    BY <1>1, <1>2 DEF clst2sect
  <2>2. ClusterStart(c) = card.part + sysect(card.bpb) + (c - 2) * card.bpb.csize
    BY <1>2, ClusterPlace DEF VolumeKnown
  <2>3. fs.csize * (c - 2) = (c - 2) * card.bpb.csize
    BY EndOutside, Distribute DEF VolumeKnown
  <2>4. QED
    BY <1>2, <2>1, <2>2, <2>3 DEF VolumeKnown
<1>3. CASE ~(2 <= c /\ c < fs.n_fatent)
  BY <1>1, <1>3 DEF clst2sect
<1>4. QED
  BY <1>2, <1>3

\* The file pointer is in cluster k of the file, or at its end.
Bpc == SS * fs.csize
AtCluster(k) ==
  /\ k \in DOMAIN card.chains[fil.obj] /\ fil.clust = card.chains[fil.obj][k]
  /\ fil.clust < fs.n_fatent
  /\ Bpc * (k - 1) < fil.fptr /\ fil.fptr <= Bpc * k

\* What f_read knows of the file, and what it has put into the buffer.
ReadInv ==
  ~Mistaken /\ fil.obj # "none" =>
    /\ fil.fptr > 0 => \E k \in Nat : AtCluster(k)
    /\ pc \in {"reading", "verify"} =>
         \A i \in 1 .. rd.br : buf[i] = <<fil.obj, fil.fptr - rd.br + i - 1>>

\* A position in a file, cluster by cluster.
LEMMA Positions ==
  ASSUME NEW b \in Nat \ {0}, NEW z \in Nat \ {0}, NEW f \in Nat
  PROVE  \E j \in Nat, cs \in 0 .. z - 1, from \in 0 .. b - 1 :
           /\ from = f % b /\ cs = (f \div b) % z
           /\ f = (b * z) * j + b * cs + from
           /\ b * cs + from < b * z /\ b * cs \in Nat
<1>1. PICK q \in Nat, from \in 0 .. b - 1 : q = f \div b /\ from = f % b /\ f = b * q + from
  <2>1. f \in Int /\ f >= 0
    OBVIOUS
  <2>2. QED
    BY <2>1, DivMod
<1>2. PICK j \in Nat, cs \in 0 .. z - 1 : cs = q % z /\ q = z * j + cs
  <2>1. q \in Int /\ q >= 0
    OBVIOUS
  <2>2. QED
    BY <2>1, DivMod
<1>3. b * q = (b * z) * j + b * cs
  <2>1. z * j \in Int /\ b \in Int /\ cs \in Int /\ z \in Int /\ j \in Int
    BY Product
  <2>2. b * (z * j + cs) = b * (z * j) + b * cs /\ b * (z * j) = (b * z) * j
    BY <2>1, Distribute
  <2>3. QED
    BY <1>2, <2>2
<1>4. b * cs + b <= b * z /\ b * cs \in Nat
  <2>1. cs \in Int /\ z \in Int /\ cs < z
    OBVIOUS
  <2>2. QED
    BY <2>1, Apart, Product
<1>5. PICK p \in Int, u \in Nat, v \in Int : p = (b * z) * j /\ u = b * cs /\ v = b * z
  <2>1. b * z \in Int /\ (b * z) * j \in Int
    BY Product
  <2>2. QED
    BY <1>4, <2>1
<1>6. f = p + u + from /\ u + from < v
  BY <1>1, <1>3, <1>4, <1>5
<1>7. QED
  BY <1>1, <1>2, <1>4, <1>5, <1>6

\* Which cluster a position is in.
LEMMA ClusterOf ==
  ASSUME NEW m \in Nat \ {0}, NEW j \in Nat, NEW k \in Nat, NEW u \in 0 .. m - 1,
         m * (k - 1) < m * j + u, m * j + u <= m * k
  PROVE  k = IF u = 0 THEN j ELSE j + 1
<1>1. PICK a \in Int, c \in Int, e \in Int : a = m * (k - 1) /\ c = m * j /\ e = m * k
  BY Product
<1>2. a < c + u /\ c + u <= e
  BY <1>1
<1>3. k - 1 < j => a + m <= c
  BY <1>1, Apart
<1>4. j < k - 1 => c + m <= a
  BY <1>1, Apart
<1>5. j < k => c + m <= e
  BY <1>1, Apart
<1>6. k < j => e + m <= c
  BY <1>1, Apart
<1>7. k - 1 = j => a = c
  BY <1>1
<1>8. a + m = e
  <2>1. m * (k - 1) = m * k + m * (-1)
    BY Distribute
  <2>2. QED
    BY <1>1, <2>1
<1>9. QED
  BY <1>2, <1>3, <1>4, <1>5, <1>6, <1>7, <1>8

\* The cluster f_read goes on to: the next of the file's, if there is one.
LEMMA FollowingIs ==
  ASSUME TypeInv, VolumeKnown, ReadInv, ~Mistaken, fil.obj # "none", NEW g \in Following
  PROVE  \E j \in Nat, cs \in 0 .. fs.csize - 1, from \in 0 .. SS - 1 :
           /\ from = fil.fptr % SS /\ cs = csect
           /\ fil.fptr = Bpc * j + SS * cs + from
           /\ SS * cs + from < Bpc /\ SS * cs \in Nat
           /\ \/ g.val = DiskError /\ MayFail
              \/ j + 1 \in DOMAIN card.chains[fil.obj]
                 /\ g.val = card.chains[fil.obj][j + 1]
              \/ j = Len(card.chains[fil.obj]) /\ g.val \in {0, EndMark(card.kind)}
<1>1. PICK b \in Nat \ {0}, z \in Nat \ {0}, f \in Nat : b = SS /\ z = fs.csize /\ f = fil.fptr
  <2>1. SS \in Nat \ {0}
    BY SizeFacts
  <2>2. fs.csize \in Nat \ {0}
    BY EndOutside
  <2>3. fil.fptr \in Nat
    BY DEF TypeInv, FileInv
  <2>4. QED
    BY <2>1, <2>2, <2>3
<1>2. PICK j \in Nat, cs \in 0 .. z - 1, from \in 0 .. b - 1 :
        /\ from = f % b /\ cs = (f \div b) % z
        /\ f = (b * z) * j + b * cs + from
        /\ b * cs + from < b * z /\ b * cs \in Nat
  <2>1. b \in Nat \ {0} /\ z \in Nat \ {0} /\ f \in Nat
    OBVIOUS
  <2>2. QED
    BY ONLY <2>1, Positions, ZenonT(30)
<1>3. cs = csect /\ from = fil.fptr % SS
  BY <1>1, <1>2 DEF csect
<1>4. fil.obj \in DOMAIN card.size /\ card \in Cards
  BY DEF TypeInv, FileInv, BaseInv
<1>5. fil.obj \in DOMAIN card.chains
  BY <1>4, ObjectFacts
<1>6. PICK ch : ch = card.chains[fil.obj]
  OBVIOUS
<1>7. PICK n \in Nat : /\ ch = card.chains[fil.obj] /\ n = Len(ch) /\ DOMAIN ch = 1 .. n
                       /\ \A i \in DOMAIN ch : ch[i] \in Nat \ {0, 1}
  <2>1. /\ Len(card.chains[fil.obj]) \in Nat
        /\ DOMAIN card.chains[fil.obj] = 1 .. Len(card.chains[fil.obj])
        /\ \A i \in DOMAIN card.chains[fil.obj] : card.chains[fil.obj][i] \in Nat \ {0, 1}
    BY <1>4, <1>5, ChainNumbers
  <2>2. QED
    BY <1>6, <2>1
<1>8. \/ g.val = DiskError /\ MayFail
      \/ j + 1 \in DOMAIN ch /\ g.val = ch[j + 1]
      \/ j = n /\ g.val \in {0, EndMark(card.kind)}
  <2>1. PICK m \in Nat \ {0} : m = b * z
    <3>1. b * z \in Nat
      BY Product
    <3>2. b * z # 0
      BY <1>2, <3>1
    <3>3. QED
      BY <3>1, <3>2
  <2>2. PICK u \in 0 .. m - 1 :
          u = b * cs + from /\ f = m * j + u /\ (u = 0 <=> from = 0 /\ cs = 0)
    <3>1. m * j \in Nat
      BY Product
    <3>2. PICK p \in Nat, v \in Nat : p = m * j /\ v = b * cs
      BY <1>2, <3>1
    <3>3. f = p + v + from /\ v + from < m
      BY <1>2, <2>1, <3>2
    <3>4. v = 0 <=> cs = 0
      BY <3>2
    <3>5. v + from = 0 <=> from = 0 /\ cs = 0
      BY <3>4
    <3>6. v + from \in 0 .. m - 1 /\ v + from = b * cs + from /\ f = p + (v + from)
      BY <3>2, <3>3
    <3>7. QED
      BY <3>2, <3>5, <3>6
  <2>3. f > 0 => \E k \in Nat : /\ k \in DOMAIN ch /\ fil.clust = ch[k] /\ fil.clust < fs.n_fatent
                                /\ k = IF u = 0 THEN j ELSE j + 1
    <3>1. SUFFICES ASSUME f > 0
                   PROVE  \E k \in Nat : /\ k \in DOMAIN ch /\ fil.clust = ch[k]
                                         /\ fil.clust < fs.n_fatent
                                         /\ k = IF u = 0 THEN j ELSE j + 1
      OBVIOUS
    <3>2. PICK k \in Nat : AtCluster(k)
      BY <1>1, <3>1 DEF ReadInv
    <3>3. /\ k \in DOMAIN ch /\ fil.clust = ch[k] /\ fil.clust < fs.n_fatent
          /\ m * (k - 1) < f /\ f <= m * k
      BY <1>1, <1>7, <2>1, <3>2 DEF AtCluster, Bpc
    <3>4. k = IF u = 0 THEN j ELSE j + 1
      BY <2>2, <3>3, ClusterOf
    <3>5. QED
      BY <3>3, <3>4
  <2>4. CASE ~(from = 0 /\ cs = 0)
    <3>1. f > 0 /\ u # 0
      <4>1. m * j \in Nat
        BY Product
      <4>2. QED
        BY <2>2, <2>4, <4>1
    <3>2. g.val = fil.clust
      <4>1. fil.fptr % SS # 0 \/ csect # 0
        BY <1>3, <2>4
      <4>2. g = [val |-> fil.clust, win |-> win]
        BY <4>1, Zenon DEF Following
      <4>3. QED
        BY <4>2
    <3>3. QED
      BY <2>3, <3>1, <3>2
  <2>5. CASE from = 0 /\ cs = 0 /\ f = 0
    <3>1. g.val = fil.sclust
      <4>1. ~(fil.fptr % SS # 0 \/ csect # 0) /\ fil.fptr = 0
        BY <1>1, <1>3, <2>5
      <4>2. Following = {[val |-> fil.sclust, win |-> win]}
        BY <4>1, Zenon DEF Following
      <4>3. QED
        BY <4>2
    <3>2. j = 0
      <4>1. j # 0 => m * 0 + m <= m * j
        BY Apart
      <4>2. PICK p \in Nat : p = m * j
        BY Product
      <4>3. f = p + u
        BY <2>2, <4>2
      <4>4. QED
        BY <2>5, <4>1, <4>2, <4>3
    <3>3. g.val = IF ch = <<>> THEN 0 ELSE ch[1]
      BY <1>7, <3>1 DEF TypeInv, FileInv
    <3>4. CASE ch = <<>>
      <4>1. n = 0
        BY <1>7, <3>4
      <4>2. QED
        BY <3>2, <3>3, <3>4, <4>1
    <3>5. CASE ch # <<>>
      <4>1. ch \in Seq(2 .. EndMark(card.kind) - 1)
        BY <1>4, <1>5, <1>7, ObjectFacts
      <4>2. 1 \in DOMAIN ch
        BY <3>5, <4>1
      <4>3. QED
        BY <3>2, <3>3, <3>5, <4>2
    <3>6. QED
      BY <3>4, <3>5
  <2>6. CASE from = 0 /\ cs = 0 /\ f > 0
    <3>1. g \in get_fat(win, fil.clust)
      <4>1. ~(fil.fptr % SS # 0 \/ csect # 0) /\ fil.fptr # 0
        BY <1>1, <1>3, <2>6
      <4>2. Following = get_fat(win, fil.clust)
        BY <4>1, Zenon DEF Following
      <4>3. QED
        BY <4>2
    <3>2. j \in DOMAIN ch /\ fil.clust = ch[j] /\ fil.clust < fs.n_fatent
      BY <2>2, <2>3, <2>6
    <3>3. ch[j] \in Nat \ {0, 1} /\ ch[j] < fs.n_fatent /\ WindowOK(win)
      BY <1>7, <3>2 DEF TypeInv, BaseInv
    <3>4. g.val = FatEntry(ch[j]) \/ (g.val = DiskError /\ MayFail)
      BY <3>1, <3>2, <3>3, GetFat
    <3>5. FatEntry(ch[j]) = IF j < n THEN ch[j + 1] ELSE EndMark(card.kind)
      BY <1>4, <1>5, <1>7, <3>2, ChainEntry
    <3>6. j \in 1 .. n
      BY <1>7, <3>2
    <3>7. QED
      BY <1>7, <3>4, <3>5, <3>6
  <2>7. QED
    BY <2>4, <2>5, <2>6
<1>9. QED
  <2>1. from \in 0 .. SS - 1 /\ cs \in 0 .. fs.csize - 1 /\ from = fil.fptr % SS
        /\ fil.fptr = Bpc * j + SS * cs + from /\ SS * cs + from < Bpc /\ SS * cs \in Nat
    BY <1>1, <1>2 DEF Bpc
  <2>2. \/ g.val = DiskError /\ MayFail
        \/ j + 1 \in DOMAIN card.chains[fil.obj] /\ g.val = card.chains[fil.obj][j + 1]
        \/ j = Len(card.chains[fil.obj]) /\ g.val \in {0, EndMark(card.kind)}
    BY <1>7, <1>8
  <2>3. QED
    BY <1>3, <2>1, <2>2, Zenon

\* A file's byte, by the cluster it is in.
LEMMA FileBytePlace ==
  ASSUME VolumeKnown, NEW x \in DOMAIN card.size, NEW j \in Nat, j + 1 \in DOMAIN card.chains[x],
         NEW u \in Nat, u < SS * fs.csize
  PROVE  FileByte(ClusterStart(card.chains[x][j + 1]) + u \div SS, u % SS) =
           <<x, (SS * fs.csize) * j + u>>
<1>1. CardKnown /\ card \in Cards
  BY DEF VolumeKnown, CardKnown
<1>2. PICK b \in Nat \ {0}, z \in Nat \ {0} : b = SS /\ z = fs.csize /\ z = card.bpb.csize
  BY SizeFacts, EndOutside DEF VolumeKnown
<1>3. PICK q \in Nat, r \in 0 .. b - 1 : q = u \div b /\ r = u % b /\ u = b * q + r
  <2>1. u \in Int /\ u >= 0
    OBVIOUS
  <2>2. QED
    BY <2>1, DivMod
<1>4. q < z
  <2>1. z < q => b * z + b <= b * q
    BY Apart
  <2>2. PICK p \in Int, v \in Int : p = b * z /\ v = b * q
    BY Product
  <2>3. v + r < p
    BY <1>2, <1>3, <2>2
  <2>4. z = q => p = v
    BY <2>2
  <2>5. QED
    BY <2>1, <2>2, <2>3, <2>4
<1>5. PICK k \in Nat : k = z * j + q + 1 /\ (k - 1) \div z = j /\ (k - 1) % z = q
  <2>1. q \in 0 .. z - 1 /\ j \in Int
    BY <1>4
  <2>2. (z * j + q) \div z = j /\ (z * j + q) % z = q
    BY <2>1, DivUnique
  <2>3. z * j + q + 1 \in Nat /\ z * j + q \in Nat
    BY Product
  <2>4. PICK p \in Nat : p = z * j + q
    BY <2>3
  <2>5. p + 1 \in Nat /\ (p + 1) - 1 = p
    OBVIOUS
  <2>6. QED
    BY <2>2, <2>4, <2>5
<1>6. ~Fixed(x) /\ x \in DOMAIN card.chains
  <2>1. "root" \notin DOMAIN card.size /\ DOMAIN card.size \subseteq DOMAIN card.chains
    BY <1>1, ObjectFacts
  <2>2. QED
    BY <2>1 DEF Fixed
<1>7. k \in DOMAIN SectorsOf(x)
      /\ SectorsOf(x)[k] = ClusterStart(card.chains[x][j + 1]) + q
  <2>1. PICK n \in Nat : n = Len(card.chains[x]) /\ DOMAIN card.chains[x] = 1 .. n
    BY <1>1, <1>6, ChainNumbers
  <2>2. PICK m \in Nat : m = n * z
    BY Product
  <2>3. k \in 1 .. m
    <3>1. j < n
      BY <2>1
    <3>2. z * j + z <= z * n
      BY <3>1, Apart
    <3>3. z * n = m
      BY <2>2, Distribute
    <3>4. PICK p \in Nat : p = z * j
      BY Product
    <3>5. k = p + q + 1 /\ p + z <= m
      BY <1>5, <3>2, <3>3, <3>4
    <3>6. QED
      BY <1>4, <3>5
  <2>4. SectorsOf(x) = [l \in 1 .. Len(card.chains[x]) * card.bpb.csize |->
                          ClusterStart(card.chains[x][1 + (l - 1) \div card.bpb.csize])
                            + ((l - 1) % card.bpb.csize)]
    BY <1>6 DEF SectorsOf, Fixed
  <2>5. DOMAIN SectorsOf(x) = 1 .. m
    BY <1>2, <2>1, <2>2, <2>4
  <2>6. SectorsOf(x)[k] = ClusterStart(card.chains[x][1 + (k - 1) \div z]) + ((k - 1) % z)
    BY <1>2, <2>1, <2>2, <2>3, <2>4
  <2>7. 1 + j = j + 1
    OBVIOUS
  <2>8. QED
    BY <1>5, <2>3, <2>5, <2>6, <2>7
<1>8. FileByte(SectorsOf(x)[k], r) = <<x, (k - 1) * SS + r>>
  BY <1>1, <1>7, FileByteIs
<1>9. (k - 1) * SS + r = (b * z) * j + u
  <2>1. (k - 1) * b = b * (z * j + q)
    <3>1. k - 1 = z * j + q
      <4>1. PICK p \in Nat : p = z * j
        BY Product
      <4>2. QED
        BY <1>5, <4>1
    <3>2. z * j + q \in Int /\ b \in Int
      BY Product
    <3>3. QED
      BY <3>1, <3>2, Distribute
  <2>2. b * (z * j + q) = (b * z) * j + b * q
    <3>1. z * j \in Int /\ b \in Int /\ q \in Int /\ z \in Int /\ j \in Int
      BY Product
    <3>2. b * (z * j + q) = b * (z * j) + b * q /\ b * (z * j) = (b * z) * j
      BY <3>1, Distribute
    <3>3. QED
      BY <3>2
  <2>3. PICK p \in Int, v \in Int : p = (b * z) * j /\ v = b * q
    <3>1. b * z \in Int
      BY Product
    <3>2. QED
      BY <3>1, Product
  <2>4. (k - 1) * b = p + v /\ u = v + r
    BY <1>3, <2>1, <2>2, <2>3
  <2>5. QED
    BY <1>2, <2>3, <2>4
<1>10. QED
  BY <1>2, <1>3, <1>7, <1>8, <1>9

LEMMA ReadTurnReads ==
  ASSUME TypeInv, ~Mistaken, ReadInv, ReadTurn, pc = "reading", pc' = pc
  PROVE  ReadInv'
<1>1. PICK g \in Following, first \in Nat, cs \in Nat, from \in Nat, rcnt \in Nat, s \in Int :
        /\ g.val >= 2 /\ g.val # DiskError /\ first = clst2sect(g.val) /\ first # 0
        /\ cs = csect /\ cs < fs.csize /\ from = fil.fptr % SS
        /\ rcnt > 0 /\ rcnt <= rd.btr /\ from + rcnt <= SS * (fs.csize - cs)
        /\ win' = g.win
        /\ buf' = Transferred(first + cs, from, rcnt)
        /\ rd' = [btr |-> rd.btr - rcnt, br |-> rd.br + rcnt]
        /\ fil' = [fil EXCEPT !.clust = g.val, !.fptr = fil.fptr + rcnt, !.sect = s]
  BY ReadTurnIs
<1>2. UNCHANGED <<card, fs>>
  BY DEF ReadTurn
<1>3. VolumeKnown /\ fil.obj # "none"
  BY Known DEF TypeInv, StepInv, FileInv
<1>4. PICK x \in DOMAIN card.size : x = fil.obj
  BY <1>3 DEF TypeInv, FileInv
<1>5. PICK b \in Nat \ {0}, z \in Nat \ {0}, f \in Nat, br \in Nat, c \in Int :
        b = SS /\ z = fs.csize /\ f = fil.fptr /\ br = rd.br /\ c = g.val
  <2>1. SS \in Nat \ {0} /\ fs.csize \in Nat \ {0}
    BY <1>3, SizeFacts, EndOutside
  <2>2. fil.fptr \in Nat /\ rd.br \in Nat
    BY SizeFacts DEF TypeInv, FileInv, CountInv
  <2>3. QED
    BY <2>1, <2>2, FollowingTypes
<1>6. PICK j \in Nat :
        /\ f = (b * z) * j + b * cs + from /\ b * cs + from < b * z /\ b * cs \in Nat
        /\ j + 1 \in DOMAIN card.chains[x] /\ c = card.chains[x][j + 1]
  <2>1. PICK j \in Nat, cs2 \in 0 .. fs.csize - 1, from2 \in 0 .. SS - 1 :
          /\ from2 = fil.fptr % SS /\ cs2 = csect
          /\ fil.fptr = Bpc * j + SS * cs2 + from2
          /\ SS * cs2 + from2 < Bpc /\ SS * cs2 \in Nat
          /\ \/ g.val = DiskError /\ MayFail
             \/ j + 1 \in DOMAIN card.chains[fil.obj] /\ g.val = card.chains[fil.obj][j + 1]
             \/ j = Len(card.chains[fil.obj]) /\ g.val \in {0, EndMark(card.kind)}
    BY <1>3, FollowingIs
  <2>2. f = (b * z) * j + b * cs + from /\ b * cs + from < b * z /\ b * cs \in Nat
    BY <1>1, <1>5, <2>1 DEF Bpc
  <2>3. g.val # EndMark(card.kind)
    <3>1. EndMark(card.kind) >= fs.n_fatent /\ fs.n_fatent \in Nat
      BY <1>3, EndOutside
    <3>2. clst2sect(c) # 0
      BY <1>1, <1>5
    <3>3. c < fs.n_fatent
      BY <1>3, <3>2, ClusterSectorIs
    <3>4. QED
      BY <1>5, <3>1, <3>3
  <2>4. j + 1 \in DOMAIN card.chains[x] /\ c = card.chains[x][j + 1]
    BY <1>1, <1>4, <1>5, <2>1, <2>3
  <2>5. QED
    BY <2>2, <2>4
<1>7. first = ClusterStart(c) /\ c < fs.n_fatent
  BY <1>1, <1>3, <1>5, ClusterSectorIs
<1>8. /\ fil'.obj = x /\ fil'.fptr = f + rcnt /\ fil'.clust = c
      /\ rd'.br = br + rcnt
  BY <1>1, <1>4, <1>5 DEF TypeInv, FileInv
<1>9. PICK p \in Nat, u \in Nat, m \in Nat : p = (b * z) * j /\ u = b * cs /\ m = b * z
  <2>1. b * z \in Nat
    BY Product
  <2>2. QED
    BY <1>6, <2>1, Product
<1>10. f = p + u + from /\ u + from + rcnt <= m
  <2>1. b * (z - cs) = m - u
    <3>1. b \in Int /\ z \in Int /\ cs \in Int /\ -cs \in Int
      OBVIOUS
    <3>2. b * (z + (-cs)) = b * z + b * (-cs)
      BY <3>1, Distribute
    <3>3. b * (-cs) = -(b * cs)
      BY <3>1
    <3>4. z - cs = z + (-cs)
      BY <3>1
    <3>5. QED
      BY <1>9, <3>2, <3>3, <3>4
  <2>2. from + rcnt <= b * (z - cs)
    BY <1>1, <1>5
  <2>3. QED
    BY <1>6, <1>9, <2>1, <2>2
<1>11. AtCluster(j + 1)'
  <2>1. Bpc' = m
    BY <1>2, <1>5, <1>9 DEF Bpc
  <2>2. (j + 1) - 1 = j
    OBVIOUS
  <2>3. m * j = p /\ m * (j + 1) = p + m
    <3>1. m * (j + 1) = m * j + m * 1
      BY Distribute
    <3>2. QED
      BY <1>9, <3>1
  <2>4. p < f + rcnt /\ f + rcnt <= p + m
    BY <1>1, <1>10
  <2>5. QED
    BY <1>2, <1>6, <1>7, <1>8, <2>1, <2>2, <2>3, <2>4 DEF AtCluster
<1>12. ASSUME NEW i \in 1 .. br + rcnt
       PROVE  buf'[i] = <<x, (f + rcnt) - (br + rcnt) + i - 1>>
  <2>1. i \in 1 .. BufSize
    <3>1. rd.br + rd.btr <= BufSize /\ rd.btr \in Nat /\ BufSize \in Nat
      BY SizeFacts DEF TypeInv, CountInv
    <3>2. QED
      BY <1>1, <1>5, <3>1
  <2>2. buf'[i] = IF i - 1 \in br .. br + rcnt - 1
                  THEN FileByte(first + cs + (from + i - 1 - br) \div SS, (from + i - 1 - br) % SS)
                  ELSE buf[i]
    BY <1>1, <1>5, <2>1 DEF Transferred
  <2>3. CASE i - 1 \notin br .. br + rcnt - 1
    <3>1. i \in 1 .. br
      BY <2>3
    <3>2. buf[i] = <<x, f - br + i - 1>>
      BY <1>3, <1>4, <1>5, <3>1 DEF ReadInv
    <3>3. (f + rcnt) - (br + rcnt) + i - 1 = f - br + i - 1
      OBVIOUS
    <3>4. QED
      BY <2>2, <2>3, <3>2, <3>3
  <2>4. CASE i - 1 \in br .. br + rcnt - 1
    <3>1. PICK o \in Nat : o = from + i - 1 - br /\ o < from + rcnt
      BY <2>4
    <3>2. PICK q \in Nat, r \in 0 .. b - 1 : q = o \div b /\ r = o % b /\ o = b * q + r
      <4>1. o \in Int /\ o >= 0
        OBVIOUS
      <4>2. o \div b \in Nat /\ o % b \in 0 .. b - 1 /\ o = b * (o \div b) + (o % b)
        BY <4>1, DivMod
      <4>3. QED
        BY ONLY <4>2, Zenon
    <3>3. (u + o) \div b = cs + q /\ (u + o) % b = r
      <4>1. b * (cs + q) = b * cs + b * q
        BY Distribute
      <4>2. PICK v \in Int : v = b * q
        BY Product
      <4>3. u + o = b * (cs + q) + r
        BY <1>9, <3>2, <4>1, <4>2
      <4>4. cs + q \in Int
        OBVIOUS
      <4>5. QED
        BY <4>3, <4>4, DivUnique
    <3>4. u + o \in Nat /\ u + o < SS * fs.csize
      BY <1>5, <1>9, <1>10, <3>1
    <3>5. FileByte(ClusterStart(card.chains[x][j + 1]) + (u + o) \div SS, (u + o) % SS) =
            <<x, (SS * fs.csize) * j + (u + o)>>
      BY <1>3, <1>6, <3>4, FileBytePlace
    <3>6. PICK d \in Int : d = ClusterStart(c) /\ d = first
      BY <1>7
    <3>7. d + (cs + q) = d + cs + q
      OBVIOUS
    <3>8. buf'[i] = <<x, p + (u + o)>>
      BY <1>5, <1>6, <1>9, <2>2, <2>4, <3>1, <3>2, <3>3, <3>5, <3>6, <3>7
    <3>9. p + (u + o) = (f + rcnt) - (br + rcnt) + i - 1
      BY <1>10, <3>1
    <3>10. QED
      BY <3>8, <3>9
  <2>5. QED
    BY <2>3, <2>4
<1>13. QED
  <2>1. j + 1 \in Nat
    OBVIOUS
  <2>2. (\E k \in Nat : AtCluster(k))'
    BY <1>11, <2>1
  <2>3. QED
    BY <1>8, <1>12, <2>2 DEF ReadInv

LEMMA ReadKept ==
  ASSUME ReadInv, UNCHANGED <<card, fs, buf>>, rd'.br = rd.br, fil'.obj = fil.obj,
         fil'.fptr = fil.fptr, fil'.clust = fil.clust,
         pc' \in {"reading", "verify"} => pc \in {"reading", "verify"}
  PROVE  ReadInv'
<1>1. Mistaken' = Mistaken
  BY DEF Mistaken
<1>2. ASSUME NEW k \in Nat
      PROVE  AtCluster(k) => AtCluster(k)'
  BY DEF AtCluster, Bpc
<1>3. QED
  BY <1>1, <1>2 DEF ReadInv

\* Nothing has been read.
LEMMA ReadStarts ==
  ASSUME fil'.fptr = 0, pc' \notin {"reading", "verify"}
  PROVE  ReadInv'
BY DEF ReadInv

\* A step of main alone reads nothing.
LEMMA MainSteps ==
  ASSUME MainAlone
  PROVE  /\ pc' # "reading" /\ (pc' = "verify" => pc = "reading")
         /\ pc' \notin {"start", "mounting", "opening"}
<1>1. CASE LoadDldi
  BY <1>1 DEF LoadDldi
<1>2. CASE NoParameters
  BY <1>2 DEF NoParameters, Stop
<1>3. CASE Mounted
  BY <1>3 DEF Mounted, Stop
<1>4. CASE Opened
  BY <1>4 DEF Opened, Stop
<1>5. CASE CheckSize
  BY <1>5 DEF CheckSize, Stop
<1>6. CASE CopyBlock
  BY <1>6 DEF CopyBlock
<1>7. CASE NoBlock
  BY <1>7 DEF NoBlock, Stop
<1>8. CASE Verify
  BY <1>8 DEF Verify, Stop
<1>9. CASE CheckTotal
  BY <1>9 DEF CheckTotal, Stop
<1>10. QED
  BY <1>1, <1>2, <1>3, <1>4, <1>5, <1>6, <1>7, <1>8, <1>9, Zenon DEF MainAlone

\* A step of FatFs while main waits for it.
LEMMA FatSplit ==
  ASSUME TypeInv, Fat
  PROVE  /\ MainStays
         /\ \/ pc = "mounting" /\ (find_volume \/ mount_volume)
            \/ pc = "opening" /\ (FindFails \/ EnterDir \/ OpenFile \/ FindNext)
            \/ pc = "reading" /\ (ReadEnds \/ ReadTurn \/ ReadFails)
         /\ hit' = IF pc = "opening" /\ ioErrors' # ioErrors THEN hit \cup {path} ELSE hit
<1>1. /\ MainStays /\ FatStep
      /\ hit' = IF pc = "opening" /\ ioErrors' # ioErrors THEN hit \cup {path} ELSE hit
  BY FatIs
<1>2. /\ op \in {"check", "geometry"} => pc = "mounting"
      /\ op = "find" => pc = "opening"
      /\ op = "read" => pc = "reading"
  BY DEF TypeInv, StepInv
<1>3. /\ find_volume => op = "check"
      /\ mount_volume => op = "geometry"
  BY DEF find_volume, mount_volume
<1>4. /\ FindFails \/ EnterDir \/ OpenFile \/ FindNext => op = "find"
      /\ ReadEnds \/ ReadTurn \/ ReadFails => op = "read"
  BY DEF FindFails, EnterDir, OpenFile, FindNext, ReadEnds, ReadTurn, ReadFails
<1>5. QED
  BY <1>1, <1>2, <1>3, <1>4 DEF FatStep

LEMMA ReadNext ==
  ASSUME TypeInv, TypeInv', ReadInv, [Next]_vars
  PROVE  ReadInv'
<1>1. CASE MainAlone
  <2>1. UNCHANGED <<card, fs, buf, rd, fil>>
    BY <1>1, FatStays DEF fatVars
  <2>2. pc' \in {"reading", "verify"} => pc \in {"reading", "verify"}
    BY <1>1, MainSteps
  <2>3. QED
    BY <2>1, <2>2, ReadKept
<1>2. CASE Mount
  <2>1. pc' = "mounting"
    BY <1>2 DEF Mount
  <2>2. fil'.fptr = 0
    BY <2>1 DEF TypeInv, FileInv
  <2>3. QED
    BY <2>1, <2>2, ReadStarts
<1>3. CASE Open
  <2>1. pc' = "opening"
    BY <1>3 DEF Open
  <2>2. fil'.fptr = 0
    BY <2>1 DEF TypeInv, FileInv
  <2>3. QED
    BY <2>1, <2>2, ReadStarts
<1>4. CASE Read
  <2>1. UNCHANGED <<card, fs, buf, fil>> /\ rd'.br = 0 /\ pc = "read"
    BY <1>4, ReadTypes
  <2>2. Mistaken' = Mistaken
    BY <2>1 DEF Mistaken
  <2>3. ASSUME NEW k \in Nat
        PROVE  AtCluster(k) => AtCluster(k)'
    BY <2>1 DEF AtCluster, Bpc
  <2>4. QED
    BY <2>1, <2>2, <2>3 DEF ReadInv
<1>5. CASE Fat
  <2>1. pc' = pc
    BY <1>5, FatIs DEF MainStays
  <2>2. CASE pc \in {"mounting", "opening"}
    <3>1. fil'.fptr = 0
      BY <2>1, <2>2 DEF TypeInv, FileInv
    <3>2. QED
      BY <2>1, <2>2, <3>1, ReadStarts
  <2>3. CASE pc = "reading" /\ ReadEnds
    BY <2>1, <2>3, ReadKept DEF ReadEnds
  <2>4. CASE pc = "reading" /\ ReadFails
    <3>1. UNCHANGED <<card, fs, buf, rd>> /\ \E r : fil' = [fil EXCEPT !.err = r]
      BY <2>4 DEF ReadFails, Abort
    <3>2. fil'.obj = fil.obj /\ fil'.fptr = fil.fptr /\ fil'.clust = fil.clust
      BY <3>1 DEF TypeInv, FileInv
    <3>3. QED
      BY <2>1, <3>1, <3>2, ReadKept
  <2>5. CASE pc = "reading" /\ ReadTurn
    <3>1. CASE Mistaken
      <4>1. Mistaken'
        BY <2>5, <3>1 DEF ReadTurn, Mistaken
      <4>2. QED
        BY <4>1 DEF ReadInv
    <3>2. CASE ~Mistaken
      BY <2>1, <2>5, <3>2, ReadTurnReads
    <3>3. QED
      BY <3>1, <3>2
  <2>6. QED
    BY <1>5, <2>2, <2>3, <2>4, <2>5, FatSplit
<1>6. CASE UNCHANGED vars
  BY <1>6, ReadKept DEF vars, fatVars, mainVars
<1>7. QED
  BY <1>1, <1>2, <1>3, <1>4, <1>5, <1>6, Steps

LEMMA ReadInvHolds == Spec => []ReadInv
<1>1. Init => ReadInv
  BY DEF Init, FatInit, NoFile, ReadInv
<1>2. TypeInv /\ TypeInv' /\ ReadInv /\ [Next]_vars => ReadInv'
  BY ReadNext
<1>3. QED
  BY <1>1, <1>2, TypesHold, PTL DEF Spec

\* Whatever the order of a file's clusters, and wherever the bytes of their entries
\* lie in the FAT, f_read puts into the buffer the file's bytes from the last
\* call's position on, block after block (ff.c:1211-1253, 3937-4001).
THEOREM ReadsKernel == Spec => []ReadsTheFile
<1>1. ASSUME TypeInv, ReadInv
      PROVE  ReadsTheFile
  <2>1. SUFFICES ASSUME ~Mistaken, pc = "reading", NEW i \in 1 .. rd.br
                 PROVE  buf[i] = <<fil.obj, total + i - 1>>
    BY DEF ReadsTheFile
  <2>2. fil.obj # "none"
    BY <1>1, <2>1 DEF TypeInv, FileInv
  <2>3. buf[i] = <<fil.obj, fil.fptr - rd.br + i - 1>>
    BY <1>1, <2>1, <2>2 DEF ReadInv
  <2>4. PICK f \in Nat, t \in Nat, r \in Nat : f = fil.fptr /\ t = total /\ r = rd.br /\ t + r = f
    BY <1>1, <2>1, SizeFacts DEF TypeInv, CountInv, FileInv
  <2>5. f - r + i - 1 = t + i - 1
    BY <2>4
  <2>6. QED
    BY <2>3, <2>4, <2>5
<1>2. QED
  BY <1>1, TypesHold, ReadInvHolds, PTL

-----------------------------------------------------------------------------
\* Opening

\* The lists on the card stay what they are.
LEMMA CardStays ==
  ASSUME card' = card
  PROVE  /\ \A d, n : Named(d, n)' = Named(d, n)
         /\ \A d, n : FileIn(d, n)' = FileIn(d, n)
         /\ \A p : Lookup(p)' = Lookup(p)
         /\ Present' = Present
         /\ \A x : SectorsOf(x)' = SectorsOf(x)
<1>1. \A d, n : Named(d, n)' = Named(d, n)
  BY DEF Named
<1>2. \A d, n : FileIn(d, n)' = FileIn(d, n)
  BY <1>1 DEF FileIn
<1>3. \A p : Lookup(p)' = Lookup(p)
  BY <1>1, <1>2 DEF Lookup
<1>4. Present' = Present
  BY <1>3 DEF Present
<1>5. \A x : SectorsOf(x)' = SectorsOf(x)
  BY DEF SectorsOf, ClusterStart, RootStart, FatStart
<1>6. QED
  BY <1>1, <1>2, <1>3, <1>4, <1>5

\* The search has come to an entry of directory d, and none before it ended it.
SearchAt(d) ==
  LET k == dp.dptr \div DirPerSector + 1
  IN  /\ dp.dptr < MAX_DIR
      /\ k \in DOMAIN SectorsOf(d) /\ dp.sect = SectorsOf(d)[k]
      /\ dp.clust = IF Fixed(d) THEN 0 ELSE card.chains[d][1 + (k - 1) \div fs.csize]
      /\ \A i \in 1 .. dp.dptr :
           i \in DOMAIN card.dirs[d] /\ card.dirs[d][i].name # "last" /\ ~Matches(card.dirs[d][i])

\* It is the directory in which the rest of the path is to be looked up.
PathAt(d) ==
  \/ d = "root" /\ dp.path = Paths[path]
  \/ /\ Len(Paths[path]) = 2 /\ dp.path = <<Paths[path][2]>>
     /\ Named("root", Paths[path][1]).attr = "dir" /\ d = Named("root", Paths[path][1]).obj
SearchInv == ~Mistaken /\ op = "find" => \E d \in DOMAIN card.dirs : SearchAt(d) /\ PathAt(d)

\* What main knows of the paths: those before the present one are not there, or a
\* command failed.
Tried == \A i \in Present : i < path => i \in hit
Chosen == path \in Present /\ fil.obj = Lookup(Paths[path])
OpenInv ==
  /\ pc \in {"start", "mount", "mounting"} => path = 1
  /\ ~Mistaken =>
       /\ pc \in {"open", "opening", "size"} => Tried
       /\ pc = "opening" /\ op = "idle" =>
            IF res = "ok" THEN Chosen ELSE path \in Present => path \in hit
       /\ pc \in {"size", "read", "reading", "verify", "total", "started"} => Chosen
       /\ screen = "cyan" => Present \subseteq hit

\* The least member of a set.
LEMMA LeastIs ==
  ASSUME NEW S, S \subseteq Int, NEW m \in S, \A i \in S : m <= i
  PROVE  Min(S) = m
<1>1. \E x \in S : \A y \in S : x <= y
  OBVIOUS
<1>2. Min(S) \in S /\ \A y \in S : Min(S) <= y
  BY <1>1, Zenon DEF Min
<1>3. PICK v : v = Min(S)
  OBVIOUS
<1>4. v \in Int /\ m \in Int /\ v <= m /\ m <= v
  BY <1>2, <1>3
<1>5. QED
  BY <1>3, <1>4

\* The entry the search is at.
LEMMA SearchEntry ==
  ASSUME TypeInv, VolumeKnown, NEW d \in DOMAIN card.dirs, SearchAt(d)
  PROVE  /\ EntryAt(dp.sect, dp.dptr % DirPerSector) =
              IF dp.dptr + 1 \in DOMAIN card.dirs[d] THEN card.dirs[d][dp.dptr + 1] ELSE Last
         /\ dp.dptr \in Nat /\ Len(card.dirs[d]) \in Nat
         /\ DOMAIN card.dirs[d] = 1 .. Len(card.dirs[d])
         /\ d \in DOMAIN card.chains
<1>1. CardKnown /\ card \in Cards
  BY DEF VolumeKnown, CardKnown
<1>2. PICK n \in Nat, b \in Nat \ {0} : n = dp.dptr /\ b = DirPerSector
  BY SizeFacts DEF TypeInv, BaseInv
<1>3. PICK q \in Nat, r \in 0 .. b - 1 : q = n \div b /\ r = n % b /\ n = b * q + r
  <2>1. n \in Int /\ n >= 0
    OBVIOUS
  <2>2. QED
    BY <2>1, DivMod
<1>4. q + 1 \in DOMAIN SectorsOf(d) /\ dp.sect = SectorsOf(d)[q + 1]
  BY <1>2, <1>3 DEF SearchAt
<1>5. EntryAt(SectorsOf(d)[q + 1], r) =
        IF ((q + 1) - 1) * DirPerSector + r + 1 \in DOMAIN card.dirs[d]
        THEN card.dirs[d][((q + 1) - 1) * DirPerSector + r + 1] ELSE Last
  BY <1>1, <1>4, EntryIs
<1>6. ((q + 1) - 1) * DirPerSector + r + 1 = n + 1
  <2>1. ((q + 1) - 1) * b = b * q
    BY Distribute
  <2>2. PICK p \in Int : p = b * q
    BY Product
  <2>3. QED
    BY <1>2, <1>3, <2>1, <2>2
<1>7. d \in DOMAIN card.chains /\ DOMAIN card.dirs[d] = 1 .. Len(card.dirs[d])
      /\ Len(card.dirs[d]) \in Nat
  BY <1>1, ObjectFacts
<1>8. QED
  BY <1>2, <1>3, <1>4, <1>5, <1>6, <1>7

\* An entry that matches is the one the name stands for.
LEMMA SearchFinds ==
  ASSUME TypeInv, VolumeKnown, NEW d \in DOMAIN card.dirs, SearchAt(d),
         Matches(EntryAt(dp.sect, dp.dptr % DirPerSector))
  PROVE  Named(d, Head(dp.path)) = EntryAt(dp.sect, dp.dptr % DirPerSector)
<1>1. PICK e : e = EntryAt(dp.sect, dp.dptr % DirPerSector)
  OBVIOUS
<1>2. PICK n \in Nat : /\ e = EntryAt(dp.sect, dp.dptr % DirPerSector) /\ n = dp.dptr
                       /\ e = IF n + 1 \in DOMAIN card.dirs[d]
                              THEN card.dirs[d][n + 1] ELSE Last
  BY <1>1, SearchEntry
<1>3. n + 1 \in DOMAIN card.dirs[d] /\ e = card.dirs[d][n + 1]
      /\ e.name # "last" /\ e.attr # "label" /\ e.name = Head(dp.path)
  BY <1>2 DEF Matches, Last
<1>4. DOMAIN card.dirs[d] = 1 .. Len(card.dirs[d]) /\ MAX_DIR \in Nat /\ n < MAX_DIR
  BY <1>2, SearchEntry, SizeFacts DEF SearchAt
<1>5. \A i \in 1 .. n : card.dirs[d][i].name # "last" /\ ~Matches(card.dirs[d][i])
  BY <1>2 DEF SearchAt
<1>6. PICK at : at = {i \in DOMAIN card.dirs[d] :
                        /\ card.dirs[d][i].name = Head(dp.path) /\ card.dirs[d][i].attr # "label"
                        /\ i <= MAX_DIR
                        /\ \A j \in 1 .. i : card.dirs[d][j].name # "last"}
  OBVIOUS
<1>7. n + 1 \in at
  <2>1. \A j \in 1 .. n + 1 : card.dirs[d][j].name # "last"
    BY <1>3, <1>5
  <2>2. n + 1 <= MAX_DIR
    BY <1>4
  <2>3. QED
    BY <1>3, <1>6, <2>1, <2>2
<1>8. ASSUME NEW i \in at
      PROVE  n + 1 <= i
  <2>1. i \in Nat \ {0} /\ card.dirs[d][i].name = Head(dp.path) /\ card.dirs[d][i].attr # "label"
    BY <1>4, <1>6
  <2>2. i \in 1 .. n => Matches(card.dirs[d][i])
    BY <1>5, <2>1 DEF Matches
  <2>3. QED
    BY <1>5, <2>1, <2>2
<1>9. Min(at) = n + 1
  <2>1. at \subseteq Int
    BY <1>4, <1>6
  <2>2. n + 1 \in Int /\ \A i \in at : n + 1 <= i
    BY <1>8
  <2>3. QED
    BY <1>7, <2>1, <2>2, LeastIs
<1>10. Named(d, Head(dp.path)) = IF at = {} THEN Last ELSE card.dirs[d][Min(at)]
  BY <1>6 DEF Named
<1>11. QED
  BY <1>2, <1>3, <1>7, <1>9, <1>10

\* When the directory ends, or its limit is reached, nothing has the name.
LEMMA SearchMisses ==
  ASSUME TypeInv, NEW d \in DOMAIN card.dirs, NEW n \in Nat,
         Len(card.dirs[d]) \in Nat, DOMAIN card.dirs[d] = 1 .. Len(card.dirs[d]),
         \A i \in 1 .. n : i \in DOMAIN card.dirs[d] => ~Matches(card.dirs[d][i]),
         \/ n >= MAX_DIR
         \/ n >= Len(card.dirs[d])
         \/ n + 1 \in DOMAIN card.dirs[d] /\ card.dirs[d][n + 1].name = "last"
  PROVE  Named(d, Head(dp.path)) = Last
<1>1. PICK at : at = {i \in DOMAIN card.dirs[d] :
                        /\ card.dirs[d][i].name = Head(dp.path) /\ card.dirs[d][i].attr # "label"
                        /\ i <= MAX_DIR
                        /\ \A j \in 1 .. i : card.dirs[d][j].name # "last"}
  OBVIOUS
<1>2. ASSUME NEW i \in at
      PROVE  FALSE
  <2>1. /\ i \in DOMAIN card.dirs[d] /\ card.dirs[d][i].name = Head(dp.path)
        /\ card.dirs[d][i].attr # "label" /\ i <= MAX_DIR
        /\ \A j \in 1 .. i : card.dirs[d][j].name # "last"
    BY <1>1
  <2>2. i \in Nat \ {0} /\ i <= Len(card.dirs[d]) /\ MAX_DIR \in Nat
    BY <2>1, SizeFacts
  <2>3. card.dirs[d][i].name # "last"
    BY <2>1, <2>2
  <2>4. Matches(card.dirs[d][i])
    BY <2>1, <2>3 DEF Matches
  <2>5. i > n
    BY <2>1, <2>2, <2>4
  <2>6. ~(n + 1 \in DOMAIN card.dirs[d] /\ card.dirs[d][n + 1].name = "last")
    BY <2>1, <2>2, <2>5
  <2>7. QED
    BY <2>1, <2>2, <2>5, <2>6
<1>3. at = {}
  BY <1>2
<1>4. QED
  BY <1>1, <1>3 DEF Named

\* What the path leads to, by the name that is being looked for.
LEMMA LookupIs ==
  ASSUME TypeInv, NEW d, PathAt(d)
  PROVE  /\ Len(dp.path) = 1 => Lookup(Paths[path]) = FileIn(d, Head(dp.path))
         /\ Len(dp.path) # 1 =>
              /\ d = "root" /\ dp.path = Paths[path] /\ Len(Paths[path]) = 2
              /\ Tail(dp.path) = <<Paths[path][2]>> /\ Head(dp.path) = Paths[path][1]
              /\ Lookup(Paths[path]) =
                   IF Named(d, Head(dp.path)).attr = "dir"
                   THEN FileIn(Named(d, Head(dp.path)).obj, Paths[path][2]) ELSE "none"
<1>1. path \in DOMAIN Paths
  BY DEF TypeInv, BaseInv
<1>2. PICK p : p = Paths[path]
  OBVIOUS
<1>3. p \in Seq(STRING) /\ Len(p) \in {1, 2}
  <2>1. Paths \in Seq(Seq(STRING))
    BY LoaderAssumption
  <2>2. Paths[path] \in Seq(STRING)
    BY <1>1, <2>1
  <2>3. Len(Paths[path]) \in {1, 2}
    BY <1>1, LoaderAssumption
  <2>4. QED
    BY <1>2, <2>2, <2>3
<1>4. CASE d = "root" /\ dp.path = p
  <2>1. Head(p) = p[1]
    BY <1>3
  <2>2. CASE Len(p) = 1
    BY <1>2, <1>4, <2>1, <2>2 DEF Lookup
  <2>3. CASE Len(p) = 2
    <3>1. Tail(p) = <<p[2]>>
      <4>1. p = <<p[1], p[2]>>
        BY <1>3, <2>3
      <4>2. PICK a, b : a = p[1] /\ b = p[2]
        OBVIOUS
      <4>3. Tail(<<a, b>>) = <<b>>
        OBVIOUS
      <4>4. QED
        BY <4>1, <4>2, <4>3
    <3>2. Lookup(p) = IF Named("root", p[1]).attr = "dir"
                      THEN FileIn(Named("root", p[1]).obj, p[2]) ELSE "none"
      BY <2>3 DEF Lookup
    <3>3. QED
      BY <1>2, <1>4, <2>1, <2>3, <3>1, <3>2
  <2>4. QED
    BY <1>3, <2>2, <2>3
<1>5. CASE /\ Len(p) = 2 /\ dp.path = <<p[2]>>
           /\ Named("root", p[1]).attr = "dir" /\ d = Named("root", p[1]).obj
  <2>1. Len(dp.path) = 1 /\ Head(dp.path) = p[2]
    BY <1>5
  <2>2. Lookup(p) = FileIn(d, p[2])
    BY <1>5 DEF Lookup
  <2>3. QED
    BY <1>2, <2>1, <2>2
<1>6. QED
  BY <1>2, <1>4, <1>5 DEF PathAt

\* The first sector of a directory, and the sectors after it.
LEMMA FirstSector ==
  ASSUME VolumeKnown, NEW d \in DOMAIN card.dirs, ~Fixed(d), 1 \in DOMAIN card.chains[d]
  PROVE  /\ 1 \in DOMAIN SectorsOf(d)
         /\ SectorsOf(d)[1] = clst2sect(card.chains[d][1])
         /\ clst2sect(card.chains[d][1]) # 0
<1>1. CardKnown /\ card \in Cards /\ d \in DOMAIN card.chains
  BY ObjectFacts DEF VolumeKnown, CardKnown
<1>2. PICK z \in Nat \ {0} : z = card.bpb.csize /\ z = fs.csize
  BY EndOutside DEF VolumeKnown
<1>3. PICK n \in Nat \ {0}, c \in Nat \ {0, 1} :
        n = Len(card.chains[d]) /\ c = card.chains[d][1]
  <2>1. Len(card.chains[d]) \in Nat /\ DOMAIN card.chains[d] = 1 .. Len(card.chains[d])
        /\ card.chains[d][1] \in Nat \ {0, 1}
    BY <1>1, ChainNumbers
  <2>2. QED
    BY <2>1
<1>4. n * z \in Nat \ {0} /\ 0 \div z = 0 /\ 0 % z = 0
  <2>1. n * z \in Nat /\ n * z # 0
    BY Product
  <2>2. 0 \in Int /\ 0 \in 0 .. z - 1 /\ z * 0 + 0 = 0
    OBVIOUS
  <2>3. (z * 0 + 0) \div z = 0 /\ (z * 0 + 0) % z = 0
    BY <2>2, DivUnique
  <2>4. QED
    BY <2>1, <2>2, <2>3
<1>5. SectorsOf(d) = [l \in 1 .. Len(card.chains[d]) * card.bpb.csize |->
                        ClusterStart(card.chains[d][1 + (l - 1) \div card.bpb.csize])
                          + ((l - 1) % card.bpb.csize)]
  BY DEF SectorsOf, Fixed
<1>6. 1 \in DOMAIN SectorsOf(d) /\ SectorsOf(d)[1] = ClusterStart(card.chains[d][1]) + 0
  <2>1. 1 \in 1 .. n * z
    BY <1>4
  <2>2. DOMAIN SectorsOf(d) = 1 .. n * z
    BY <1>2, <1>3, <1>5
  <2>3. SectorsOf(d)[1] = ClusterStart(card.chains[d][1 + (1 - 1) \div z]) + ((1 - 1) % z)
    BY <1>2, <1>3, <1>5, <2>1
  <2>4. (1 - 1) \div z = 0 /\ (1 - 1) % z = 0 /\ 1 + 0 = 1
    BY <1>4
  <2>5. QED
    BY <2>1, <2>2, <2>3, <2>4
<1>7. ClusterStart(c) \in Nat
  BY <1>1, ClusterPlace
<1>8. c < fs.n_fatent
  <2>1. c <= nclst(card.bpb) + 1
    BY <1>1, <1>3, InVolumeFacts DEF InVolume, CardKnown
  <2>2. fs.n_fatent = nclst(card.bpb) + 2 /\ nclst(card.bpb) \in Nat
    BY <1>1, Clusters DEF VolumeKnown
  <2>3. QED
    BY <1>3, <2>1, <2>2
<1>9. clst2sect(c) = ClusterStart(c) /\ ClusterStart(c) # 0
  <2>1. clst2sect(c) = ClusterStart(c)
    BY <1>3, <1>8, ClusterSectorIs
  <2>2. ClusterStart(c) >= RootStart + card.bpb.rootent \div DirPerSector
        /\ RootStart \in Nat \ {0} /\ card.bpb.rootent \div DirPerSector \in Nat
    BY <1>1, ClusterPlace, Places
  <2>3. QED
    BY <1>7, <2>1, <2>2
<1>10. ClusterStart(c) + 0 = ClusterStart(c)
  BY <1>7
<1>11. QED
  BY <1>3, <1>6, <1>9, <1>10

\* Quotient and remainder of the next number.
LEMMA Successor ==
  ASSUME NEW b \in Nat \ {0}, NEW n \in Nat
  PROVE  /\ n \div b \in Nat /\ n % b \in 0 .. b - 1
         /\ (n + 1) % b = 0 => (n + 1) \div b = n \div b + 1 /\ n + 1 = b * (n \div b + 1)
         /\ (n + 1) % b # 0 => (n + 1) \div b = n \div b /\ (n + 1) % b = (n % b) + 1
<1>1. PICK q \in Nat, r \in 0 .. b - 1 : q = n \div b /\ r = n % b /\ n = b * q + r
  <2>1. n \in Int /\ n >= 0
    OBVIOUS
  <2>2. QED
    BY <2>1, DivMod
<1>2. CASE r + 1 < b
  <2>1. r + 1 \in 0 .. b - 1
    BY <1>2
  <2>2. (b * q + (r + 1)) \div b = q /\ (b * q + (r + 1)) % b = r + 1
    BY <2>1, DivUnique
  <2>3. PICK p \in Int : p = b * q
    BY Product
  <2>4. n + 1 = b * q + (r + 1)
    BY <1>1, <2>3
  <2>5. r + 1 # 0
    OBVIOUS
  <2>6. QED
    BY <1>1, <2>2, <2>4, <2>5
<1>3. CASE r + 1 = b
  <2>1. 0 \in 0 .. b - 1 /\ q + 1 \in Int
    OBVIOUS
  <2>2. (b * (q + 1) + 0) \div b = q + 1 /\ (b * (q + 1) + 0) % b = 0
    BY <2>1, DivUnique
  <2>3. b * (q + 1) = b * q + b * 1 /\ b * 1 = b
    BY Distribute
  <2>4. PICK p \in Int : p = b * q
    BY Product
  <2>5. n + 1 = b * (q + 1) + 0 /\ n + 1 = b * (q + 1)
    BY <1>1, <1>3, <2>3, <2>4
  <2>6. QED
    BY <1>1, <2>2, <2>5
<1>4. QED
  BY <1>2, <1>3

\* The sector after sector k of a directory of clusters.
LEMMA NextSector ==
  ASSUME VolumeKnown, NEW d \in DOMAIN card.dirs, ~Fixed(d), NEW k \in Nat \ {0},
         k \in DOMAIN SectorsOf(d)
  PROVE  LET i == 1 + (k - 1) \div fs.csize
         IN  /\ i \in DOMAIN card.chains[d]
             /\ k % fs.csize # 0 =>
                  /\ k + 1 \in DOMAIN SectorsOf(d) /\ SectorsOf(d)[k + 1] = SectorsOf(d)[k] + 1
                  /\ 1 + k \div fs.csize = i
             /\ k % fs.csize = 0 =>
                  /\ 1 + k \div fs.csize = i + 1 /\ k = fs.csize * i
                  /\ i + 1 \in DOMAIN card.chains[d] =>
                       /\ k + 1 \in DOMAIN SectorsOf(d)
                       /\ SectorsOf(d)[k + 1] = ClusterStart(card.chains[d][i + 1])
<1>1. CardKnown /\ card \in Cards /\ d \in DOMAIN card.chains
  BY ObjectFacts DEF VolumeKnown, CardKnown
<1>2. PICK z \in Nat \ {0} : z = card.bpb.csize /\ z = fs.csize
  BY EndOutside DEF VolumeKnown
<1>3. PICK ch : ch = card.chains[d]
  OBVIOUS
<1>4. PICK n \in Nat : n = Len(ch) /\ DOMAIN ch = 1 .. n /\ \A i \in 1 .. n : ch[i] \in Nat \ {0, 1}
  BY <1>1, <1>3, ChainNumbers
<1>5. PICK m \in Nat : m = n * z /\ m = z * n
  BY Product, Distribute
<1>6. SectorsOf(d) = [l \in 1 .. m |-> ClusterStart(ch[1 + (l - 1) \div z]) + ((l - 1) % z)]
  <2>1. SectorsOf(d) = [l \in 1 .. Len(card.chains[d]) * card.bpb.csize |->
                          ClusterStart(card.chains[d][1 + (l - 1) \div card.bpb.csize])
                            + ((l - 1) % card.bpb.csize)]
    BY DEF SectorsOf, Fixed
  <2>2. QED
    BY <1>2, <1>3, <1>4, <1>5, <2>1
<1>7. DOMAIN SectorsOf(d) = 1 .. m
  BY <1>6
<1>8. k - 1 \in Nat /\ (k - 1) + 1 = k
  OBVIOUS
<1>9. PICK q \in Nat, r \in 0 .. z - 1 :
        /\ q = (k - 1) \div z /\ r = (k - 1) % z /\ k - 1 = z * q + r
        /\ k % z = 0 => k \div z = q + 1 /\ k = z * (q + 1)
        /\ k % z # 0 => k \div z = q /\ k % z = r + 1
  <2>1. k - 1 \in Int /\ k - 1 >= 0
    OBVIOUS
  <2>2. PICK q \in Nat, r \in 0 .. z - 1 : q = (k - 1) \div z /\ r = (k - 1) % z /\ k - 1 = z * q + r
    BY <2>1, DivMod
  <2>3. /\ (k - 1 + 1) % z = 0 => (k - 1 + 1) \div z = (k - 1) \div z + 1
                                  /\ k - 1 + 1 = z * ((k - 1) \div z + 1)
        /\ (k - 1 + 1) % z # 0 => (k - 1 + 1) \div z = (k - 1) \div z
                                  /\ (k - 1 + 1) % z = ((k - 1) % z) + 1
    BY <1>8, Successor
  <2>4. QED
    BY <1>8, <2>2, <2>3
<1>10. q + 1 <= n
  <2>1. k <= m
    BY <1>7
  <2>2. n < q + 1 => z * n <= z * q
    <3>1. n < q => z * n + z <= z * q
      BY Apart
    <3>2. n = q => z * n = z * q
      OBVIOUS
    <3>3. PICK a \in Int, c \in Int : a = z * n /\ c = z * q
      BY Product
    <3>4. QED
      BY <3>1, <3>2, <3>3
  <2>3. PICK c \in Int : c = z * q
    BY Product
  <2>4. QED
    BY <1>5, <1>9, <2>1, <2>2, <2>3
<1>11. q + 1 \in DOMAIN ch /\ 1 + (k - 1) \div z = q + 1
  BY <1>4, <1>9, <1>10
<1>12. ASSUME k % z # 0
       PROVE  /\ k + 1 \in DOMAIN SectorsOf(d) /\ SectorsOf(d)[k + 1] = SectorsOf(d)[k] + 1
              /\ 1 + k \div z = q + 1
  <2>1. k \div z = q /\ k % z = r + 1 /\ 1 + k \div z = q + 1 /\ (k + 1) - 1 = k
    BY <1>9, <1>12
  <2>2. r + 1 < z
    BY <1>12, <2>1, DivMod
  <2>3. k + 1 <= m
    <3>1. z * (q + 1) <= z * n
      <4>1. q + 1 < n => z * (q + 1) + z <= z * n
        BY Apart
      <4>2. q + 1 = n => z * (q + 1) = z * n
        OBVIOUS
      <4>3. PICK a \in Int, c \in Int : a = z * n /\ c = z * (q + 1)
        BY Product
      <4>4. QED
        BY <1>10, <4>1, <4>2, <4>3
    <3>2. z * (q + 1) = z * q + z * 1 /\ z * 1 = z
      BY Distribute
    <3>3. PICK c \in Int : c = z * q
      BY Product
    <3>4. QED
      BY <1>5, <1>9, <2>2, <3>1, <3>2, <3>3
  <2>4. k \in 1 .. m /\ k + 1 \in 1 .. m
    BY <1>7, <2>3
  <2>5. SectorsOf(d)[k + 1] = ClusterStart(ch[1 + ((k + 1) - 1) \div z]) + (((k + 1) - 1) % z)
    BY <1>6, <2>4
  <2>6. SectorsOf(d)[k] = ClusterStart(ch[1 + (k - 1) \div z]) + ((k - 1) % z)
    BY <1>6, <2>4
  <2>7. SectorsOf(d)[k + 1] = ClusterStart(ch[q + 1]) + (r + 1)
    BY <2>1, <2>5
  <2>8. SectorsOf(d)[k] = ClusterStart(ch[q + 1]) + r
    BY <1>9, <1>11, <2>6
  <2>9. ClusterStart(ch[q + 1]) \in Nat
    BY <1>1, <1>4, <1>11, ClusterPlace
  <2>10. PICK a \in Nat : a = ClusterStart(ch[q + 1])
    BY <2>9
  <2>11. QED
    BY <1>7, <2>1, <2>4, <2>7, <2>8, <2>10
<1>13. ASSUME k % z = 0, (q + 1) + 1 \in DOMAIN ch
       PROVE  /\ k + 1 \in DOMAIN SectorsOf(d)
              /\ SectorsOf(d)[k + 1] = ClusterStart(ch[(q + 1) + 1])
  <2>1. k \div z = q + 1 /\ k = z * (q + 1) /\ 1 + k \div z = (q + 1) + 1 /\ (k + 1) - 1 = k
    BY <1>9, <1>13
  <2>2. q + 1 < n
    BY <1>4, <1>13
  <2>3. z * (q + 1) + z <= z * n
    BY <2>2, Apart
  <2>4. k + 1 \in 1 .. m
    BY <1>5, <2>1, <2>3
  <2>5. SectorsOf(d)[k + 1] = ClusterStart(ch[1 + ((k + 1) - 1) \div z]) + (((k + 1) - 1) % z)
    BY <1>6, <2>4
  <2>6. SectorsOf(d)[k + 1] = ClusterStart(ch[(q + 1) + 1]) + 0
    BY <1>13, <2>1, <2>5
  <2>7. ClusterStart(ch[(q + 1) + 1]) \in Nat
    BY <1>1, <1>4, <1>13, ClusterPlace
  <2>8. QED
    BY <1>7, <2>4, <2>6, <2>7
<1>14. k % z = 0 => 1 + k \div z = (q + 1) + 1 /\ k = z * (q + 1)
  BY <1>9
<1>15. QED
  BY <1>2, <1>3, <1>11, <1>12, <1>13, <1>14

\* After an entry that does not end the search, dir_next comes to the directory's next
\* entry, or there is none, or a command fails.
LEMMA SearchMoves ==
  ASSUME TypeInv, VolumeKnown, NEW d \in DOMAIN card.dirs, SearchAt(d),
         NEW w, WindowOK(w), NEW n \in dir_next(w),
         EntryAt(dp.sect, dp.dptr % DirPerSector).name # "last",
         ~Matches(EntryAt(dp.sect, dp.dptr % DirPerSector))
  PROVE  LET ofs == dp.dptr + 1
             k == ofs \div DirPerSector + 1
         IN  \/ n.res = "disk_err"
             \/ n.res = "no_file" /\ Named(d, Head(dp.path)) = Last
             \/ /\ n.res = "ok" /\ n.dp.path = dp.path /\ n.dp.dptr = ofs /\ ofs < MAX_DIR
                /\ k \in DOMAIN SectorsOf(d) /\ n.dp.sect = SectorsOf(d)[k]
                /\ n.dp.clust = IF Fixed(d) THEN 0
                                ELSE card.chains[d][1 + (k - 1) \div fs.csize]
                /\ \A i \in 1 .. ofs : i \in DOMAIN card.dirs[d]
                                       /\ card.dirs[d][i].name # "last"
                                       /\ ~Matches(card.dirs[d][i])
<1>1. CardKnown /\ card \in Cards /\ d \in DOMAIN card.chains
  BY ObjectFacts DEF VolumeKnown, CardKnown
<1>2. PICK o \in Nat, b \in Nat \ {0}, z \in Nat \ {0} :
        o = dp.dptr /\ b = DirPerSector /\ z = fs.csize /\ z = card.bpb.csize
  <2>1. dp.dptr \in Nat /\ DirPerSector \in Nat \ {0}
    BY SearchEntry, SizeFacts
  <2>2. fs.csize \in Nat \ {0} /\ fs.csize = card.bpb.csize
    BY EndOutside DEF VolumeKnown
  <2>3. QED
    BY <2>1, <2>2
<1>3. PICK l \in Nat : l = Len(card.dirs[d]) /\ DOMAIN card.dirs[d] = 1 .. l
  BY SearchEntry
<1>4. \A i \in 1 .. o + 1 : i \in DOMAIN card.dirs[d] /\ card.dirs[d][i].name # "last"
                            /\ ~Matches(card.dirs[d][i])
  <2>1. EntryAt(dp.sect, dp.dptr % DirPerSector) =
          IF o + 1 \in DOMAIN card.dirs[d] THEN card.dirs[d][o + 1] ELSE Last
    BY <1>2, SearchEntry
  <2>2. Last.name = "last"
    BY DEF Last
  <2>3. o + 1 \in DOMAIN card.dirs[d] /\ card.dirs[d][o + 1].name # "last"
        /\ ~Matches(card.dirs[d][o + 1])
    BY <2>1, <2>2
  <2>4. \A i \in 1 .. o : i \in DOMAIN card.dirs[d] /\ card.dirs[d][i].name # "last"
                          /\ ~Matches(card.dirs[d][i])
    BY <1>2 DEF SearchAt
  <2>5. QED
    BY <2>3, <2>4
<1>5. ASSUME o + 1 >= MAX_DIR \/ o + 1 >= l
      PROVE  Named(d, Head(dp.path)) = Last
  <2>1. o + 1 \in Nat
    OBVIOUS
  <2>2. QED
    BY <1>3, <1>4, <1>5, <2>1, SearchMisses
<1>6. PICK q \in Nat : /\ q = o \div b
                       /\ (o + 1) % b = 0 => (o + 1) \div b = q + 1 /\ o + 1 = b * (q + 1)
                       /\ (o + 1) % b # 0 => (o + 1) \div b = q
  BY Successor
<1>7. q + 1 \in DOMAIN SectorsOf(d) /\ dp.sect = SectorsOf(d)[q + 1]
      /\ dp.clust = IF Fixed(d) THEN 0 ELSE card.chains[d][1 + ((q + 1) - 1) \div z]
  BY <1>2, <1>6 DEF SearchAt
<1>8. /\ \A x, y \in Int : \A v :
           /\ DirAt(x, y, v).dp.path = dp.path /\ DirAt(x, y, v).dp.dptr = o + 1
           /\ DirAt(x, y, v).dp.sect = x /\ DirAt(x, y, v).dp.clust = y
           /\ DirAt(x, y, v).res = "ok"
      /\ \A v : DirEnd(v).res = "no_file"
  <2>1. dp \in Dirs
    BY DEF TypeInv, BaseInv, Dirs
  <2>2. QED
    BY <1>2, <2>1 DEF DirAt, DirEnd, Dirs
<1>9. dp.sect \in Int /\ dp.clust \in Int
  BY DEF TypeInv, BaseInv
<1>10. ~Fixed(d) => LET i == 1 + q \div z
                    IN  /\ i \in DOMAIN card.chains[d] /\ dp.clust = card.chains[d][i]
                        /\ dp.clust \in Nat \ {0, 1} /\ dp.clust < fs.n_fatent
  <2>1. SUFFICES ASSUME ~Fixed(d)
                 PROVE  /\ 1 + q \div z \in DOMAIN card.chains[d]
                        /\ dp.clust = card.chains[d][1 + q \div z]
                        /\ dp.clust \in Nat \ {0, 1} /\ dp.clust < fs.n_fatent
    OBVIOUS
  <2>2. q + 1 \in Nat \ {0} /\ (q + 1) - 1 = q
    OBVIOUS
  <2>3. 1 + ((q + 1) - 1) \div fs.csize \in DOMAIN card.chains[d]
    BY <1>7, <2>1, <2>2, NextSector
  <2>4. PICK i \in DOMAIN card.chains[d] : i = 1 + q \div z /\ dp.clust = card.chains[d][i]
    BY <1>2, <1>7, <2>1, <2>2, <2>3
  <2>5. card.chains[d][i] \in Nat \ {0, 1}
    BY <1>1, ChainNumbers
  <2>6. card.chains[d][i] <= nclst(card.bpb) + 1
    BY <1>1, InVolumeFacts DEF InVolume, CardKnown
  <2>7. fs.n_fatent = nclst(card.bpb) + 2 /\ nclst(card.bpb) \in Nat
    BY <1>1, Clusters DEF VolumeKnown
  <2>8. QED
    BY <2>4, <2>5, <2>6, <2>7
<1>11. Fixed(d) <=> dp.clust = 0
  BY <1>7, <1>10
<1>12. CASE dp.dptr + 1 >= MAX_DIR /\ n = DirEnd(w)
  BY <1>2, <1>5, <1>8, <1>12
<1>13. CASE ~(dp.dptr + 1 >= MAX_DIR) /\ (dp.dptr + 1) % DirPerSector # 0
            /\ n = DirAt(dp.sect, dp.clust, w)
  <2>1. (o + 1) \div b = q /\ o + 1 < MAX_DIR
    BY <1>2, <1>6, <1>13, SizeFacts
  <2>2. n.res = "ok" /\ n.dp.path = dp.path /\ n.dp.dptr = o + 1 /\ n.dp.sect = dp.sect
        /\ n.dp.clust = dp.clust
    BY <1>8, <1>9, <1>13
  <2>3. QED
    BY <1>2, <1>4, <1>7, <2>1, <2>2
<1>14. CASE (dp.dptr + 1) % DirPerSector = 0 /\ dp.clust = 0
            /\ dp.dptr + 1 >= fs.n_rootdir /\ n = DirEnd(w)
  <2>1. Fixed(d)
    BY <1>11, <1>14
  <2>2. l <= card.bpb.rootent
    BY <1>1, <1>3, <2>1, InVolumeFacts DEF CardKnown, Room, Fixed
  <2>3. fs.n_rootdir = card.bpb.rootent /\ card.bpb.rootent \in Nat
    BY <1>1, BpbFacts DEF VolumeKnown
  <2>4. o + 1 >= l
    BY <1>2, <1>14, <2>2, <2>3
  <2>5. QED
    BY <1>5, <1>8, <1>14, <2>4
<1>15. CASE ~(dp.dptr + 1 >= MAX_DIR) /\ (dp.dptr + 1) % DirPerSector = 0 /\ dp.clust = 0
            /\ ~(dp.dptr + 1 >= fs.n_rootdir) /\ n = DirAt(dp.sect + 1, 0, w)
  <2>1. (o + 1) \div b = q + 1 /\ o + 1 = b * (q + 1) /\ o + 1 < MAX_DIR
    BY <1>2, <1>6, <1>15, SizeFacts
  <2>2. dp.sect + 1 \in Int /\ 0 \in Int
    BY <1>9
  <2>3. n.res = "ok" /\ n.dp.path = dp.path /\ n.dp.dptr = o + 1 /\ n.dp.sect = dp.sect + 1
        /\ n.dp.clust = 0
    <3>1. PICK x \in Int, y \in Int : x = dp.sect + 1 /\ y = 0
      BY <2>2
    <3>2. n = DirAt(x, y, w)
      BY <1>15, <3>1
    <3>3. DirAt(x, y, w).res = "ok" /\ DirAt(x, y, w).dp.path = dp.path
          /\ DirAt(x, y, w).dp.dptr = dp.dptr + 1 /\ DirAt(x, y, w).dp.sect = x
          /\ DirAt(x, y, w).dp.clust = y
      <4>1. dp \in Dirs
        BY DEF TypeInv, BaseInv, Dirs
      <4>2. QED
        BY <4>1 DEF DirAt, Dirs
    <3>4. dp.dptr + 1 = o + 1
      BY <1>2
    <3>5. QED
      BY <3>1, <3>2, <3>3, <3>4
  <2>4. Fixed(d)
    BY <1>11, <1>15
  <2>5. PICK re \in Nat, e \in Nat : e = card.bpb.rootent /\ re = e \div b /\ e = b * re
    <3>1. PICK e \in Nat : e = card.bpb.rootent
      BY <1>1, BpbFacts
    <3>2. e % b = 0
      BY <1>1, <1>2, <3>1, VolumeFacts DEF CardKnown, Mountable
    <3>3. e \in Int /\ e >= 0
      OBVIOUS
    <3>4. e \div b \in Nat /\ e = b * (e \div b) + (e % b)
      BY <3>3, DivMod
    <3>5. PICK re \in Nat : re = e \div b
      BY <3>4
    <3>6. PICK p \in Int : p = b * re
      BY Product
    <3>7. e = p
      BY <3>2, <3>4, <3>5, <3>6
    <3>8. QED
      BY <3>1, <3>5, <3>6, <3>7
  <2>6. q + 1 < re
    <3>1. b * (q + 1) < b * re
      BY <1>2, <1>15, <2>1, <2>5 DEF VolumeKnown
    <3>2. re < q + 1 => b * re + b <= b * (q + 1)
      BY Apart
    <3>3. re = q + 1 => b * re = b * (q + 1)
      OBVIOUS
    <3>4. PICK a \in Int, c \in Int : a = b * (q + 1) /\ c = b * re
      BY Product
    <3>5. QED
      BY <3>1, <3>2, <3>3, <3>4
  <2>7. SectorsOf(d) = [k \in 1 .. re |-> RootStart + k - 1]
    BY <1>2, <2>4, <2>5 DEF SectorsOf, Fixed
  <2>8. PICK s \in Nat : s = RootStart
    BY <1>1, Places
  <2>9. (q + 1) + 1 \in DOMAIN SectorsOf(d) /\ SectorsOf(d)[(q + 1) + 1] = s + ((q + 1) + 1) - 1
    BY <2>6, <2>7, <2>8
  <2>10. SectorsOf(d)[q + 1] = s + (q + 1) - 1
    BY <2>6, <2>7, <2>8
  <2>11. SectorsOf(d)[(q + 1) + 1] = dp.sect + 1
    BY <1>7, <2>9, <2>10
  <2>12. QED
    BY <1>2, <1>4, <2>1, <2>3, <2>4, <2>9, <2>11
<1>16. ASSUME ~(dp.dptr + 1 >= MAX_DIR), (dp.dptr + 1) % DirPerSector = 0, dp.clust # 0
       PROVE  /\ ~Fixed(d) /\ (o + 1) \div b = q + 1 /\ o + 1 = b * (q + 1) /\ o + 1 < MAX_DIR
              /\ (q + 1) - 1 = q /\ ((q + 1) + 1) - 1 = q + 1 /\ q + 1 \in Nat \ {0}
  BY <1>2, <1>6, <1>11, <1>16, SizeFacts
<1>17. CASE ~(dp.dptr + 1 >= MAX_DIR) /\ (dp.dptr + 1) % DirPerSector = 0 /\ dp.clust # 0
            /\ ((dp.dptr + 1) \div DirPerSector) % fs.csize # 0
            /\ n = DirAt(dp.sect + 1, dp.clust, w)
  <2>1. /\ ~Fixed(d) /\ (o + 1) \div b = q + 1 /\ o + 1 < MAX_DIR
        /\ (q + 1) - 1 = q /\ ((q + 1) + 1) - 1 = q + 1 /\ q + 1 \in Nat \ {0}
    BY <1>16, <1>17
  <2>2. (q + 1) % fs.csize # 0
    BY <1>2, <1>17, <2>1
  <2>3. /\ (q + 1) + 1 \in DOMAIN SectorsOf(d)
        /\ SectorsOf(d)[(q + 1) + 1] = SectorsOf(d)[q + 1] + 1
        /\ 1 + (q + 1) \div fs.csize = 1 + ((q + 1) - 1) \div fs.csize
    BY <1>7, <2>1, <2>2, NextSector
  <2>4. dp.sect + 1 \in Int
    BY <1>9
  <2>5. n.res = "ok" /\ n.dp.path = dp.path /\ n.dp.dptr = o + 1 /\ n.dp.sect = dp.sect + 1
        /\ n.dp.clust = dp.clust
    BY <1>8, <1>9, <1>17, <2>4
  <2>6. n.dp.clust = card.chains[d][1 + (((q + 1) + 1) - 1) \div fs.csize]
    BY <1>2, <1>7, <2>1, <2>3, <2>5
  <2>7. QED
    BY <1>2, <1>4, <1>7, <2>1, <2>3, <2>5, <2>6
<1>18. CASE ~(dp.dptr + 1 >= MAX_DIR) /\ (dp.dptr + 1) % DirPerSector = 0 /\ dp.clust # 0
            /\ ((dp.dptr + 1) \div DirPerSector) % fs.csize = 0
            /\ \E g \in get_fat(w, dp.clust) : n = DirAfter(g)
  <2>1. /\ ~Fixed(d) /\ (o + 1) \div b = q + 1 /\ o + 1 = b * (q + 1) /\ o + 1 < MAX_DIR
        /\ (q + 1) - 1 = q /\ ((q + 1) + 1) - 1 = q + 1 /\ q + 1 \in Nat \ {0}
    BY <1>16, <1>18
  <2>2. PICK g \in get_fat(w, dp.clust) : n = DirAfter(g)
    BY <1>18
  <2>3. PICK i \in DOMAIN card.chains[d] : i = 1 + q \div z /\ dp.clust = card.chains[d][i]
    BY <1>10, <2>1
  <2>4. PICK m \in Nat : m = Len(card.chains[d]) /\ DOMAIN card.chains[d] = 1 .. m
    BY <1>1, ChainNumbers
  <2>5. (q + 1) % fs.csize = 0
    BY <1>2, <1>18, <2>1
  <2>6. /\ 1 + (q + 1) \div fs.csize = i + 1 /\ q + 1 = z * i
        /\ i + 1 \in DOMAIN card.chains[d] =>
             /\ (q + 1) + 1 \in DOMAIN SectorsOf(d)
             /\ SectorsOf(d)[(q + 1) + 1] = ClusterStart(card.chains[d][i + 1])
    BY <1>2, <1>7, <2>1, <2>3, <2>5, NextSector
  <2>7. PICK v \in Int : v = g.val /\ (v = FatEntry(dp.clust) \/ v = DiskError)
    <3>1. g.val = FatEntry(dp.clust) \/ g.val = DiskError
      BY <1>10, <2>1, <2>2, GetFat
    <3>2. FatEntry(dp.clust) \in Nat
      BY <1>1, EntryFits
    <3>3. QED
      BY <3>1, <3>2 DEF DiskError
  <2>8. FatEntry(dp.clust) = IF i < m THEN card.chains[d][i + 1] ELSE EndMark(card.kind)
    BY <1>1, <2>3, <2>4, ChainEntry
  <2>9. EndMark(card.kind) >= fs.n_fatent /\ fs.n_fatent \in Nat /\ fs.n_fatent >= 2
        /\ EndMark(card.kind) \in Nat /\ EndMark(card.kind) # DiskError
    <3>1. fs.n_fatent = nclst(card.bpb) + 2 /\ nclst(card.bpb) \in Nat
      BY <1>1, Clusters DEF VolumeKnown
    <3>2. EndMark(card.kind) \in Nat /\ EndMark(card.kind) <= 268435455
      BY <1>1, EndMarks
    <3>3. QED
      BY <3>1, <3>2, EndOutside DEF DiskError
  <2>10. CASE v = DiskError
    <3>1. ~(g.val <= 1) /\ g.val = DiskError
      BY <2>7, <2>10 DEF DiskError
    <3>2. DirAfter(g).res = "disk_err"
      BY <3>1 DEF DirAfter
    <3>3. QED
      BY <2>2, <3>2
  <2>11. CASE v # DiskError /\ i < m
    <3>1. i + 1 \in DOMAIN card.chains[d]
      BY <2>4, <2>11
    <3>2. v = card.chains[d][i + 1] /\ v \in Nat \ {0, 1} /\ v < fs.n_fatent
      <4>1. v = card.chains[d][i + 1]
        BY <2>7, <2>8, <2>11
      <4>2. card.chains[d][i + 1] \in Nat \ {0, 1}
        BY <1>1, <3>1, ChainNumbers
      <4>3. card.chains[d][i + 1] <= nclst(card.bpb) + 1
        BY <1>1, <3>1, InVolumeFacts DEF InVolume, CardKnown
      <4>4. fs.n_fatent = nclst(card.bpb) + 2 /\ nclst(card.bpb) \in Nat
        BY <1>1, Clusters DEF VolumeKnown
      <4>5. QED
        BY <4>1, <4>2, <4>3, <4>4
    <3>3. n = DirAt(clst2sect(v), v, g.win)
      <4>1. ~(g.val <= 1) /\ g.val # DiskError /\ ~(g.val >= fs.n_fatent)
        BY <2>7, <2>9, <2>11, <3>2
      <4>2. QED
        BY <2>2, <2>7, <4>1 DEF DirAfter
    <3>4. clst2sect(v) = ClusterStart(v) /\ clst2sect(v) \in Int
      <4>1. 2 <= v
        BY <3>2
      <4>2. QED
        BY <3>2, <4>1, ClusterSectorIs, ClusterSector
    <3>5. n.res = "ok" /\ n.dp.path = dp.path /\ n.dp.dptr = o + 1
          /\ n.dp.sect = ClusterStart(v) /\ n.dp.clust = v
      BY <1>8, <3>3, <3>4
    <3>6. /\ (q + 1) + 1 \in DOMAIN SectorsOf(d) /\ n.dp.sect = SectorsOf(d)[(q + 1) + 1]
          /\ n.dp.clust = card.chains[d][1 + (((q + 1) + 1) - 1) \div fs.csize]
      BY <2>1, <2>6, <3>1, <3>2, <3>5
    <3>7. QED
      BY <1>2, <1>4, <2>1, <3>5, <3>6
  <2>12. CASE v # DiskError /\ ~(i < m)
    <3>1. v = EndMark(card.kind)
      BY <2>7, <2>8, <2>12
    <3>2. n = DirEnd(g.win)
      <4>1. ~(g.val <= 1) /\ g.val # DiskError /\ g.val >= fs.n_fatent
        <5>1. EndMark(card.kind) >= 2
          BY <2>9
        <5>2. QED
          BY <2>7, <2>9, <2>12, <3>1, <5>1
      <4>2. QED
        BY <2>2, <4>1 DEF DirAfter
    <3>3. i = m
      BY <2>4, <2>12
    <3>4. l <= m * (z * b)
      BY <1>1, <1>2, <1>3, <2>1, <2>4, InVolumeFacts DEF CardKnown, Room, Fixed
    <3>5. m * (z * b) = o + 1
      <4>1. o + 1 = b * (z * m)
        BY <2>1, <2>6, <3>3
      <4>2. b * (z * m) = (b * z) * m /\ (b * z) * m = m * (b * z) /\ b * z = z * b
        <5>1. b \in Int /\ z \in Int /\ m \in Int /\ b * z \in Int
          BY Product
        <5>2. QED
          BY <5>1, Distribute
      <4>3. QED
        BY <4>1, <4>2
    <3>6. o + 1 >= l
      BY <3>4, <3>5
    <3>7. QED
      BY <1>5, <1>8, <3>2, <3>6
  <2>13. QED
    BY <2>10, <2>11, <2>12
<1>19. QED
  BY <1>12, <1>13, <1>14, <1>15, <1>17, <1>18, DirNextCases

\* A search starts at the first entry.
LEMMA SearchStarts ==
  ASSUME VolumeKnown, UNCHANGED <<card, fs>>, NEW d \in DOMAIN card.dirs, dp'.dptr = 0,
         1 \in DOMAIN SectorsOf(d), dp'.sect = SectorsOf(d)[1],
         dp'.clust = IF Fixed(d) THEN 0 ELSE card.chains[d][1]
  PROVE  SearchAt(d)'
<1>1. PICK b \in Nat \ {0}, z \in Nat \ {0}, m \in Nat \ {0} :
        b = DirPerSector /\ z = fs.csize /\ m = MAX_DIR
  BY SizeFacts, EndOutside
<1>2. ASSUME NEW a \in Nat \ {0}
      PROVE  0 \div a = 0
  <2>1. 0 \in Int /\ 0 \in 0 .. a - 1 /\ a * 0 + 0 = 0
    OBVIOUS
  <2>2. (a * 0 + 0) \div a = 0
    BY <2>1, DivUnique
  <2>3. QED
    BY <2>1, <2>2
<1>3. PICK k \in Nat : k = dp'.dptr \div DirPerSector + 1 /\ k = 1
  BY <1>1, <1>2
<1>4. (k - 1) \div fs.csize = 0 /\ 1 + 0 = 1
  BY <1>1, <1>2, <1>3
<1>5. 1 .. dp'.dptr = {}
  OBVIOUS
<1>6. SectorsOf(d)' = SectorsOf(d) /\ Fixed(d)' = Fixed(d)
  BY CardStays DEF Fixed
<1>7. dp'.dptr < MAX_DIR
  BY <1>1
<1>8. k \in DOMAIN SectorsOf(d) /\ dp'.sect = SectorsOf(d)[k]
      /\ dp'.clust = IF Fixed(d) THEN 0 ELSE card.chains[d][1 + (k - 1) \div fs.csize]
  BY <1>3, <1>4
<1>9. QED
  BY <1>3, <1>5, <1>6, <1>7, <1>8 DEF SearchAt

\* The root directory.
LEMMA RootSearch ==
  ASSUME TypeInv, VolumeKnown, NEW p
  PROVE  /\ dir_sdi(0, p).dptr = 0 /\ dir_sdi(0, p).path = p /\ dir_sdi(0, p).sect # 0
         /\ 1 \in DOMAIN SectorsOf("root") /\ dir_sdi(0, p).sect = SectorsOf("root")[1]
         /\ dir_sdi(0, p).clust = IF Fixed("root") THEN 0 ELSE card.chains["root"][1]
<1>1. CardKnown /\ card \in Cards /\ "root" \in DOMAIN card.dirs /\ "root" \in DOMAIN card.chains
  BY ObjectFacts DEF VolumeKnown, CardKnown
<1>2. PICK clst : clst = IF fs.fs_type = 32 THEN fs.dirbase ELSE 0
  OBVIOUS
<1>3. dir_sdi(0, p) = [sclust |-> 0, clust |-> clst, dptr |-> 0, path |-> p,
                       sect |-> IF clst = 0 THEN fs.dirbase ELSE clst2sect(clst)]
  BY <1>2 DEF dir_sdi
<1>4. fs.fs_type = card.kind /\ (card.kind = 32 <=> card.bpb.rootent = 0)
      /\ card.bpb.rootent % DirPerSector = 0
  BY <1>1, VolumeFacts DEF VolumeKnown, CardKnown, Mountable
<1>5. CASE card.kind = 32
  <2>1. card.chains["root"] # <<>> /\ card.bpb.rootclus = card.chains["root"][1]
    BY <1>1, <1>5, InVolumeFacts DEF CardKnown
  <2>2. 1 \in DOMAIN card.chains["root"]
    <3>1. card.chains["root"] \in Seq(2 .. EndMark(card.kind) - 1)
      BY <1>1, ObjectFacts
    <3>2. QED
      BY <2>1, <3>1
  <2>3. ~Fixed("root")
    BY <1>5 DEF Fixed
  <2>4. /\ 1 \in DOMAIN SectorsOf("root")
        /\ SectorsOf("root")[1] = clst2sect(card.chains["root"][1])
        /\ clst2sect(card.chains["root"][1]) # 0
    BY <1>1, <2>2, <2>3, FirstSector
  <2>5. clst = card.chains["root"][1]
    BY <1>2, <1>4, <1>5, <2>1 DEF VolumeKnown
  <2>6. card.chains["root"][1] \in Nat \ {0, 1}
    BY <1>1, <2>2, ChainNumbers
  <2>7. QED
    BY <1>3, <2>3, <2>4, <2>5, <2>6
<1>6. CASE card.kind # 32
  <2>1. clst = 0 /\ Fixed("root") /\ card.bpb.rootent # 0
    BY <1>2, <1>4, <1>6 DEF Fixed
  <2>2. fs.dirbase = RootStart /\ RootStart \in Nat \ {0}
    BY <1>1, <2>1, Places DEF VolumeKnown
  <2>3. PICK b \in Nat \ {0}, e \in Nat \ {0} : b = DirPerSector /\ e = card.bpb.rootent
    BY <1>1, <2>1, BpbFacts, SizeFacts
  <2>4. PICK re \in Nat \ {0} : re = e \div b
    <3>1. e \in Int /\ e >= 0
      OBVIOUS
    <3>2. e \div b \in Nat /\ e = b * (e \div b) + (e % b) /\ e % b = 0
      <4>1. e \div b \in Nat /\ e = b * (e \div b) + (e % b)
        BY <3>1, DivMod
      <4>2. e % b = 0
        BY <1>4, <2>3
      <4>3. QED
        BY <4>1, <4>2
    <3>3. PICK re \in Nat : re = e \div b
      BY <3>2
    <3>4. e = b * re + 0
      BY <3>2, <3>3
    <3>5. re # 0
      BY <3>4
    <3>6. QED
      BY <3>3, <3>5
  <2>5. SectorsOf("root") = [k \in 1 .. re |-> RootStart + k - 1]
    BY <1>6, <2>3, <2>4 DEF SectorsOf
  <2>6. 1 \in DOMAIN SectorsOf("root") /\ SectorsOf("root")[1] = RootStart
    <3>1. 1 \in 1 .. re
      OBVIOUS
    <3>2. SectorsOf("root")[1] = RootStart + 1 - 1
      BY <2>5, <3>1
    <3>3. QED
      BY <2>2, <2>5, <3>1, <3>2
  <2>7. QED
    BY <1>3, <2>1, <2>2, <2>6
<1>7. QED
  BY <1>5, <1>6

\* A directory below it.
LEMMA SubSearch ==
  ASSUME TypeInv, VolumeKnown, NEW p, NEW d \in DOMAIN card.dirs, d # "root",
         1 \in DOMAIN card.chains[d], NEW c, c = card.chains[d][1]
  PROVE  /\ dir_sdi(c, p).dptr = 0 /\ dir_sdi(c, p).path = p /\ dir_sdi(c, p).sect # 0
         /\ 1 \in DOMAIN SectorsOf(d) /\ dir_sdi(c, p).sect = SectorsOf(d)[1]
         /\ dir_sdi(c, p).clust = IF Fixed(d) THEN 0 ELSE card.chains[d][1]
<1>1. card \in Cards /\ d \in DOMAIN card.chains
  BY ObjectFacts DEF VolumeKnown, CardKnown
<1>2. c \in Nat \ {0, 1}
  BY <1>1, ChainNumbers
<1>3. ~Fixed(d)
  BY DEF Fixed
<1>4. /\ 1 \in DOMAIN SectorsOf(d) /\ SectorsOf(d)[1] = clst2sect(c) /\ clst2sect(c) # 0
  BY <1>3, FirstSector
<1>5. dir_sdi(c, p) = [sclust |-> c, clust |-> c, dptr |-> 0, path |-> p, sect |-> clst2sect(c)]
  BY <1>2 DEF dir_sdi
<1>6. QED
  BY <1>3, <1>4, <1>5

\* What a step of the search comes to: it goes on, it has opened the kernel of this
\* path, there is none, or a command failed.
Outcome ==
  \/ op' = "find" /\ \E d \in DOMAIN card.dirs : SearchAt(d)' /\ PathAt(d)'
  \/ op' = "idle" /\ res' = "ok" /\ path \in Present /\ fil'.obj = Lookup(Paths[path])
  \/ op' = "idle" /\ res' # "ok" /\ path \notin Present
  \/ op' = "idle" /\ res' # "ok" /\ ioErrors' # ioErrors

\* No kernel where no name leads to a file.
LEMMA Absent ==
  ASSUME Lookup(Paths[path]) = "none"
  PROVE  path \notin Present
BY DEF Present

LEMMA MissedPath ==
  ASSUME TypeInv, NEW d, PathAt(d), Named(d, Head(dp.path)) = Last
  PROVE  path \notin Present
<1>1. Last.attr = "none"
  BY DEF Last
<1>2. FileIn(d, Head(dp.path)) = "none"
  BY <1>1 DEF FileIn
<1>3. Lookup(Paths[path]) = "none"
  BY <1>1, <1>2, LookupIs
<1>4. QED
  BY <1>3, Absent

LEMMA FindFailsOpens ==
  ASSUME TypeInv, VolumeKnown, FindFails, NEW d \in DOMAIN card.dirs, SearchAt(d), PathAt(d)
  PROVE  Outcome
<1>1. PICK w \in move_window(win, dp.sect) :
        LET failed == w.sect # dp.sect
        IN  /\ failed \/ EntryAt(w.data, dp.dptr % DirPerSector).name = "last"
            /\ win' = w /\ Count(failed)
            /\ Return(IF failed THEN "disk_err" ELSE NotFound)
  BY DEF FindFails
<1>2. (w.sect # dp.sect => MayFail) /\ (w.sect = dp.sect => w.data = dp.sect)
  BY FindWindow
<1>3. op' = "idle"
  BY <1>1 DEF Return
<1>4. CASE w.sect # dp.sect
  <2>1. res' = "disk_err"
    BY <1>1, <1>4 DEF Return
  <2>2. Count(TRUE)
    BY <1>1, <1>4
  <2>3. ioErrors' # ioErrors
    <3>1. ioErrors \in 0 .. MaxErrors /\ MaxErrors \in Nat
      BY FatFsAssumption DEF TypeInv, BaseInv
    <3>2. QED
      BY <2>2, <3>1 DEF Count
  <2>4. QED
    BY <1>3, <2>1, <2>3 DEF Outcome
<1>5. CASE w.sect = dp.sect
  <2>1. res' # "ok"
    BY <1>1, <1>5 DEF Return, NotFound
  <2>2. PICK e : e = EntryAt(dp.sect, dp.dptr % DirPerSector)
    OBVIOUS
  <2>3. e.name = "last"
    BY <1>1, <1>2, <1>5, <2>2
  <2>4. PICK n \in Nat, l \in Nat : n = dp.dptr /\ l = Len(card.dirs[d]) /\ DOMAIN card.dirs[d] = 1 .. l
                                    /\ e = IF n + 1 \in DOMAIN card.dirs[d]
                                           THEN card.dirs[d][n + 1] ELSE Last
    BY <2>2, SearchEntry
  <2>5. n >= l \/ (n + 1 \in DOMAIN card.dirs[d] /\ card.dirs[d][n + 1].name = "last")
    BY <2>3, <2>4
  <2>6. \A i \in 1 .. n : ~Matches(card.dirs[d][i])
    BY <2>4 DEF SearchAt
  <2>7. Named(d, Head(dp.path)) = Last
    BY <2>4, <2>5, <2>6, SearchMisses
  <2>8. QED
    BY <1>3, <2>1, <2>7, MissedPath DEF Outcome
<1>6. QED
  BY <1>4, <1>5

LEMMA EnterDirOpens ==
  ASSUME TypeInv, VolumeKnown, EnterDir, UNCHANGED path,
         NEW d \in DOMAIN card.dirs, SearchAt(d), PathAt(d)
  PROVE  Outcome
<1>1. PICK w \in move_window(win, dp.sect) :
        LET e == EntryAt(w.data, dp.dptr % DirPerSector)
        IN  /\ w.sect = dp.sect /\ Matches(e)
            /\ win' = w
            /\ \/ e.attr = "dir" /\ StartFind(ld_clust(e), Tail(dp.path))
               \/ e.attr # "dir" /\ Return("no_path") /\ UNCHANGED dp
  BY DEF EnterDir
<1>2. PICK e : /\ e = EntryAt(dp.sect, dp.dptr % DirPerSector) /\ Matches(e)
               /\ \/ e.attr = "dir" /\ StartFind(ld_clust(e), Tail(dp.path))
                  \/ e.attr # "dir" /\ Return("no_path")
               /\ ProperEntry(card, e)
  <2>1. w.data = dp.sect /\ ProperEntry(card, EntryAt(w.data, dp.dptr % DirPerSector))
    BY <1>1, FindWindow
  <2>2. QED
    BY <1>1, <2>1
<1>3. Named(d, Head(dp.path)) = e
  BY <1>2, SearchFinds
<1>4. Len(dp.path) # 1 /\ UNCHANGED <<card, fs>> /\ card \in Cards
  <2>1. Len(dp.path) > 1 /\ UNCHANGED <<card, fs>>
    BY DEF EnterDir
  <2>2. card \in Cards
    BY DEF TypeInv, BaseInv
  <2>3. Len(dp.path) = 1 => 1 > 1
    BY <2>1
  <2>4. QED
    BY <2>1, <2>2, <2>3
<1>5. /\ d = "root" /\ dp.path = Paths[path] /\ Len(Paths[path]) = 2
      /\ Tail(dp.path) = <<Paths[path][2]>> /\ Head(dp.path) = Paths[path][1]
      /\ Lookup(Paths[path]) =
           IF e.attr = "dir" THEN FileIn(e.obj, Paths[path][2]) ELSE "none"
  BY <1>3, <1>4, LookupIs
<1>6. CASE e.attr = "dir"
  <2>1. e.name # "last" /\ e.attr # "label"
    BY <1>2 DEF Matches
  <2>2. /\ e.obj \in DOMAIN card.dirs /\ e.obj # "root" /\ 1 \in DOMAIN card.chains[e.obj]
        /\ ld_clust(e) = card.chains[e.obj][1]
    BY <1>2, <1>4, <1>6, <2>1, EntryFacts
  <2>3. PICK s \in DOMAIN card.dirs : s = e.obj
    BY <2>2
  <2>4. PICK p, c : p = Tail(dp.path) /\ c = ld_clust(e)
    OBVIOUS
  <2>5. s # "root" /\ 1 \in DOMAIN card.chains[s] /\ c = card.chains[s][1]
    BY <2>2, <2>3, <2>4
  <2>6. /\ dir_sdi(c, p).dptr = 0 /\ dir_sdi(c, p).path = p /\ dir_sdi(c, p).sect # 0
        /\ 1 \in DOMAIN SectorsOf(s) /\ dir_sdi(c, p).sect = SectorsOf(s)[1]
        /\ dir_sdi(c, p).clust = IF Fixed(s) THEN 0 ELSE card.chains[s][1]
    BY <2>5, SubSearch
  <2>7. dp' = dir_sdi(c, p) /\ op' = "find"
    BY <1>2, <1>6, <2>3, <2>4, <2>6 DEF StartFind
  <2>8. SearchAt(s)'
    BY <1>4, <2>6, <2>7, SearchStarts
  <2>9. PathAt(s)'
    <3>1. \A b, n : Named(b, n)' = Named(b, n)
      BY <1>4, CardStays
    <3>2. Named("root", Paths[path][1])' = Named("root", Paths[path][1])
      BY <3>1
    <3>3. dp'.path = <<Paths[path][2]>>
      BY <1>5, <2>3, <2>4, <2>6, <2>7
    <3>4. Named("root", Paths[path][1]) = e
      BY <1>3, <1>5
    <3>5. QED
      BY <1>5, <1>6, <2>3, <3>2, <3>3, <3>4 DEF PathAt
  <2>10. QED
    BY <2>7, <2>8, <2>9 DEF Outcome
<1>7. CASE e.attr # "dir"
  <2>1. op' = "idle" /\ res' = "no_path"
    BY <1>2, <1>7 DEF Return
  <2>2. path \notin Present
    BY <1>5, <1>7, Absent
  <2>3. QED
    BY <2>1, <2>2 DEF Outcome
<1>8. QED
  BY <1>6, <1>7

LEMMA OpenFileOpens ==
  ASSUME TypeInv, VolumeKnown, OpenFile, NEW d \in DOMAIN card.dirs, SearchAt(d), PathAt(d)
  PROVE  Outcome
<1>1. PICK w \in move_window(win, dp.sect) :
        LET e == EntryAt(w.data, dp.dptr % DirPerSector)
        IN  /\ w.sect = dp.sect /\ Matches(e)
            /\ win' = w
            /\ \/ /\ e.attr = "file"
                  /\ fil' = [NoFile EXCEPT !.obj = e.obj, !.sclust = ld_clust(e),
                                           !.objsize = card.size[e.obj]]
                  /\ Return("ok")
               \/ e.attr = "dir" /\ Return("no_file") /\ UNCHANGED fil
  BY DEF OpenFile
<1>2. PICK e : /\ e = EntryAt(dp.sect, dp.dptr % DirPerSector) /\ Matches(e)
               /\ \/ /\ e.attr = "file"
                     /\ fil' = [NoFile EXCEPT !.obj = e.obj, !.sclust = ld_clust(e),
                                              !.objsize = card.size[e.obj]]
                     /\ Return("ok")
                  \/ e.attr = "dir" /\ Return("no_file")
               /\ ProperEntry(card, e)
  <2>1. w.data = dp.sect /\ ProperEntry(card, EntryAt(w.data, dp.dptr % DirPerSector))
    BY <1>1, FindWindow
  <2>2. QED
    BY <1>1, <2>1
<1>3. Named(d, Head(dp.path)) = e
  BY <1>2, SearchFinds
<1>4. Len(dp.path) = 1 /\ card \in Cards /\ path \in DOMAIN Paths
  BY DEF OpenFile, TypeInv, BaseInv
<1>5. Lookup(Paths[path]) = IF e.attr = "file" THEN e.obj ELSE "none"
  BY <1>3, <1>4, LookupIs DEF FileIn
<1>6. CASE e.attr = "file"
  <2>1. e.name # "last" /\ e.attr # "label"
    BY <1>2 DEF Matches
  <2>2. e.obj \in DOMAIN card.size
    BY <1>2, <1>4, <1>6, <2>1, EntryFacts
  <2>3. e.obj # "none"
    BY <1>4, <2>2, ObjectFacts
  <2>4. path \in Present
    BY <1>4, <1>5, <1>6, <2>3 DEF Present
  <2>5. fil'.obj = e.obj /\ op' = "idle" /\ res' = "ok"
    BY <1>2, <1>6 DEF Return, NoFile
  <2>6. QED
    BY <1>5, <1>6, <2>4, <2>5 DEF Outcome
<1>7. CASE e.attr = "dir"
  <2>1. op' = "idle" /\ res' = "no_file"
    BY <1>2, <1>7 DEF Return
  <2>2. path \notin Present
    BY <1>5, <1>7, Absent
  <2>3. QED
    BY <2>1, <2>2 DEF Outcome
<1>8. QED
  BY <1>2, <1>6, <1>7

LEMMA FindNextOpens ==
  ASSUME TypeInv, VolumeKnown, FindNext, UNCHANGED path,
         NEW d \in DOMAIN card.dirs, SearchAt(d), PathAt(d)
  PROVE  Outcome
<1>1. PICK w \in move_window(win, dp.sect) :
           /\ w.sect = dp.sect
           /\ EntryAt(w.data, dp.dptr % DirPerSector).name # "last"
           /\ ~Matches(EntryAt(w.data, dp.dptr % DirPerSector))
           /\ \E n \in dir_next(w) :
                /\ dp' = n.dp /\ win' = n.win /\ Count(n.res = "disk_err")
                /\ \/ n.res = "ok" /\ UNCHANGED <<op, res>>
                   \/ /\ n.res # "ok" /\ op' = "idle"
                      /\ res' = IF n.res = "no_file" THEN NotFound ELSE n.res
  BY FindNextIs
<1>2. WindowOK(w) /\ w.data = dp.sect
  BY <1>1, FindWindow
<1>3. PICK n \in dir_next(w) :
        /\ dp' = n.dp /\ win' = n.win /\ Count(n.res = "disk_err")
        /\ \/ n.res = "ok" /\ UNCHANGED <<op, res>>
           \/ /\ n.res # "ok" /\ op' = "idle"
              /\ res' = IF n.res = "no_file" THEN NotFound ELSE n.res
  BY <1>1
<1>4. /\ EntryAt(dp.sect, dp.dptr % DirPerSector).name # "last"
      /\ ~Matches(EntryAt(dp.sect, dp.dptr % DirPerSector))
  BY <1>1, <1>2
<1>5. PICK ofs, k : ofs = dp.dptr + 1 /\ k = ofs \div DirPerSector + 1
  OBVIOUS
<1>6. \/ n.res = "disk_err"
      \/ n.res = "no_file" /\ Named(d, Head(dp.path)) = Last
      \/ /\ n.res = "ok" /\ n.dp.path = dp.path /\ n.dp.dptr = ofs /\ ofs < MAX_DIR
         /\ k \in DOMAIN SectorsOf(d) /\ n.dp.sect = SectorsOf(d)[k]
         /\ n.dp.clust = IF Fixed(d) THEN 0 ELSE card.chains[d][1 + (k - 1) \div fs.csize]
         /\ \A i \in 1 .. ofs : i \in DOMAIN card.dirs[d] /\ card.dirs[d][i].name # "last"
                                /\ ~Matches(card.dirs[d][i])
  BY <1>2, <1>4, <1>5, SearchMoves
<1>7. op = "find" /\ UNCHANGED <<card, fs>>
  BY DEF FindNext
<1>8. CASE n.res = "disk_err"
  <2>1. MayFail
    BY <1>2, <1>8, DirNextTypes
  <2>2. ioErrors \in 0 .. MaxErrors /\ Count(TRUE) /\ TRUE \in BOOLEAN
    BY <1>3, <1>8 DEF TypeInv, BaseInv
  <2>3. ioErrors' # ioErrors
    BY <2>1, <2>2, Counted
  <2>4. op' = "idle" /\ res' = "disk_err"
    BY <1>3, <1>8
  <2>5. QED
    BY <2>3, <2>4 DEF Outcome
<1>9. CASE n.res = "no_file" /\ Named(d, Head(dp.path)) = Last
  <2>1. op' = "idle" /\ res' # "ok"
    BY <1>3, <1>9 DEF NotFound
  <2>2. QED
    BY <1>9, <2>1, MissedPath DEF Outcome
<1>10. CASE /\ n.res = "ok" /\ n.dp.path = dp.path /\ n.dp.dptr = ofs /\ ofs < MAX_DIR
            /\ k \in DOMAIN SectorsOf(d) /\ n.dp.sect = SectorsOf(d)[k]
            /\ n.dp.clust = IF Fixed(d) THEN 0 ELSE card.chains[d][1 + (k - 1) \div fs.csize]
            /\ \A i \in 1 .. ofs : i \in DOMAIN card.dirs[d] /\ card.dirs[d][i].name # "last"
                                   /\ ~Matches(card.dirs[d][i])
  <2>1. op' = "find" /\ dp' = n.dp
    BY <1>3, <1>7, <1>10
  <2>2. /\ dp'.path = dp.path /\ dp'.dptr = ofs /\ dp'.sect = SectorsOf(d)[k]
        /\ dp'.clust = IF Fixed(d) THEN 0 ELSE card.chains[d][1 + (k - 1) \div fs.csize]
    BY <1>10, <2>1
  <2>3. SectorsOf(d)' = SectorsOf(d) /\ Fixed(d)' = Fixed(d)
        /\ \A b, x : Named(b, x)' = Named(b, x)
    BY <1>7, CardStays DEF Fixed
  <2>4. \A i \in 1 .. ofs : Matches(card.dirs[d][i])' = Matches(card.dirs[d][i])
    BY <1>7, <2>2 DEF Matches
  <2>5. SearchAt(d)'
    BY <1>5, <1>7, <1>10, <2>2, <2>3, <2>4 DEF SearchAt
  <2>6. PathAt(d)'
    <3>1. Named("root", Paths[path][1])' = Named("root", Paths[path][1])
      BY <2>3
    <3>2. QED
      BY <2>2, <3>1 DEF PathAt
  <2>7. QED
    BY <2>1, <2>5, <2>6 DEF Outcome
<1>11. QED
  BY <1>6, <1>8, <1>9, <1>10

LEMMA OpeningStep ==
  ASSUME TypeInv, SearchInv, ~Mistaken, Fat, pc = "opening"
  PROVE  Outcome
<1>1. MainStays /\ (FindFails \/ EnterDir \/ OpenFile \/ FindNext)
  BY FatSplit
<1>2. op = "find" /\ UNCHANGED path
  BY <1>1 DEF FindFails, EnterDir, OpenFile, FindNext, MainStays
<1>3. VolumeKnown
  BY Known DEF TypeInv, StepInv
<1>4. PICK d \in DOMAIN card.dirs : SearchAt(d) /\ PathAt(d)
  BY <1>2 DEF SearchInv
<1>5. QED
  BY <1>1, <1>2, <1>3, <1>4, FindFailsOpens, EnterDirOpens, OpenFileOpens, FindNextOpens

\* f_open starts at the root directory.
LEMMA OpenStep ==
  ASSUME TypeInv, ~Mistaken, Open
  PROVE  op' = "find" /\ \E d \in DOMAIN card.dirs : SearchAt(d)' /\ PathAt(d)'
<1>1. /\ UNCHANGED <<card, fs, path>> /\ StartFind(0, Paths[path]) /\ fs.fs_type # 0
  BY DEF Open, f_open
<1>2. VolumeKnown
  BY <1>1, Known
<1>3. PICK p : p = Paths[path]
  OBVIOUS
<1>4. /\ dir_sdi(0, p).dptr = 0 /\ dir_sdi(0, p).path = p /\ dir_sdi(0, p).sect # 0
      /\ 1 \in DOMAIN SectorsOf("root") /\ dir_sdi(0, p).sect = SectorsOf("root")[1]
      /\ dir_sdi(0, p).clust = IF Fixed("root") THEN 0 ELSE card.chains["root"][1]
  BY <1>2, RootSearch
<1>5. dp' = dir_sdi(0, p) /\ op' = "find"
  BY <1>1, <1>3, <1>4 DEF StartFind
<1>6. "root" \in DOMAIN card.dirs
  BY ObjectFacts DEF TypeInv, BaseInv
<1>7. SearchAt("root")'
  BY <1>1, <1>2, <1>4, <1>5, <1>6, SearchStarts
<1>8. PathAt("root")'
  BY <1>1, <1>3, <1>4, <1>5 DEF PathAt
<1>9. QED
  BY <1>5, <1>6, <1>7, <1>8

\* main waits for FatFs before it goes on.
LEMMA MainWaits ==
  ASSUME MainAlone, pc = "opening"
  PROVE  op = "idle" /\ Opened
<1>1. /\ ~LoadDldi /\ ~NoParameters /\ ~Mounted /\ ~CheckSize /\ ~CopyBlock /\ ~NoBlock
      /\ ~Verify /\ ~CheckTotal
  BY DEF LoadDldi, NoParameters, Mounted, CheckSize, CopyBlock, NoBlock, Verify, CheckTotal
<1>2. Opened
  BY <1>1 DEF MainAlone
<1>3. QED
  BY <1>2 DEF Opened

LEMMA SearchNext ==
  ASSUME TypeInv, TypeInv', SearchInv, [Next]_vars
  PROVE  SearchInv'
<1>1. SUFFICES ASSUME ~Mistaken', op' = "find"
               PROVE  (\E d \in DOMAIN card.dirs : SearchAt(d) /\ PathAt(d))'
  BY DEF SearchInv
<1>2. pc' = "opening"
  BY <1>1 DEF TypeInv, StepInv
<1>3. CASE MainAlone
  BY <1>2, <1>3, MainSteps
<1>4. CASE Mount
  BY <1>2, <1>4 DEF Mount
<1>5. CASE Read
  BY <1>2, <1>5 DEF Read
<1>6. CASE Open
  <2>1. UNCHANGED <<card, fs>>
    BY <1>6 DEF Open, f_open
  <2>2. ~Mistaken
    BY <1>1, <2>1 DEF Mistaken
  <2>3. QED
    BY <1>6, <2>1, <2>2, OpenStep
<1>7. CASE Fat
  <2>1. pc = "opening" /\ (FindFails \/ EnterDir \/ OpenFile \/ FindNext)
    BY <1>2, <1>7, FatSplit DEF MainStays
  <2>2. UNCHANGED <<card, fs>>
    BY <2>1 DEF FindFails, EnterDir, OpenFile, FindNext
  <2>3. ~Mistaken
    BY <1>1, <2>2 DEF Mistaken
  <2>4. Outcome
    BY <1>7, <2>1, <2>3, OpeningStep
  <2>5. QED
    BY <1>1, <2>2, <2>4 DEF Outcome
<1>8. CASE UNCHANGED vars
  <2>1. UNCHANGED <<card, fs, dp, path, op>>
    BY <1>8 DEF vars, fatVars, mainVars
  <2>2. PICK d \in DOMAIN card.dirs : SearchAt(d) /\ PathAt(d)
    BY <1>1, <2>1 DEF SearchInv, Mistaken
  <2>3. SectorsOf(d)' = SectorsOf(d) /\ \A b, n : Named(b, n)' = Named(b, n)
    BY <2>1, CardStays
  <2>4. SearchAt(d)'
    BY <2>1, <2>2, <2>3 DEF SearchAt, Fixed, Matches
  <2>5. PathAt(d)'
    <3>1. Named("root", Paths[path][1])' = Named("root", Paths[path][1])
      BY <2>1, <2>3
    <3>2. QED
      BY <2>1, <2>2, <3>1 DEF PathAt
  <2>6. QED
    BY <2>1, <2>4, <2>5
<1>9. QED
  BY <1>3, <1>4, <1>5, <1>6, <1>7, <1>8, Steps

LEMMA SearchHolds == Spec => []SearchInv
<1>1. Init => SearchInv
  BY DEF Init, FatInit, SearchInv
<1>2. TypeInv /\ TypeInv' /\ SearchInv /\ [Next]_vars => SearchInv'
  BY SearchNext
<1>3. QED
  BY <1>1, <1>2, TypesHold, PTL DEF Spec

\* What OpenInv says is about these.
LEMMA OpenKept ==
  ASSUME UNCHANGED <<card, fs, path, fil>>, hit \subseteq hit'
  PROVE  /\ Mistaken' = Mistaken /\ Present' = Present /\ (Chosen <=> Chosen')
         /\ (Tried => Tried')
<1>1. Mistaken' = Mistaken
  BY DEF Mistaken
<1>2. Present' = Present /\ \A p : Lookup(p)' = Lookup(p)
  BY CardStays
<1>3. Lookup(Paths[path])' = Lookup(Paths[path])
  BY <1>2
<1>4. QED
  BY <1>1, <1>2, <1>3 DEF Chosen, Tried

LEMMA OpenMain ==
  ASSUME TypeInv, OpenInv, MainAlone
  PROVE  OpenInv'
<1>1. UNCHANGED <<card, fs, fil, op, res>>
  BY FatStays DEF fatVars
<1>2. Mistaken' = Mistaken /\ Present' = Present /\ Lookup(Paths[path])' = Lookup(Paths[path'])
  <2>1. Present' = Present /\ \A p : Lookup(p)' = Lookup(p)
    BY <1>1, CardStays
  <2>2. Lookup(Paths[path])' = Lookup(Paths[path'])
    BY <2>1
  <2>3. QED
    BY <1>1, <2>1, <2>2 DEF Mistaken
<1>3. screen # "cyan" \/ pc = "stopped"
  BY DEF TypeInv, StepInv
<1>4. ASSUME UNCHANGED <<path, hit>>
      PROVE  /\ Tried' = Tried /\ Chosen' = Chosen
  BY <1>1, <1>2, <1>4 DEF Tried, Chosen
<1>5. CASE LoadDldi
  BY <1>2, <1>4, <1>5 DEF LoadDldi, OpenInv
<1>6. CASE NoParameters
  BY <1>2, <1>4, <1>6 DEF NoParameters, Stop, OpenInv
<1>7. CASE Mounted
  <2>1. /\ pc = "mounting" /\ UNCHANGED <<path, hit>>
        /\ \/ pc' = "open" /\ UNCHANGED screen
           \/ pc' = "stopped" /\ screen' = "green"
    BY <1>7 DEF Mounted, Stop
  <2>2. path = 1
    BY <2>1 DEF OpenInv
  <2>3. Tried'
    <3>1. Present \subseteq Nat \ {0}
      <4>1. Paths \in Seq(Seq(STRING))
        BY LoaderAssumption
      <4>2. DOMAIN Paths \subseteq Nat \ {0}
        BY <4>1
      <4>3. QED
        BY <4>2 DEF Present
    <3>2. \A i \in Present : ~(i < path)
      BY <2>2, <3>1
    <3>3. QED
      BY <1>2, <2>1, <3>2 DEF Tried
  <2>4. QED
    BY <1>2, <1>3, <2>1, <2>3 DEF OpenInv
<1>8. CASE Opened
  <2>1. /\ pc = "opening" /\ op = "idle" /\ UNCHANGED hit
        /\ \/ res = "ok" /\ pc' = "size" /\ UNCHANGED <<path, screen>>
           \/ res # "ok" /\ path < Len(Paths) /\ path' = path + 1 /\ pc' = "open" /\ UNCHANGED screen
           \/ res # "ok" /\ path = Len(Paths) /\ pc' = "stopped" /\ screen' = "cyan" /\ UNCHANGED path
    BY <1>8 DEF Opened, Stop
  <2>2. SUFFICES ASSUME ~Mistaken
                 PROVE  OpenInv'
    BY <1>2, <2>1 DEF OpenInv
  <2>3. Tried /\ IF res = "ok" THEN Chosen ELSE path \in Present => path \in hit
    BY <2>1, <2>2 DEF OpenInv
  <2>4. DOMAIN Paths = 1 .. Len(Paths) /\ Len(Paths) \in Nat /\ path \in DOMAIN Paths
        /\ Present \subseteq DOMAIN Paths
    <3>1. Paths \in Seq(Seq(STRING))
      BY LoaderAssumption
    <3>2. DOMAIN Paths = 1 .. Len(Paths) /\ Len(Paths) \in Nat
      BY <3>1
    <3>3. QED
      BY <3>2 DEF TypeInv, BaseInv, Present
  <2>5. CASE res = "ok" /\ pc' = "size" /\ UNCHANGED <<path, screen>>
    BY <1>2, <1>3, <1>4, <2>1, <2>3, <2>5 DEF OpenInv
  <2>6. CASE res # "ok" /\ path' = path + 1 /\ pc' = "open" /\ UNCHANGED screen
    <3>1. ASSUME NEW i \in Present, i < path + 1
          PROVE  i \in hit
      <4>1. i \in Nat /\ path \in Nat
        BY <2>4
      <4>2. i < path \/ i = path
        BY <3>1, <4>1
      <4>3. QED
        BY <2>3, <2>6, <4>2 DEF Tried
    <3>2. Tried'
      BY <1>2, <2>1, <2>6, <3>1 DEF Tried
    <3>3. QED
      BY <1>2, <1>3, <2>1, <2>6, <3>2 DEF OpenInv
  <2>7. CASE res # "ok" /\ path = Len(Paths) /\ pc' = "stopped" /\ screen' = "cyan" /\ UNCHANGED path
    <3>1. ASSUME NEW i \in Present
          PROVE  i \in hit
      <4>1. i < path \/ i = path
        BY <2>4, <2>7
      <4>2. QED
        BY <2>3, <2>7, <4>1 DEF Tried
    <3>2. Present \subseteq hit
      BY <3>1
    <3>3. QED
      BY <1>2, <2>1, <2>7, <3>2 DEF OpenInv
  <2>8. QED
    BY <2>1, <2>5, <2>6, <2>7
<1>9. CASE CheckSize
  BY <1>2, <1>3, <1>4, <1>9 DEF CheckSize, Stop, OpenInv
<1>10. CASE CopyBlock
  BY <1>2, <1>3, <1>4, <1>10 DEF CopyBlock, OpenInv
<1>11. CASE NoBlock
  BY <1>2, <1>3, <1>4, <1>11 DEF NoBlock, Stop, OpenInv
<1>12. CASE Verify
  <2>1. /\ pc = "verify" /\ UNCHANGED <<path, hit>>
        /\ \/ pc' = "read" /\ UNCHANGED screen
           \/ pc' = "stopped" /\ screen' = "grey"
    BY <1>12 DEF Verify, Stop
  <2>2. QED
    BY <1>2, <1>3, <1>4, <2>1 DEF OpenInv
<1>13. CASE CheckTotal
  <2>1. /\ pc = "total" /\ UNCHANGED <<path, hit>>
        /\ \/ pc' = "started" /\ UNCHANGED screen
           \/ pc' = "stopped" /\ screen' \in {"blue", "red", "olive"}
    BY <1>13 DEF CheckTotal, Stop
  <2>2. QED
    BY <1>2, <1>3, <1>4, <2>1 DEF OpenInv
<1>14. QED
  BY <1>5, <1>6, <1>7, <1>8, <1>9, <1>10, <1>11, <1>12, <1>13 DEF MainAlone

\* f_read stays with the file that was opened.
LEMMA ReadingStays ==
  ASSUME TypeInv, Fat, pc = "reading"
  PROVE  /\ UNCHANGED <<card, fs, path, pc, screen, hit, total, sdram, board, mode, driver>>
         /\ fil'.obj = fil.obj /\ fil'.objsize = fil.objsize
<1>1. MainStays /\ (ReadEnds \/ ReadTurn \/ ReadFails)
  BY FatSplit
<1>2. hit' = hit
  BY FatSplit
<1>3. CASE ReadEnds
  BY <1>1, <1>2, <1>3 DEF ReadEnds, MainStays
<1>4. CASE ReadTurn
  <2>1. UNCHANGED <<card, fs>> /\ \E c, f, s : fil' = [fil EXCEPT !.clust = c, !.fptr = f, !.sect = s]
    BY <1>4 DEF ReadTurn
  <2>2. fil'.obj = fil.obj /\ fil'.objsize = fil.objsize
    BY <2>1 DEF TypeInv, FileInv
  <2>3. QED
    BY <1>1, <1>2, <2>1, <2>2 DEF MainStays
<1>5. CASE ReadFails
  <2>1. UNCHANGED <<card, fs>> /\ \E r : fil' = [fil EXCEPT !.err = r]
    BY <1>5 DEF ReadFails, Abort
  <2>2. fil'.obj = fil.obj /\ fil'.objsize = fil.objsize
    BY <2>1 DEF TypeInv, FileInv
  <2>3. QED
    BY <1>1, <1>2, <2>1, <2>2 DEF MainStays
<1>6. QED
  BY <1>1, <1>3, <1>4, <1>5

LEMMA OpenNext ==
  ASSUME TypeInv, TypeInv', OpenInv, SearchInv, [Next]_vars
  PROVE  OpenInv'
<1>1. screen' = "cyan" => pc' = "stopped"
  BY DEF TypeInv, StepInv
<1>2. CASE MainAlone
  BY <1>2, OpenMain
<1>3. CASE Mount
  <2>1. pc = "mount" /\ pc' = "mounting" /\ UNCHANGED path
    BY <1>3 DEF Mount
  <2>2. QED
    BY <1>1, <2>1 DEF OpenInv
<1>4. CASE Open
  <2>1. pc = "open" /\ pc' = "opening" /\ UNCHANGED <<card, fs, path, hit>>
    BY <1>4 DEF Open, f_open
  <2>2. SUFFICES ASSUME ~Mistaken'
                 PROVE  Tried' /\ op' # "idle"
    BY <1>1, <2>1 DEF OpenInv
  <2>3. ~Mistaken
    BY <2>1, <2>2 DEF Mistaken
  <2>4. Present' = Present
    BY <2>1, CardStays
  <2>5. Tried'
    BY <2>1, <2>3, <2>4 DEF OpenInv, Tried
  <2>6. QED
    BY <1>4, <2>3, <2>5, OpenStep
<1>5. CASE Read
  <2>1. pc = "read" /\ pc' = "reading" /\ UNCHANGED <<card, fs, path, hit, fil, screen>>
    BY <1>5, ReadTypes
  <2>2. QED
    BY <1>1, <2>1, OpenKept DEF OpenInv
<1>6. CASE Fat /\ pc = "mounting"
  <2>1. pc' = pc /\ UNCHANGED path
    BY <1>6, FatIs DEF MainStays
  <2>2. QED
    BY <1>1, <1>6, <2>1 DEF OpenInv
<1>7. CASE Fat /\ pc = "opening"
  <2>1. /\ pc' = pc /\ UNCHANGED path
        /\ hit' = IF ioErrors' # ioErrors THEN hit \cup {path} ELSE hit
        /\ (FindFails \/ EnterDir \/ OpenFile \/ FindNext)
    BY <1>7, FatSplit DEF MainStays
  <2>2. UNCHANGED <<card, fs>>
    BY <2>1 DEF FindFails, EnterDir, OpenFile, FindNext
  <2>3. SUFFICES ASSUME ~Mistaken'
                 PROVE  /\ Tried'
                        /\ op' = "idle" => IF res' = "ok" THEN Chosen'
                                           ELSE path' \in Present' => path' \in hit'
    BY <1>1, <1>7, <2>1 DEF OpenInv
  <2>4. ~Mistaken
    BY <2>2, <2>3 DEF Mistaken
  <2>5. Outcome
    BY <1>7, <2>4, OpeningStep
  <2>6. Present' = Present /\ Lookup(Paths[path])' = Lookup(Paths[path])
    <3>1. Present' = Present /\ \A p : Lookup(p)' = Lookup(p)
      BY <2>2, CardStays
    <3>2. Lookup(Paths[path])' = Lookup(Paths[path])
      BY <2>1, <3>1
    <3>3. QED
      BY <3>1, <3>2
  <2>7. Tried'
    BY <1>7, <2>1, <2>4, <2>6 DEF OpenInv, Tried
  <2>8. QED
    BY <2>1, <2>5, <2>6, <2>7 DEF Outcome, Chosen
<1>8. CASE Fat /\ pc = "reading"
  <2>1. UNCHANGED <<card, fs, path, pc, screen>> /\ fil'.obj = fil.obj
    BY <1>8, ReadingStays
  <2>2. Mistaken' = Mistaken
    BY <2>1 DEF Mistaken
  <2>3. Present' = Present /\ Lookup(Paths[path])' = Lookup(Paths[path])
    <3>1. Present' = Present /\ \A p : Lookup(p)' = Lookup(p)
      BY <2>1, CardStays
    <3>2. Lookup(Paths[path])' = Lookup(Paths[path])
      BY <2>1, <3>1
    <3>3. QED
      BY <3>1, <3>2
  <2>4. Chosen' = Chosen
    BY <2>1, <2>3 DEF Chosen
  <2>5. QED
    BY <1>1, <1>8, <2>1, <2>2, <2>4 DEF OpenInv
<1>9. CASE UNCHANGED vars
  <2>1. UNCHANGED <<card, fs, path, fil, hit, pc, op, res, screen>>
    BY <1>9 DEF vars, fatVars, mainVars
  <2>2. QED
    BY <2>1, OpenKept DEF OpenInv
<1>10. QED
  BY <1>2, <1>3, <1>4, <1>5, <1>6, <1>7, <1>8, <1>9, Steps, FatSplit

LEMMA OpenHolds == Spec => []OpenInv
<1>1. Init => OpenInv
  BY DEF Init, OpenInv
<1>2. TypeInv /\ TypeInv' /\ OpenInv /\ SearchInv /\ [Next]_vars => OpenInv'
  BY OpenNext
<1>3. QED
  BY <1>1, <1>2, TypesHold, SearchHolds, PTL DEF Spec

\* The kernel main opens is the file that the first of the paths with a kernel leads
\* to; a failing command costs only the path it met, and main reports that there is
\* none only when each path has none or met one (ff.c:1089, main.c:94-100).
THEOREM FirstOpened == Spec => []OpensFirst
<1>1. ASSUME TypeInv, OpenInv
      PROVE  OpensFirst
  <2>1. SUFFICES ASSUME ~Mistaken
                 PROVE  /\ pc = "size" => path \in Present /\ \A i \in Present \ hit : path <= i
                        /\ pc = "size" => fil.obj = Lookup(Paths[path])
                        /\ screen = "cyan" => Present \ hit = {}
    BY DEF OpensFirst
  <2>2. pc = "size" => Tried /\ Chosen
    BY <1>1, <2>1 DEF OpenInv
  <2>3. DOMAIN Paths \subseteq Nat /\ path \in DOMAIN Paths /\ Present \subseteq DOMAIN Paths
    <3>1. Paths \in Seq(Seq(STRING))
      BY LoaderAssumption
    <3>2. DOMAIN Paths \subseteq Nat
      BY <3>1
    <3>3. QED
      BY <1>1, <3>2 DEF TypeInv, BaseInv, Present
  <2>4. pc = "size" => \A i \in Present \ hit : path <= i
    <3>1. ASSUME pc = "size", NEW i \in Present \ hit
          PROVE  path <= i
      <4>1. ~(i < path)
        BY <2>2, <3>1 DEF Tried
      <4>2. i \in Nat /\ path \in Nat
        BY <2>3
      <4>3. QED
        BY <4>1, <4>2
    <3>2. QED
      BY <3>1
  <2>5. screen = "cyan" => Present \ hit = {}
    BY <1>1, <2>1 DEF OpenInv
  <2>6. QED
    BY <2>2, <2>4, <2>5 DEF Chosen
<1>2. QED
  BY <1>1, TypesHold, OpenHolds, PTL

-----------------------------------------------------------------------------
\* The SDRAM

\* A byte of the block that has just been copied, and one of a block that was verified.
Copied(p) == sdram[p] = IF p \div 4 \in board.bad THEN Broken ELSE <<fil.obj, p>>
Kept(p) == sdram[p] = <<fil.obj, p>> \/ (p \div 4 \in board.bad /\ p % BufSize >= 4)
SdramInv ==
  ~Mistaken =>
    /\ pc \in {"read", "reading", "verify", "total", "started"} =>
         \A p \in 0 .. total - 1 : Kept(p)
    /\ pc = "verify" => \A p \in total .. total + rd.br - 1 : Copied(p)

\* A bad word holds neither what was there before nor a file's byte.
LEMMA BrokenApart ==
  ASSUME card \in Cards, NEW o \in DOMAIN card.size, NEW n
  PROVE  Broken # Old /\ <<o, n>> # Broken /\ <<o, n>> # Old
<1>1. o # "old" /\ o # "broken"
  BY LoaderAssumption
<1>2. QED
  BY <1>1 DEF Broken, Old

\* A block has room for the word that is compared.
LEMMA WordFits == BufSize >= 4
<1>1. PICK b \in Nat \ {0} : b = BufSize
  BY SizeFacts
<1>2. b % 4 = 0
  BY <1>1, LoaderAssumption
<1>3. b >= 4
  BY <1>2
<1>4. QED
  BY <1>1, <1>3

\* The first four bytes of the buffer.
LEMMA FirstWord ==
  ASSUME TypeInv, NEW i \in 1 .. 4
  PROVE  SubSeq(buf, 1, 4)[i] = buf[i]
<1>1. buf \in [1 .. BufSize -> Bytes] /\ BufSize \in Nat /\ BufSize >= 4
  BY WordFits, SizeFacts DEF TypeInv, BaseInv
<1>2. buf \in Seq(Bytes) /\ Len(buf) = BufSize
  BY <1>1
<1>3. QED
  BY <1>1, <1>2

\* Where the block is that is being verified.
LEMMA Block ==
  ASSUME TypeInv, ReadInv, ~Mistaken, pc \in {"reading", "verify"}, rd.br > 0,
         NEW p \in total .. total + rd.br - 1
  PROVE  /\ total % BufSize = 0 /\ p \in 0 .. SdramSize - 1 /\ p \in Nat /\ p >= total
         /\ p % BufSize = p - total /\ p - total + 1 \in 1 .. rd.br
         /\ buf[p - total + 1] = <<fil.obj, p>>
<1>1. PICK t \in Nat, r \in 0 .. BufSize, f \in Nat, o \in Nat :
        t = total /\ r = rd.br /\ f = fil.fptr /\ o = fil.objsize
  BY DEF TypeInv, FileInv, CountInv
<1>2. PICK s \in Nat, m \in Nat, b \in Nat \ {0} : s = SdramSize /\ m = MaxKernel /\ b = BufSize
  <2>1. SdramSize \in Nat /\ MaxKernel \in Nat /\ BufSize \in Nat \ {0}
    BY LoaderAssumption, SizeFacts
  <2>2. QED
    BY <2>1
<1>3. t + r = f /\ f <= o /\ o <= m /\ m <= s /\ r <= b /\ r > 0
  BY <1>1, <1>2, LoaderAssumption DEF TypeInv, FileInv, CountInv
<1>4. t % b = 0 \/ t = o
  BY <1>1, <1>2 DEF TypeInv, CountInv
<1>5. t % b = 0
  BY <1>3, <1>4
<1>6. p \in Nat /\ p >= t /\ p < t + r /\ p - t + 1 \in 1 .. r /\ p \in 0 .. s - 1
  BY <1>1, <1>3
<1>7. p % b = p - t
  <2>1. PICK q \in Nat : t = b * q
    <3>1. t \in Int /\ t >= 0
      OBVIOUS
    <3>2. t \div b \in Nat /\ t = b * (t \div b) + (t % b)
      BY <3>1, DivMod
    <3>3. PICK q \in Nat : q = t \div b
      BY <3>2
    <3>4. b * q \in Nat
      BY Product
    <3>5. QED
      BY <1>5, <3>2, <3>3, <3>4
  <2>2. p - t \in 0 .. b - 1
    BY <1>3, <1>6
  <2>3. (b * q + (p - t)) % b = p - t
    <3>1. PICK x \in 0 .. b - 1 : x = p - t
      BY <2>2
    <3>2. q \in Int /\ b \in Nat \ {0}
      BY <2>1
    <3>3. (b * q + x) % b = x
      BY <3>2, DivUnique
    <3>4. QED
      BY <3>1, <3>3
  <2>4. b * q + (p - t) = p
    BY <1>6, <2>1
  <2>5. QED
    BY <2>3, <2>4
<1>8. buf[p - t + 1] = <<fil.obj, f - r + (p - t + 1) - 1>>
  BY <1>1, <1>6 DEF ReadInv, TypeInv, FileInv
<1>9. f - r + (p - t + 1) - 1 = p
  BY <1>3, <1>6
<1>10. QED
  BY <1>1, <1>2, <1>5, <1>6, <1>7, <1>8, <1>9

\* The words of the copied block that are compared are good ones.
LEMMA Verified ==
  ASSUME TypeInv, ReadInv, SdramInv, ~Mistaken, pc = "verify",
         TRUE \in Compared(total, SubSeq(buf, 1, 4)),
         NEW p \in total .. total + rd.br - 1
  PROVE  Kept(p)
<1>1. Copied(p) /\ rd.br > 0
  BY DEF SdramInv, TypeInv, CountInv
<1>2. CASE p \div 4 \notin board.bad
  BY <1>1, <1>2 DEF Copied, Kept
<1>3. CASE p \div 4 \in board.bad
  <2>1. /\ p \in Nat /\ total \in Nat /\ p >= total /\ p % BufSize = p - total
        /\ p - total + 1 \in 1 .. rd.br
        /\ buf[p - total + 1] = <<fil.obj, p>>
    BY <1>1, Block DEF TypeInv, CountInv
  <2>2. SUFFICES ASSUME p % BufSize < 4
                 PROVE  FALSE
    BY <1>3, <2>1 DEF Kept
  <2>3. PICK i \in 1 .. 4 : i = p - total + 1
    BY <2>1, <2>2
  <2>4. sdram[total + i - 1] = SubSeq(buf, 1, 4)[i] \/ sdram[total + i - 1] = Old
    BY DEF Compared
  <2>5. total + i - 1 = p
    BY <2>1, <2>3
  <2>6. sdram[p] = <<fil.obj, p>> \/ sdram[p] = Old
    BY <2>1, <2>3, <2>4, <2>5, FirstWord
  <2>7. sdram[p] = Broken
    BY <1>1, <1>3 DEF Copied
  <2>8. fil.obj \in DOMAIN card.size /\ card \in Cards
    BY DEF TypeInv, BaseInv, FileInv
  <2>9. QED
    BY <2>6, <2>7, <2>8, BrokenApart
<1>4. QED
  BY <1>2, <1>3

\* A step that leaves the SDRAM and the file as they are.
LEMMA SdramKept ==
  ASSUME SdramInv, UNCHANGED <<sdram, board, card, fs, total>>, fil'.obj = fil.obj,
         pc' # "verify" \/ (pc = "verify" /\ rd' = rd),
         pc' \in {"read", "reading", "verify", "total", "started"} =>
           pc \in {"read", "reading", "verify", "total", "started"}
  PROVE  SdramInv'
<1>1. Mistaken' = Mistaken
  BY DEF Mistaken
<1>2. ASSUME NEW p
      PROVE  Kept(p)' = Kept(p) /\ Copied(p)' = Copied(p)
  BY DEF Kept, Copied, Broken
<1>3. QED
  BY <1>1, <1>2 DEF SdramInv

LEMMA SdramMain ==
  ASSUME TypeInv, ReadInv, SdramInv, MainAlone
  PROVE  SdramInv'
<1>1. UNCHANGED <<card, fs, fil, rd, buf>> /\ UNCHANGED board
  BY FatStays DEF fatVars
<1>2. Mistaken' = Mistaken
  BY <1>1 DEF Mistaken
<1>3. CASE LoadDldi \/ NoParameters \/ Mounted \/ Opened
  <2>1. pc' \in {"mount", "stopped", "open", "size"}
    BY <1>3 DEF LoadDldi, NoParameters, Mounted, Opened, Stop
  <2>2. QED
    BY <2>1 DEF SdramInv
<1>4. CASE CheckSize
  <2>1. total' = 0 /\ pc' # "verify"
    BY <1>4 DEF CheckSize, Stop, TypeInv, CountInv
  <2>2. QED
    BY <2>1 DEF SdramInv
<1>5. CASE CopyBlock
  <2>1. /\ pc = "reading" /\ rd.br > 0 /\ pc' = "verify" /\ total' = total
        /\ sdram' = [p \in DOMAIN sdram |->
                       IF p - total \notin 0 .. rd.br - 1 THEN sdram[p]
                       ELSE IF p \div 4 \in board.bad THEN Broken
                       ELSE buf[p - total + 1]]
    BY <1>5 DEF CopyBlock
  <2>2. SUFFICES ASSUME ~Mistaken
                 PROVE  /\ \A p \in 0 .. total - 1 : Kept(p)'
                        /\ \A p \in total .. total + rd.br - 1 : Copied(p)'
    BY <1>1, <1>2, <2>1 DEF SdramInv
  <2>3. DOMAIN sdram = 0 .. SdramSize - 1 /\ total \in Nat /\ rd.br \in Nat
    BY DEF TypeInv, BaseInv, CountInv
  <2>4. ASSUME NEW p \in 0 .. total - 1
        PROVE  Kept(p)'
    <3>1. Kept(p)
      BY <2>1, <2>2 DEF SdramInv
    <3>2. total \in total .. total + rd.br - 1
      BY <2>1, <2>3
    <3>3. total \in 0 .. SdramSize - 1
      BY <2>1, <2>2, <3>2, Block
    <3>4. p \in DOMAIN sdram /\ p - total \notin 0 .. rd.br - 1
      BY <2>3, <3>3, LoaderAssumption
    <3>5. sdram'[p] = sdram[p]
      BY <2>1, <3>4
    <3>6. QED
      BY <1>1, <3>1, <3>5 DEF Kept
  <2>5. ASSUME NEW p \in total .. total + rd.br - 1
        PROVE  Copied(p)'
    <3>1. p \in DOMAIN sdram /\ buf[p - total + 1] = <<fil.obj, p>>
      BY <2>1, <2>2, <2>3, Block
    <3>2. p - total \in 0 .. rd.br - 1
      BY <2>3
    <3>3. sdram'[p] = IF p \div 4 \in board.bad THEN Broken ELSE <<fil.obj, p>>
      BY <2>1, <3>1, <3>2
    <3>4. QED
      BY <1>1, <3>3 DEF Copied, Broken
  <2>6. QED
    BY <2>4, <2>5
<1>6. CASE NoBlock
  <2>1. pc = "reading" /\ pc' \in {"stopped", "total"} /\ UNCHANGED <<sdram, total>>
    BY <1>6 DEF NoBlock, Stop
  <2>2. QED
    BY <1>1, <2>1, SdramKept
<1>7. CASE Verify
  <2>1. pc = "verify" /\ sdram' = sdram
    BY <1>7 DEF Verify
  <2>2. PICK equal \in Compared(total, SubSeq(buf, 1, 4)) :
          IF equal THEN total' = total + rd.br /\ pc' = "read" ELSE pc' = "stopped"
    BY <1>7 DEF Verify, Stop
  <2>3. CASE ~equal
    BY <2>2, <2>3 DEF SdramInv
  <2>4. CASE equal
    <3>1. equal \in BOOLEAN
      BY DEF Compared
    <3>2. TRUE \in Compared(total, SubSeq(buf, 1, 4))
      <4>1. equal = TRUE
        BY <2>4, <3>1
      <4>2. QED
        BY <4>1
    <3>3. total' = total + rd.br /\ pc' = "read"
      BY <2>2, <2>4
    <3>4. SUFFICES ASSUME ~Mistaken
                   PROVE  \A p \in 0 .. total' - 1 : Kept(p)'
      BY <1>2, <3>3 DEF SdramInv
    <3>5. total \in Nat /\ rd.br \in Nat
      BY DEF TypeInv, CountInv
    <3>6. ASSUME NEW p \in 0 .. total' - 1
          PROVE  Kept(p)
      <4>1. CASE p < total
        BY <2>1, <3>4, <3>5, <3>6, <4>1 DEF SdramInv
      <4>2. CASE p >= total
        <5>1. p \in total .. total + rd.br - 1
          BY <3>3, <3>5, <4>2
        <5>2. QED
          BY <2>1, <3>2, <3>4, <5>1, Verified
      <4>3. QED
        BY <3>3, <3>5, <4>1, <4>2
    <3>7. ASSUME NEW p \in 0 .. total' - 1
          PROVE  Kept(p)'
      <4>1. Kept(p)
        BY <3>6
      <4>2. QED
        BY <1>1, <2>1, <4>1 DEF Kept
    <3>8. QED
      BY <3>7
  <2>5. QED
    BY <2>3, <2>4
<1>8. CASE CheckTotal
  <2>1. pc = "total" /\ pc' \in {"stopped", "started"} /\ UNCHANGED <<sdram, total>>
    BY <1>8 DEF CheckTotal, Stop
  <2>2. QED
    BY <1>1, <2>1, SdramKept
<1>9. QED
  BY <1>3, <1>4, <1>5, <1>6, <1>7, <1>8 DEF MainAlone

LEMMA SdramNext ==
  ASSUME TypeInv, ReadInv, SdramInv, [Next]_vars
  PROVE  SdramInv'
<1>1. CASE MainAlone
  BY <1>1, SdramMain
<1>2. CASE Mount \/ Open
  <2>1. pc' \in {"mounting", "opening"}
    BY <1>2 DEF Mount, Open
  <2>2. QED
    BY <2>1 DEF SdramInv
<1>3. CASE Read
  <2>1. pc = "read" /\ pc' = "reading" /\ UNCHANGED <<sdram, board, card, fs, total, fil>>
    BY <1>3, ReadTypes
  <2>2. QED
    BY <2>1, SdramKept
<1>4. CASE Fat /\ pc \in {"mounting", "opening"}
  <2>1. pc' \in {"mounting", "opening"}
    BY <1>4, FatIs DEF MainStays
  <2>2. QED
    BY <2>1 DEF SdramInv
<1>5. CASE Fat /\ pc = "reading"
  <2>1. UNCHANGED <<card, fs, pc, total, sdram, board>> /\ fil'.obj = fil.obj
    BY <1>5, ReadingStays
  <2>2. QED
    BY <1>5, <2>1, SdramKept
<1>6. CASE UNCHANGED vars
  <2>1. UNCHANGED <<sdram, board, card, fs, total, fil, rd, pc>>
    BY <1>6 DEF vars, fatVars, mainVars
  <2>2. QED
    BY <2>1, SdramKept
<1>7. QED
  BY <1>1, <1>2, <1>3, <1>4, <1>5, <1>6, Steps, FatIs

LEMMA SdramHolds == Spec => []SdramInv
<1>1. Init => SdramInv
  BY DEF Init, SdramInv
<1>2. TypeInv /\ ReadInv /\ SdramInv /\ [Next]_vars => SdramInv'
  BY SdramNext
<1>3. QED
  BY <1>1, <1>2, TypesHold, ReadInvHolds, PTL DEF Spec

\* What main starts is all of the kernel's file, each byte at its place; only bytes of
\* bad words that are not the first word of a block may differ, since the verification
\* compares no other (main.c:101-130).
THEOREM WholeKernel == Spec => []StartsWholeKernel
<1>1. ASSUME TypeInv, SdramInv
      PROVE  StartsWholeKernel
  <2>1. SUFFICES ASSUME ~Mistaken, pc = "started", NEW p \in 0 .. fil.objsize - 1
                 PROVE  sdram[p] = <<fil.obj, p>> \/ (p \div 4 \in board.bad /\ p % BufSize >= 4)
    BY DEF StartsWholeKernel
  <2>2. total = fil.objsize
    BY <1>1, <2>1 DEF TypeInv, CountInv
  <2>3. Kept(p)
    BY <1>1, <2>1, <2>2 DEF SdramInv
  <2>4. QED
    BY <2>3 DEF Kept
<1>2. QED
  BY <1>1, TypesHold, SdramHolds, PTL

-----------------------------------------------------------------------------
\* A kernel that can be started

\* While find_volume looks for the volume, it has not passed it.
Probed ==
  fs.probe = 0 \/ (card.part # 0 /\ \A i \in 1 .. fs.probe - 1 : card.table[i] # card.part)

\* What main and FatFs have come to when no command has failed.
Least == \A i \in Present : path <= i
Going ==
  /\ pc # "stopped" /\ hit = {}
  /\ pc = "mount" => driver = board.wants
  /\ op = "check" => Probed
  /\ pc = "mounting" /\ op = "idle" => res = "ok"
  /\ pc = "reading" /\ op = "idle" => res = "ok"
  /\ pc \in {"size", "read", "reading", "verify", "total", "started"} => Least
StartInv == Startable /\ ioErrors = 0 => Going

\* A proper card's volume is taken for what it is.
LEMMA ProperKnown ==
  ASSUME TypeInv, card.proper
  PROVE  ~Mistaken /\ Mountable(card)
<1>1. card \in Cards /\ card.proper
  BY DEF TypeInv, BaseInv
<1>2. Mountable(card)
  BY <1>1, InVolumeFacts
<1>3. CASE fs.fs_type # 0
  <2>1. fs = [VolumeOf(card) EXCEPT !.probe = fs.probe]
    BY <1>3, VolumeTypes
  <2>2. fs.fs_type = KindOf(nclst(card.bpb))
    BY <2>1 DEF VolumeOf
  <2>3. QED
    BY <1>2, <2>2 DEF Mistaken, Mountable
<1>4. QED
  BY <1>2, <1>3 DEF Mistaken

\* A proper card's volume is never taken for another kind: on such a card the other
\* theorems hold without their premise (ff.c:3539-3543).
THEOREM ProperTaken == Spec => [](card.proper => ~Mistaken)
<1>1. TypeInv => (card.proper => ~Mistaken)
  BY ProperKnown
<1>2. QED
  BY <1>1, TypesHold, PTL

LEMMA Unmistaken ==
  ASSUME TypeInv, Startable
  PROVE  ~Mistaken /\ Mountable(card)
BY ProperKnown DEF Startable

\* The card and the board stay what they are.
LEMMA StartStays ==
  ASSUME UNCHANGED <<card, board>>
  PROVE  Startable' = Startable /\ Present' = Present
<1>1. Present' = Present /\ \A p : Lookup(p)' = Lookup(p)
  BY CardStays
<1>2. Lookup(Paths[Min(Present)])' = Lookup(Paths[Min(Present)])
  BY <1>1
<1>3. Detected' = Detected
  BY DEF Detected, detect_supercard_type
<1>4. QED
  BY <1>1, <1>2, <1>3 DEF Startable

\* No count of failed commands goes down.
LEMMA CountUp ==
  ASSUME TypeInv, NEW b, Count(b), ioErrors' = 0
  PROVE  ioErrors = 0 /\ ~b
<1>1. PICK e \in Nat : e = ioErrors
  BY DEF TypeInv, BaseInv
<1>2. ioErrors' = e + (IF b THEN 1 ELSE 0)
  BY <1>1 DEF Count
<1>3. QED
  BY <1>1, <1>2

\* The kernel that is read is the first one, and its size is one that can be started.
LEMMA KernelSize ==
  ASSUME TypeInv, OpenInv, Startable,
         pc \in {"size", "read", "reading", "verify", "total", "started"},
         Least
  PROVE  /\ fil.objsize \in 4 .. MaxKernel /\ fil.objsize % BufSize \notin 1 .. 3
         /\ fil.obj \in DOMAIN card.size /\ fil.objsize = card.size[fil.obj]
<1>1. Chosen
  BY Unmistaken DEF OpenInv
<1>2. Min(Present) = path
  <2>1. Present \subseteq Int
    <3>1. Paths \in Seq(Seq(STRING))
      BY LoaderAssumption
    <3>2. DOMAIN Paths \subseteq Int
      BY <3>1
    <3>3. QED
      BY <3>2 DEF Present
  <2>2. QED
    BY <1>1, <2>1, LeastIs DEF Chosen, Least
<1>3. fil.obj = Lookup(Paths[Min(Present)])
  BY <1>1, <1>2 DEF Chosen
<1>4. fil.obj \in DOMAIN card.size /\ fil.objsize = card.size[fil.obj]
  BY DEF TypeInv, FileInv
<1>5. QED
  BY <1>3, <1>4 DEF Startable

\* When no command fails, f_read gets to the end of such a kernel.
LEMMA ReadsOn ==
  ASSUME TypeInv, ReadInv, OpenInv, Startable, pc = "reading", Least,
         ReadFails, ioErrors' = 0
  PROVE  FALSE
<1>1. rd.btr > 0
  BY DEF ReadFails
<1>2. PICK g \in Following : g.val < 2 \/ (g.val # DiskError /\ clst2sect(g.val) = 0)
  <2>1. PICK g \in Following :
          LET broken == g.val < 2 \/ (g.val # DiskError /\ clst2sect(g.val) = 0)
          IN  broken \/ Abort("disk_err")
    BY DEF ReadFails
  <2>2. ~Abort("disk_err")
    BY CountUp DEF Abort
  <2>3. QED
    BY <2>1, <2>2
<1>3. ~Mistaken /\ fs.fs_type # 0 /\ fil.obj # "none"
  BY Unmistaken DEF TypeInv, StepInv, FileInv
<1>4. VolumeKnown
  BY <1>3, Known
<1>5. PICK x \in DOMAIN card.size : x = fil.obj /\ fil.objsize = card.size[x]
  BY KernelSize
<1>6. card \in Cards /\ x \in DOMAIN card.chains
  BY <1>5, ObjectFacts DEF TypeInv, BaseInv
<1>7. InVolume(card, x) /\ card.size[x] <= Len(card.chains[x]) * (card.bpb.csize * SS)
  BY <1>5, <1>6, InVolumeFacts DEF Startable
<1>8. PICK b \in Nat \ {0}, z \in Nat \ {0}, f \in Nat, o \in Nat :
        b = SS /\ z = fs.csize /\ f = fil.fptr /\ o = fil.objsize
  <2>1. SS \in Nat \ {0} /\ fs.csize \in Nat \ {0}
    BY <1>4, SizeFacts, EndOutside
  <2>2. fil.fptr \in Nat /\ fil.objsize \in Nat
    BY DEF TypeInv, FileInv
  <2>3. QED
    BY <2>1, <2>2
<1>9. f < o
  <2>1. PICK t \in Nat, r \in Nat, m \in Nat : t = total /\ r = rd.br /\ m = rd.btr
    <3>1. total \in Nat /\ rd.br \in 0 .. BufSize /\ rd.btr \in 0 .. BufSize
      BY DEF TypeInv, CountInv
    <3>2. rd.br \in Nat /\ rd.btr \in Nat
      BY <3>1, SizeFacts
    <3>3. QED
      BY <3>1, <3>2
  <2>2. t + r = f /\ t + r + m <= o /\ m > 0
    BY <1>1, <1>8, <2>1 DEF TypeInv, CountInv
  <2>3. QED
    BY <2>2
<1>10. PICK j \in Nat, cs \in 0 .. fs.csize - 1, from \in 0 .. SS - 1 :
           /\ from = fil.fptr % SS /\ cs = csect
           /\ fil.fptr = Bpc * j + SS * cs + from
           /\ SS * cs + from < Bpc /\ SS * cs \in Nat
           /\ \/ g.val = DiskError /\ MayFail
              \/ j + 1 \in DOMAIN card.chains[fil.obj]
                 /\ g.val = card.chains[fil.obj][j + 1]
              \/ j = Len(card.chains[fil.obj]) /\ g.val \in {0, EndMark(card.kind)}
  BY <1>3, <1>4, FollowingIs
<1>11. PICK n \in Nat : n = Len(card.chains[x])
  BY <1>6, ChainNumbers
<1>12. j # n
  <2>1. PICK m \in Nat : m = b * z
    BY Product
  <2>2. Bpc = m /\ z * b = m
    BY <1>8, <2>1, Distribute DEF Bpc
  <2>3. o <= n * m
    BY <1>4, <1>5, <1>7, <1>8, <1>11, <2>2 DEF VolumeKnown
  <2>4. PICK p \in Nat, q \in Nat : p = m * j /\ q = b * cs
    BY <1>8, <1>10, Product
  <2>5. f = p + q + from
    BY <1>8, <1>10, <2>2, <2>4
  <2>6. q + from \in Nat
    BY <1>8, <1>10, <2>4
  <2>7. n * m = m * n
    BY Distribute
  <2>8. SUFFICES ASSUME j = n
                 PROVE  FALSE
    OBVIOUS
  <2>9. o <= p
    BY <2>3, <2>4, <2>7, <2>8
  <2>10. from \in Nat
    BY <1>8, <1>10
  <2>11. QED
    BY <1>9, <2>5, <2>9, <2>10
<1>13. g.val # DiskError
  BY <1>2 DEF DiskError
<1>14. j + 1 \in DOMAIN card.chains[x] /\ g.val = card.chains[x][j + 1]
  BY <1>5, <1>10, <1>11, <1>12, <1>13
<1>15. PICK c \in Nat \ {0, 1} : c = g.val /\ c <= nclst(card.bpb) + 1
  BY <1>6, <1>7, <1>14, ChainNumbers DEF InVolume
<1>16. c < fs.n_fatent
  <2>1. PICK k \in Nat : k = nclst(card.bpb)
    BY <1>6, Clusters
  <2>2. fs.n_fatent = k + 2
    BY <1>4, <2>1 DEF VolumeKnown
  <2>3. QED
    BY <1>15, <2>1, <2>2
<1>17. clst2sect(c) = ClusterStart(c)
  BY <1>4, <1>15, <1>16, ClusterSectorIs
<1>18. ClusterStart(c) # 0
  <2>1. ClusterStart(c) = card.part + sysect(card.bpb) + (c - 2) * card.bpb.csize
    BY <1>4, <1>15, ClusterPlace DEF VolumeKnown
  <2>2. PICK u \in Nat, d \in Nat \ {0} : u = c - 2 /\ d = fs.database
    BY <1>4, <1>15, EndOutside
  <2>3. u * z \in Nat
    BY Product
  <2>4. ClusterStart(c) = d + u * z
    BY <1>4, <1>8, <2>1, <2>2 DEF VolumeKnown
  <2>5. QED
    BY <2>2, <2>3, <2>4
<1>19. QED
  BY <1>2, <1>15, <1>17, <1>18

\* The word that is compared is then all of the kernel's, and equal.
LEMMA WordWhole ==
  ASSUME TypeInv, ReadInv, OpenInv, Startable, pc = "verify", Least
  PROVE  rd.br \in Nat /\ rd.br >= 4
<1>1. PICK t \in Nat, r \in Nat, o \in Nat, b \in Nat \ {0} :
        t = total /\ r = rd.br /\ o = fil.objsize /\ b = BufSize
  <2>1. total \in Nat /\ rd.br \in 0 .. BufSize /\ fil.objsize \in Nat
    BY DEF TypeInv, FileInv, CountInv
  <2>2. rd.br \in Nat /\ BufSize \in Nat \ {0}
    BY <2>1, SizeFacts
  <2>3. QED
    BY <2>1, <2>2
<1>2. r > 0 /\ r <= b /\ b >= 4 /\ (r = b \/ t + r = o)
  BY <1>1, WordFits DEF TypeInv, CountInv
<1>3. CASE r = b
  BY <1>1, <1>2, <1>3
<1>4. CASE t + r = o /\ r # b
  <2>1. t \in total .. total + rd.br - 1
    BY <1>1, <1>2
  <2>2. t % b = 0
    BY <1>1, <1>2, <2>1, Block, Unmistaken
  <2>3. PICK q \in Nat : q = t \div b /\ t = b * q + (t % b)
    <3>1. t \in Int /\ t >= 0
      OBVIOUS
    <3>2. QED
      BY <3>1, DivMod
  <2>4. PICK p \in Nat : p = b * q
    BY Product
  <2>5. o = b * q + r
    BY <1>4, <2>2, <2>3, <2>4
  <2>6. q \in Int /\ r \in 0 .. b - 1 /\ b \in Nat \ {0}
    BY <1>1, <1>2, <1>4
  <2>7. o % b = r
    BY <2>5, <2>6, DivUnique
  <2>8. o % b \notin 1 .. 3
    BY <1>1, KernelSize
  <2>9. r >= 4
    <3>1. r \notin 1 .. 3
      BY <2>7, <2>8
    <3>2. QED
      BY <1>2, <3>1
  <2>10. QED
    BY <1>1, <2>9
<1>5. QED
  BY <1>2, <1>3, <1>4

LEMMA WordEqual ==
  ASSUME TypeInv, ReadInv, OpenInv, SdramInv, Startable, pc = "verify",
         Least
  PROVE  FALSE \notin Compared(total, SubSeq(buf, 1, 4))
<1>1. ASSUME NEW i \in 1 .. 4
      PROVE  sdram[total + i - 1] = SubSeq(buf, 1, 4)[i]
  <2>1. total \in Nat /\ rd.br \in Nat /\ rd.br >= 4
    BY WordWhole DEF TypeInv, CountInv
  <2>2. PICK p \in total .. total + rd.br - 1 : p = total + i - 1 /\ p - total + 1 = i
    BY <2>1
  <2>3. Copied(p)
    BY Unmistaken DEF SdramInv
  <2>4. board.bad = {}
    BY DEF Startable
  <2>5. sdram[p] = <<fil.obj, p>>
    BY <2>3, <2>4 DEF Copied
  <2>6. rd.br > 0
    BY <2>1
  <2>7. buf[p - total + 1] = <<fil.obj, p>>
    BY <2>6, Block, Unmistaken
  <2>8. SubSeq(buf, 1, 4)[i] = buf[i]
    BY FirstWord
  <2>9. QED
    BY <2>2, <2>5, <2>7, <2>8
<1>2. QED
  BY <1>1 DEF Compared

\* Its first word is a branch.
LEMMA FirstBranch ==
  ASSUME TypeInv, OpenInv, SdramInv, Startable, pc = "total", Least
  PROVE  Branches = {TRUE}
<1>1. PICK o \in 4 .. MaxKernel : o = fil.objsize
  BY KernelSize
<1>2. 3 \in 0 .. total - 1
  BY <1>1 DEF TypeInv, CountInv
<1>3. Kept(3) /\ board.bad = {}
  BY <1>2, Unmistaken DEF SdramInv, Startable
<1>4. sdram[3] = <<fil.obj, 3>>
  BY <1>3 DEF Kept
<1>5. fil.obj \in DOMAIN card.size /\ card \in Cards
  BY KernelSize DEF TypeInv, BaseInv
<1>6. sdram[3] \notin {Old, Broken}
  BY <1>4, <1>5, BrokenApart
<1>7. QED
  BY <1>6 DEF Branches, Startable

\* Every step keeps the card and the board, and counts the commands that fail.
LEMMA NoErrors ==
  ASSUME TypeInv, [Next]_vars, ioErrors' = 0
  PROVE  UNCHANGED <<card, board>> /\ ioErrors = 0
<1>1. CASE MainAlone
  BY <1>1, FatStays DEF fatVars
<1>2. CASE Mount
  BY <1>2 DEF Mount, f_mount
<1>3. CASE Open
  BY <1>3 DEF Open, f_open
<1>4. CASE Read
  BY <1>4 DEF Read, f_read
<1>5. CASE Fat
  <2>1. FatStep /\ board' = board
    BY <1>5 DEF Fat
  <2>2. CASE find_volume
    BY <2>1, <2>2, CountUp DEF find_volume
  <2>3. CASE mount_volume
    BY <2>1, <2>3 DEF mount_volume
  <2>4. CASE FindFails
    BY <2>1, <2>4, CountUp DEF FindFails
  <2>5. CASE EnterDir
    BY <2>1, <2>5 DEF EnterDir
  <2>6. CASE OpenFile
    BY <2>1, <2>6 DEF OpenFile
  <2>7. CASE FindNext
    BY <2>1, <2>7, CountUp DEF FindNext
  <2>8. CASE ReadEnds
    BY <2>1, <2>8 DEF ReadEnds
  <2>9. CASE ReadTurn
    BY <2>1, <2>9 DEF ReadTurn
  <2>10. CASE ReadFails
    BY <2>1, <2>10, CountUp DEF ReadFails, Abort
  <2>11. QED
    BY <2>1, <2>2, <2>3, <2>4, <2>5, <2>6, <2>7, <2>8, <2>9, <2>10 DEF FatStep
<1>6. CASE UNCHANGED vars
  BY <1>6 DEF vars, fatVars, mainVars
<1>7. QED
  BY <1>1, <1>2, <1>3, <1>4, <1>5, <1>6, Steps

\* main goes on.
LEMMA StartMain ==
  ASSUME TypeInv, ReadInv, OpenInv, SdramInv, Going, Startable, Present' = Present, MainAlone
  PROVE  Going'
<1>1. UNCHANGED <<card, fs, fil, rd, buf, op, res>> /\ UNCHANGED board
  BY FatStays DEF fatVars
<1>2. pc' \notin {"mounting", "reading"}
  BY MainSteps
<1>3. Probed' = Probed
  BY <1>1 DEF Probed
<1>4. op = "check" => Probed
  BY DEF Going
<1>5. ASSUME UNCHANGED path
      PROVE  Least' = Least
  BY <1>5 DEF Least
<1>6. CASE LoadDldi
  <2>1. driver' = board.wants /\ pc' = "mount" /\ UNCHANGED hit
    BY <1>6 DEF LoadDldi, Startable
  <2>2. QED
    BY <1>1, <1>3, <1>4, <2>1 DEF Going
<1>7. CASE NoParameters
  BY <1>7 DEF NoParameters, Startable
<1>8. CASE Mounted
  <2>1. pc' = "open" /\ UNCHANGED hit
    BY <1>8 DEF Mounted, Going
  <2>2. QED
    BY <1>1, <1>3, <1>4, <2>1 DEF Going
<1>9. CASE Opened
  <2>1. /\ pc = "opening" /\ op = "idle" /\ UNCHANGED hit /\ hit = {}
        /\ \/ res = "ok" /\ pc' = "size" /\ UNCHANGED path
           \/ res # "ok" /\ pc' = "open"
           \/ res # "ok" /\ path = Len(Paths)
    BY <1>9 DEF Opened, Going
  <2>2. Tried /\ (res # "ok" => path \notin Present)
    BY <2>1, Unmistaken DEF OpenInv
  <2>3. path \in 1 .. Len(Paths) /\ Present \subseteq 1 .. Len(Paths) /\ Len(Paths) \in Nat
    <3>1. Paths \in Seq(Seq(STRING))
      BY LoaderAssumption
    <3>2. DOMAIN Paths = 1 .. Len(Paths) /\ Len(Paths) \in Nat
      BY <3>1
    <3>3. QED
      BY <3>2 DEF TypeInv, BaseInv, Present
  <2>4. Least
    <3>1. ASSUME NEW i \in Present
          PROVE  path <= i
      <4>1. ~(i < path)
        BY <2>1, <2>2 DEF Tried
      <4>2. i \in Nat /\ path \in Nat
        BY <2>3
      <4>3. QED
        BY <4>1, <4>2
    <3>2. QED
      BY <3>1 DEF Least
  <2>5. CASE res = "ok" /\ pc' = "size" /\ UNCHANGED path
    BY <1>1, <1>3, <1>4, <1>5, <2>1, <2>4, <2>5 DEF Going
  <2>6. CASE res # "ok" /\ pc' = "open"
    BY <1>1, <1>3, <1>4, <2>1, <2>6 DEF Going
  <2>7. CASE res # "ok" /\ path = Len(Paths)
    <3>1. PICK i : i \in Present
      BY DEF Startable
    <3>2. i \in 1 .. Len(Paths) /\ Len(Paths) <= i /\ Len(Paths) \in Nat
      BY <2>3, <2>4, <2>7, <3>1 DEF Least
    <3>3. i = path
      BY <2>7, <3>2
    <3>4. QED
      BY <2>2, <2>7, <3>1, <3>3
  <2>8. QED
    BY <2>1, <2>5, <2>6, <2>7
<1>10. CASE CheckSize
  <2>1. pc = "size" /\ UNCHANGED <<path, hit>> /\ Least
    BY <1>10 DEF CheckSize, Going
  <2>2. PICK o \in 4 .. MaxKernel : o = fil.objsize
    BY <2>1, KernelSize
  <2>3. ~(fil.objsize > MaxKernel)
    BY <2>2, LoaderAssumption
  <2>4. pc' = "read"
    BY <1>10, <2>3 DEF CheckSize
  <2>5. QED
    BY <1>1, <1>3, <1>4, <1>5, <2>1, <2>4 DEF Going
<1>11. CASE CopyBlock
  <2>1. pc = "reading" /\ pc' = "verify" /\ UNCHANGED <<path, hit>>
    BY <1>11 DEF CopyBlock
  <2>2. QED
    BY <1>1, <1>3, <1>4, <1>5, <2>1 DEF Going
<1>12. CASE NoBlock
  <2>1. pc = "reading" /\ op = "idle" /\ UNCHANGED <<path, hit>>
    BY <1>12 DEF NoBlock
  <2>2. pc' = "total"
    BY <1>12, <2>1 DEF NoBlock, Going
  <2>3. QED
    BY <1>1, <1>3, <1>4, <1>5, <2>1, <2>2 DEF Going
<1>13. CASE Verify
  <2>1. pc = "verify" /\ UNCHANGED <<path, hit>> /\ Least
    BY <1>13 DEF Verify, Going
  <2>2. PICK equal \in Compared(total, SubSeq(buf, 1, 4)) : equal => pc' = "read"
    BY <1>13 DEF Verify
  <2>3. equal \in BOOLEAN
    BY DEF Compared
  <2>4. equal # FALSE
    BY <2>1, <2>2, WordEqual
  <2>5. pc' = "read"
    BY <2>2, <2>3, <2>4
  <2>6. QED
    BY <1>1, <1>3, <1>4, <1>5, <2>1, <2>5 DEF Going
<1>14. CASE CheckTotal
  <2>1. pc = "total" /\ UNCHANGED <<path, hit>> /\ Least
    BY <1>14 DEF CheckTotal, Going
  <2>2. total = fil.objsize /\ fil.err = "ok"
    BY <2>1 DEF TypeInv, CountInv, FileInv
  <2>3. Branches = {TRUE}
    BY <2>1, FirstBranch
  <2>4. pc' = "started"
    BY <1>14, <2>2, <2>3 DEF CheckTotal
  <2>5. QED
    BY <1>1, <1>3, <1>4, <1>5, <2>1, <2>4 DEF Going
<1>15. QED
  BY <1>6, <1>7, <1>8, <1>9, <1>10, <1>11, <1>12, <1>13, <1>14 DEF MainAlone

\* find_volume goes on to the volume.
LEMMA StartProbe ==
  ASSUME TypeInv, Startable, Probed, find_volume, ioErrors' = 0
  PROVE  op' = "geometry" \/ (op' = "check" /\ Probed')
<1>1. PICK s \in Nat, fmt \in {0, 2, 3, 4} :
           /\ s = IF fs.probe = 0 THEN 0 ELSE card.table[fs.probe]
           /\ WindowOK(win') /\ Count(fmt = 4) /\ (fmt = 4 => MayFail)
           /\ fmt = 0 => win'.sect = s /\ IsFatBoot(Boot(s)) /\ ~(fs.probe > 0 /\ s = 0)
           /\ fmt \in {2, 3} /\ ~(fs.probe > 0 /\ s = 0) => ~IsFatBoot(Boot(s))
           /\ fmt = 3 /\ ~(fs.probe > 0 /\ s = 0) => ~Boot(s).sig
           /\ \/ fmt = 0 /\ op' = "geometry" /\ UNCHANGED <<fs, res>>
              \/ /\ fmt # 0 /\ (IF fs.probe = 0 THEN fmt = 2 ELSE fs.probe < 4)
                 /\ fs' = [fs EXCEPT !.probe = @ + 1] /\ UNCHANGED <<op, res>>
              \/ /\ fmt # 0 /\ ~(IF fs.probe = 0 THEN fmt = 2 ELSE fs.probe < 4)
                 /\ op' = "idle" /\ res' \in {"disk_err", "no_filesystem"} /\ UNCHANGED fs
  BY FindVolumeIs
<1>2. fmt # 4
  <2>1. PICK b : b = (fmt = 4)
    OBVIOUS
  <2>2. Count(b)
    BY <1>1, <2>1
  <2>3. QED
    BY <2>1, <2>2, CountUp
<1>3. op = "check" /\ card' = card
  BY DEF find_volume
<1>4. SUFFICES ASSUME fmt # 0
               PROVE  op' = "check" /\ Probed'
  BY <1>1
<1>5. PICK p \in 0 .. 4 : p = fs.probe
  BY VolumeTypes
<1>6. IsFatBoot(card.bpb) /\ (card.part = 0 \/ \E i \in 1 .. 4 : card.table[i] = card.part)
  BY Unmistaken, InVolumeFacts DEF TypeInv, BaseInv, Startable, Mountable
<1>7. s = card.part => p > 0 /\ s = 0
  <2>1. SUFFICES ASSUME s = card.part, ~(p > 0 /\ s = 0)
                 PROVE  FALSE
    OBVIOUS
  <2>2. ~IsFatBoot(Boot(s))
    BY <1>1, <1>2, <1>4, <1>5, <2>1
  <2>3. Boot(s) = card.bpb
    BY <2>1 DEF Boot
  <2>4. QED
    BY <1>6, <2>2, <2>3
<1>8. card.part # 0 /\ \A i \in 1 .. p : card.table[i] # card.part
  <2>1. CASE p = 0
    BY <1>1, <1>5, <1>7, <2>1
  <2>2. CASE p > 0
    <3>1. card.part # 0 /\ \A i \in 1 .. p - 1 : card.table[i] # card.part
      BY <1>5, <2>2 DEF Probed
    <3>2. s = card.table[p]
      BY <1>1, <1>5, <2>2
    <3>3. card.table[p] # card.part
      BY <1>7, <3>1, <3>2
    <3>4. \A i \in 1 .. p : i = p \/ i \in 1 .. p - 1
      BY <2>2
    <3>5. QED
      BY <3>1, <3>3, <3>4
  <2>3. QED
    BY <2>1, <2>2
<1>9. p < 4
  BY <1>6, <1>8
<1>10. p = 0 => fmt = 2
  <2>1. SUFFICES ASSUME p = 0, fmt = 3
                 PROVE  FALSE
    BY <1>2, <1>4
  <2>2. s = 0 /\ ~Boot(s).sig
    BY <1>1, <1>5, <2>1
  <2>3. Boot(0) = [NoBpb EXCEPT !.sig = TRUE]
    BY <1>8 DEF Boot
  <2>4. QED
    BY <2>2, <2>3 DEF NoBpb
<1>11. fs' = [fs EXCEPT !.probe = @ + 1] /\ op' = op
  BY <1>1, <1>4, <1>5, <1>9, <1>10
<1>12. fs'.probe = p + 1
  <2>1. \/ fs = [NoVolume EXCEPT !.probe = fs.probe]
        \/ fs = [VolumeOf(card) EXCEPT !.probe = fs.probe]
    BY DEF TypeInv, VolumeInv
  <2>2. "probe" \in DOMAIN fs
    BY <2>1 DEF NoVolume, VolumeOf
  <2>3. QED
    BY <1>5, <1>11, <2>2
<1>13. QED
  BY <1>3, <1>8, <1>11, <1>12 DEF Probed

LEMMA StartNext ==
  ASSUME TypeInv, TypeInv', ReadInv, OpenInv, SdramInv, StartInv, [Next]_vars
  PROVE  StartInv'
<1>1. SUFFICES ASSUME Startable', ioErrors' = 0
               PROVE  Going'
  BY DEF StartInv
<1>2. UNCHANGED <<card, board>> /\ ioErrors = 0
  BY <1>1, NoErrors
<1>3. Present' = Present /\ Startable
  BY <1>1, <1>2, StartStays
<1>4. Going
  BY <1>2, <1>3 DEF StartInv
<1>5. /\ op' \in {"check", "geometry"} => pc' = "mounting"
      /\ op' = "find" => pc' = "opening"
  BY DEF TypeInv, StepInv
<1>6. ASSUME UNCHANGED path
      PROVE  Least' = Least
  BY <1>3, <1>6 DEF Least
<1>7. CASE MainAlone
  BY <1>3, <1>4, <1>7, StartMain
<1>8. CASE Mount
  <2>1. pc = "mount" /\ driver = board.wants
    BY <1>4, <1>8 DEF Mount, Going
  <2>2. op' = "check" /\ fs' = NoVolume /\ pc' = "mounting" /\ UNCHANGED hit
    BY <1>8, <2>1 DEF Mount, f_mount
  <2>3. Probed'
    BY <2>2 DEF Probed, NoVolume
  <2>4. QED
    BY <1>4, <2>2, <2>3 DEF Going
<1>9. CASE Open
  <2>1. pc' = "opening" /\ UNCHANGED hit
    BY <1>9 DEF Open
  <2>2. QED
    BY <1>4, <1>5, <2>1 DEF Going
<1>10. CASE Read
  <2>1. pc = "read" /\ pc' = "reading" /\ op' = "read" /\ UNCHANGED <<path, hit>>
    BY <1>10, ReadTypes
  <2>2. QED
    BY <1>4, <1>6, <2>1 DEF Going
<1>11. CASE Fat /\ pc = "mounting"
  <2>1. pc' = pc /\ UNCHANGED hit /\ (find_volume \/ mount_volume)
    BY <1>11, FatSplit DEF MainStays
  <2>2. CASE find_volume
    <3>1. Probed
      BY <1>4, <2>2 DEF Going, find_volume
    <3>2. op' = "geometry" \/ (op' = "check" /\ Probed')
      BY <1>1, <1>3, <2>2, <3>1, StartProbe
    <3>3. QED
      BY <1>4, <1>11, <2>1, <3>2 DEF Going
  <2>3. CASE mount_volume
    <3>1. IsVolume(card.bpb)
      BY <1>3, Unmistaken DEF Mountable
    <3>2. op' = "idle" /\ res' = "ok"
      BY <2>3, <3>1, MountVolumeIs
    <3>3. QED
      BY <1>4, <1>11, <2>1, <3>2 DEF Going
  <2>4. QED
    BY <2>1, <2>2, <2>3
<1>12. CASE Fat /\ pc = "opening"
  <2>1. pc' = pc /\ UNCHANGED hit
    BY <1>1, <1>2, <1>12, FatSplit DEF MainStays
  <2>2. QED
    BY <1>4, <1>5, <1>12, <2>1 DEF Going
<1>13. CASE Fat /\ pc = "reading"
  <2>1. /\ pc' = pc /\ UNCHANGED <<path, hit>> /\ Least
        /\ (ReadEnds \/ ReadTurn \/ ReadFails)
    BY <1>4, <1>13, FatSplit DEF MainStays, Going
  <2>2. ~ReadFails
    BY <1>1, <1>3, <1>13, <2>1, ReadsOn
  <2>3. op' = "read" \/ res' = "ok"
    BY <2>1, <2>2 DEF ReadEnds, ReadTurn, Return
  <2>4. QED
    BY <1>4, <1>5, <1>6, <1>13, <2>1, <2>3 DEF Going
<1>14. CASE UNCHANGED vars
  <2>1. UNCHANGED <<fs, op, res, pc, hit, driver, path>>
    BY <1>14 DEF vars, fatVars, mainVars
  <2>2. Probed' = Probed
    BY <1>2, <2>1 DEF Probed
  <2>3. QED
    BY <1>2, <1>4, <1>6, <2>1, <2>2 DEF Going
<1>15. QED
  BY <1>7, <1>8, <1>9, <1>10, <1>11, <1>12, <1>13, <1>14, Steps, FatIs

LEMMA StartHolds == Spec => []StartInv
<1>1. Init => StartInv
  BY DEF Init, FatInit, StartInv, Going
<1>2. /\ TypeInv /\ TypeInv' /\ ReadInv /\ OpenInv /\ SdramInv /\ StartInv /\ [Next]_vars
      => StartInv'
  BY StartNext
<1>3. QED
  BY <1>1, <1>2, TypesHold, ReadInvHolds, OpenHolds, SdramHolds, PTL DEF Spec

\* A kernel that the card and the board can start is never refused unless a command
\* fails: the volume is found wherever the partition table puts it, the file is read to
\* its end whatever the order of its clusters, and each block compares equal
\* (main.c:89-141, ff.c:3429-3468, ff.c:3937-4001).
THEOREM GoodKernelStarts == Spec => []NeverRefused
<1>1. StartInv => NeverRefused
  BY DEF StartInv, NeverRefused, Going
<1>2. QED
  BY <1>1, StartHolds, PTL
=============================================================================
