---------------------------- MODULE BootFatProofs ----------------------------
(***************************************************************************)
(* What the bootloader's FAT reader does, for every volume, every order of *)
(* a file's clusters, every root directory and every request, by proof.    *)
(*                                                                         *)
(* The proofs need no induction over the chain: the invariant says which   *)
(* cluster of the chain each loop is at, and the step from a cluster to    *)
(* its successor is arithmetic on the bytes of one FAT entry.              *)
(***************************************************************************)
EXTENDS BootFat, TLAPS

-----------------------------------------------------------------------------
\* Arithmetic

\* Quotient and remainder.
LEMMA DivMod ==
  ASSUME NEW a \in Int, NEW b \in Nat \ {0}
  PROVE  /\ a \div b \in Int /\ a % b \in 0 .. b - 1
         /\ a = b * (a \div b) + (a % b)
         /\ a >= 0 => a \div b \in Nat
OBVIOUS

LEMMA DivNat ==
  \A a \in Nat, b \in Nat \ {0} :
    /\ a \div b \in Nat /\ a % b \in 0 .. b - 1
    /\ a = b * (a \div b) + (a % b)
    /\ b * (a \div b) \in Nat /\ b * (a \div b) <= a
<1> SUFFICES ASSUME NEW a \in Nat, NEW b \in Nat \ {0}
             PROVE  /\ a \div b \in Nat /\ a % b \in 0 .. b - 1
                    /\ a = b * (a \div b) + (a % b)
                    /\ b * (a \div b) \in Nat /\ b * (a \div b) <= a
  OBVIOUS
<1>1. a \in Int /\ a >= 0
  OBVIOUS
<1>2. /\ a \div b \in Nat /\ a % b \in 0 .. b - 1
      /\ a = b * (a \div b) + (a % b)
  BY <1>1, DivMod
<1>3. PICK q \in Nat : q = a \div b
  BY <1>2
<1>4. b * q \in Nat
  OBVIOUS
<1>5. QED
  BY <1>2, <1>3, <1>4

\* They are the only ones.
LEMMA DivUnique ==
  ASSUME NEW b \in Nat \ {0}, NEW q \in Int, NEW r \in 0 .. b - 1
  PROVE  (b * q + r) \div b = q /\ (b * q + r) % b = r
OBVIOUS

\* Multiples of b are at least b apart.
LEMMA Apart ==
  ASSUME NEW b \in Nat \ {0}, NEW x \in Int, NEW y \in Int, x < y
  PROVE  b * x + b <= b * y
OBVIOUS

LEMMA Monotone ==
  \A b, x, y \in Nat : x <= y => b * x <= b * y
OBVIOUS

\* Products of numbers are numbers.
LEMMA Product ==
  /\ \A x, y \in Int : x * y \in Int
  /\ \A x, y \in Nat : x * y \in Nat
OBVIOUS

\* Factors may be taken out.
LEMMA Distribute ==
  /\ \A x, y, z \in Int : x * (y + z) = x * y + x * z /\ (y + z) * x = x * y + x * z
  /\ \A x, y \in Int : x * y = y * x
  /\ \A x, y, z \in Int : x * (y * z) = (x * y) * z
OBVIOUS

\* CeilDiv rounds up.
LEMMA Ceil ==
  ASSUME NEW a \in Nat, NEW b \in Nat \ {0}
  PROVE  /\ CeilDiv(a, b) \in Nat
         /\ a <= b * CeilDiv(a, b) /\ b * CeilDiv(a, b) < a + b
         /\ a > 0 => CeilDiv(a, b) > 0
<1>1. a + b - 1 \in Int /\ a + b - 1 >= 0
  OBVIOUS
<1>2. PICK q \in Nat : q = (a + b - 1) \div b
  BY <1>1, DivMod
<1>3. a + b - 1 - b * q \in 0 .. b - 1
  BY <1>1, <1>2, DivMod, Product
<1>4. QED
  BY <1>2, <1>3, Product DEF CeilDiv

\* A sequence and another behind it.
LEMMA Concat ==
  ASSUME NEW s \in Seq(Int), NEW u \in Seq(Int)
  PROVE  /\ s \o u \in Seq(Int) /\ Len(s \o u) = Len(s) + Len(u)
         /\ Len(s) \in Nat /\ Len(u) \in Nat
         /\ \A i \in 1 .. Len(s) : (s \o u)[i] = s[i]
         /\ \A i \in 1 .. Len(u) : (s \o u)[Len(s) + i] = u[i]
OBVIOUS

-----------------------------------------------------------------------------
\* Volumes

\* The parts of a volume have the types they should have.
LEMMA VolumeFacts ==
  ASSUME NEW x \in Volumes
  PROVE  /\ x.clusters \in Nat /\ x.part \in Nat /\ x.rootEntries \in Nat /\ x.active \in Nat
         /\ x.sectorsPerCluster \in Nat \ {0} /\ x.reservedSectors \in Nat \ {0}
         /\ x.numFATs \in Nat \ {0} /\ x.fs \in {12, 16, 32} /\ x.mirrored \in BOOLEAN
         /\ x.active < x.numFATs /\ (x.mirrored => x.active = 0)
         /\ x.rootChain \in Seq(Clusters(x))
         /\ \A i, j \in DOMAIN x.rootChain : i # j => x.rootChain[i] # x.rootChain[j]
         /\ x.rootChain # <<>> <=> x.fs = 32
         /\ x.rootEntries > 0 <=> x.fs # 32
         /\ x.clusters < Limit12 <=> x.fs = 12
         /\ x.clusters < Limit16 <=> x.fs # 32
         /\ x.clusters < Limit32
BY VolumesAssumption DEF ProperVolume

\* Where its structures are.
LEMMA VolumePlaces ==
  ASSUME NEW x \in Volumes
  PROVE  /\ SectorsPerFAT(x) \in Nat \ {0}
         /\ \A k \in Nat : FatStart(x, k) \in Nat
         /\ RootStart(x) \in Nat /\ DataStart(x) \in Nat
         /\ x.rootEntries \div DirPerSector \in Nat
         /\ (x.clusters + 2) * x.fs <= 8 * (BYTES_PER_SECTOR * SectorsPerFAT(x))
<1>1. PICK c \in Nat : c = x.clusters
  BY VolumeFacts
<1>2. PICK f \in {12, 16, 32} : f = x.fs
  BY VolumeFacts
<1>3. PICK n \in Nat : n = (c + 2) * f /\ n > 0
  BY <1>1, <1>2
<1>4. PICK m \in Nat : m = CeilDiv(n, 8) /\ m > 0 /\ n <= 8 * m
  <2>1. 8 \in Nat \ {0}
    OBVIOUS
  <2>2. QED
    BY <1>3, <2>1, Ceil
<1>5. BYTES_PER_SECTOR \in Nat \ {0} /\ DirPerSector \in Nat \ {0}
  BY VolumesAssumption
<1>6. PICK s \in Nat : s = CeilDiv(m, BYTES_PER_SECTOR) /\ s > 0 /\ m <= BYTES_PER_SECTOR * s
  BY <1>4, <1>5, Ceil
<1>7. SectorsPerFAT(x) = s
  BY <1>1, <1>2, <1>3, <1>4, <1>6 DEF SectorsPerFAT
<1>8. \A k \in Nat : FatStart(x, k) \in Nat
  BY <1>7, VolumeFacts, Product DEF FatStart
<1>9. x.rootEntries \div DirPerSector \in Nat
  <2>1. PICK e \in Nat : e = x.rootEntries
    BY VolumeFacts
  <2>2. e \div DirPerSector \in Nat
    BY <1>5, DivMod
  <2>3. QED
    BY <2>1, <2>2
<1>10. (x.clusters + 2) * x.fs <= 8 * (BYTES_PER_SECTOR * SectorsPerFAT(x))
  BY <1>1, <1>2, <1>3, <1>4, <1>5, <1>6, <1>7, Product
<1>11. RootStart(x) \in Nat
  BY <1>8, VolumeFacts DEF RootStart
<1>12. QED
  BY <1>6, <1>7, <1>8, <1>9, <1>10, <1>11 DEF DataStart
-----------------------------------------------------------------------------
\* Entries of the FAT

\* What the card holds is one of the cards of the model.
CardOK == v \in Volumes /\ chain \in Chains(v) /\ dir \in Dirs(v)

\* The file's chain has ChainLen different clusters, none of the root directory's.
LEMMA ChainFacts ==
  ASSUME CardOK
  PROVE  /\ ChainLen \in Nat \ {0} /\ chain \in Seq(Clusters(v)) /\ Len(chain) = ChainLen
         /\ DOMAIN chain = 1 .. ChainLen
         /\ \A i \in 1 .. ChainLen : chain[i] \in Clusters(v)
         /\ \A i, j \in 1 .. ChainLen : chain[i] = chain[j] => i = j
         /\ \A i \in 1 .. ChainLen, j \in DOMAIN v.rootChain : chain[i] # v.rootChain[j]
<1>1. ChainLen \in Nat \ {0}
  BY VolumesAssumption
<1>2. /\ chain \in [1 .. ChainLen -> Clusters(v)] /\ DOMAIN chain = 1 .. ChainLen
      /\ \A i \in 1 .. ChainLen, j \in DOMAIN v.rootChain : chain[i] # v.rootChain[j]
      /\ \A i, j \in 1 .. ChainLen : i # j => chain[i] # chain[j]
  BY DEF CardOK, Chains
<1>3. QED
  BY <1>1, <1>2

\* Clusters and the root directory's chain.
LEMMA RootFacts ==
  ASSUME CardOK
  PROVE  /\ Len(v.rootChain) \in Nat /\ DOMAIN v.rootChain = 1 .. Len(v.rootChain)
         /\ \A i \in DOMAIN v.rootChain : v.rootChain[i] \in Clusters(v)
         /\ \A i, j \in DOMAIN v.rootChain : v.rootChain[i] = v.rootChain[j] => i = j
         /\ Len(v.rootChain) > 0 <=> v.fs = 32
         /\ Clusters(v) \subseteq Nat /\ \A c \in Clusters(v) : 2 <= c /\ c <= v.clusters + 1
<1>1. v.rootChain \in Seq(Clusters(v)) /\ v.clusters \in Nat
  BY VolumeFacts DEF CardOK
<1>2. Clusters(v) \subseteq Nat /\ \A c \in Clusters(v) : 2 <= c /\ c <= v.clusters + 1
  BY <1>1 DEF Clusters, CLUSTER_FIRST
<1>3. v.rootChain # <<>> <=> v.fs = 32
  BY VolumeFacts DEF CardOK
<1>4. Len(v.rootChain) > 0 <=> v.fs = 32
  BY <1>1, <1>3
<1>5. QED
  BY <1>1, <1>2, <1>4, VolumeFacts DEF CardOK

\* The successor of the i-th cluster of a chain without repetitions.
LEMMA AfterIs ==
  ASSUME NEW C, NEW s \in Seq(C), NEW x, NEW i \in DOMAIN s,
         \A j, k \in DOMAIN s : s[j] = s[k] => j = k
  PROVE  After(s, s[i], x) = IF i < Len(s) THEN s[i + 1] ELSE EndMark(x.fs)
<1>1. PICK k \in DOMAIN s : k = (CHOOSE j \in DOMAIN s : s[j] = s[i]) /\ s[k] = s[i]
  OBVIOUS
<1>2. k = i
  BY <1>1
<1>3. QED
  BY <1>1, <1>2 DEF After

\* The numbers an entry of the FAT can hold.
Fits(n) ==
  /\ n \in Nat /\ n <= CLUSTER_EOF
  /\ v.fs = 12 => n < 4096
  /\ v.fs = 16 => n < 65536

\* Every cluster of a volume fits into an entry of its FAT, and is no end mark.
LEMMA ClustersFit ==
  ASSUME CardOK, NEW c \in Clusters(v)
  PROVE  /\ Fits(c)
         /\ v.fs = 16 => c < 65527
         /\ c < 268435447
<1>1. v.clusters \in Nat /\ v.fs \in {12, 16, 32}
  BY VolumeFacts DEF CardOK
<1>2. /\ v.fs = 12 => v.clusters < Limit12
      /\ v.fs = 16 => v.clusters < Limit16
      /\ v.clusters < 268435445
  BY VolumeFacts, SMT DEF CardOK, Limit32
<1>3. /\ Limit12 \in Int /\ Limit12 <= 4085
      /\ Limit16 \in Int /\ Limit16 <= 65525
  <2>1. Limit12 \in 1 .. 4085 /\ Limit16 \in Limit12 + 1 .. 65525
    BY VolumesAssumption
  <2>2. Limit12 \in Int /\ Limit12 <= 4085
    BY <2>1
  <2>3. QED
    BY <2>1, <2>2
<1>4. c \in Nat /\ c <= v.clusters + 1
  BY RootFacts
<1>5. QED
  <2>1. PICK n \in Nat : n = v.clusters
    BY <1>1
  <2>2. c \in Nat /\ c <= n + 1 /\ n < 268435445
    BY <1>2, <1>4, <2>1, SMT
  <2>3. v.fs = 12 => c < 4096
    BY <1>2, <1>3, <2>1, <2>2, SMT
  <2>4. v.fs = 16 => c < 65527
    BY <1>2, <1>3, <2>1, <2>2, SMT
  <2>5. QED
    BY <2>2, <2>3, <2>4, SMT DEF Fits, CLUSTER_EOF

\* Every entry of the FAT is a number that fits.
LEMMA EntryFits ==
  ASSUME CardOK, NEW c
  PROVE  Fits(FatEntry(c))
<1>1. v.fs \in {12, 16, 32}
  BY VolumeFacts DEF CardOK
<1>2. Fits(0) /\ Fits(EndMark(v.fs))
  BY <1>1, SMT DEF Fits, EndMark, CLUSTER_EOF
<1>3. ASSUME NEW s \in Seq(Clusters(v)), \A j, k \in DOMAIN s : s[j] = s[k] => j = k,
             NEW i \in DOMAIN s
      PROVE  Fits(After(s, s[i], v))
  <2>1. After(s, s[i], v) = IF i < Len(s) THEN s[i + 1] ELSE EndMark(v.fs)
    BY <1>3, AfterIs
  <2>2. i < Len(s) => s[i + 1] \in Clusters(v)
    OBVIOUS
  <2>3. i < Len(s) => Fits(s[i + 1])
    BY <2>2, ClustersFit
  <2>4. QED
    BY <1>2, <2>1, <2>3
<1>4. CASE \E i \in DOMAIN chain : chain[i] = c
  <2>1. PICK i \in DOMAIN chain : chain[i] = c
    BY <1>4
  <2>2. FatEntry(c) = After(chain, chain[i], v)
    BY <2>1 DEF FatEntry
  <2>3. QED
    BY <1>3, <2>1, <2>2, ChainFacts
<1>5. CASE /\ ~\E i \in DOMAIN chain : chain[i] = c
           /\ \E i \in DOMAIN v.rootChain : v.rootChain[i] = c
  <2>1. PICK i \in DOMAIN v.rootChain : v.rootChain[i] = c
    BY <1>5
  <2>2. FatEntry(c) = After(v.rootChain, v.rootChain[i], v)
    BY <1>5, <2>1 DEF FatEntry
  <2>3. v.rootChain \in Seq(Clusters(v))
    BY VolumeFacts DEF CardOK
  <2>4. QED
    BY <1>3, <2>1, <2>2, <2>3, RootFacts
<1>6. CASE /\ ~\E i \in DOMAIN chain : chain[i] = c
           /\ ~\E i \in DOMAIN v.rootChain : v.rootChain[i] = c
  BY <1>2, <1>6 DEF FatEntry, CLUSTER_FREE
<1>7. QED
  BY <1>4, <1>5, <1>6

\* The entry of a cluster of the file names the next one.
LEMMA ChainEntry ==
  ASSUME CardOK, NEW i \in 1 .. ChainLen, i < ChainLen
  PROVE  FatEntry(chain[i]) = chain[i + 1]
<1>1. FatEntry(chain[i]) = After(chain, chain[i], v)
  BY ChainFacts DEF FatEntry
<1>2. QED
  BY <1>1, ChainFacts, AfterIs

\* The entry of a cluster of the root directory names the next one, or ends it.
LEMMA RootEntry ==
  ASSUME CardOK, NEW i \in DOMAIN v.rootChain
  PROVE  FatEntry(v.rootChain[i]) =
           IF i < Len(v.rootChain) THEN v.rootChain[i + 1] ELSE EndMark(v.fs)
<1>1. ~\E j \in DOMAIN chain : chain[j] = v.rootChain[i]
  BY ChainFacts
<1>2. FatEntry(v.rootChain[i]) = After(v.rootChain, v.rootChain[i], v)
  BY <1>1 DEF FatEntry
<1>3. v.rootChain \in Seq(Clusters(v))
  BY VolumeFacts DEF CardOK
<1>4. QED
  BY <1>2, <1>3, RootFacts, AfterIs
\* The bytes of two entries of 12 bits, and of an entry of 16 or 32 bits.
LEMMA Bytes12 ==
  ASSUME v.fs = 12, NEW k \in Nat
  PROVE  /\ FatByte(3 * k) = FatEntry(2 * k) % 256
         /\ FatByte(3 * k + 1) = FatEntry(2 * k) \div 256 + 16 * (FatEntry(2 * k + 1) % 16)
         /\ FatByte(3 * k + 2) = FatEntry(2 * k + 1) \div 16
<1>1. /\ (3 * k) \div 3 = k /\ (3 * k) % 3 = 0
      /\ (3 * k + 1) \div 3 = k /\ (3 * k + 1) % 3 = 1
      /\ (3 * k + 2) \div 3 = k /\ (3 * k + 2) % 3 = 2
  OBVIOUS
<1>2. QED
  BY <1>1, SMT DEF FatByte, PackedByte

LEMMA Bytes16 ==
  ASSUME v.fs = 16, NEW k \in Nat, FatEntry(k) \in Nat
  PROVE  /\ FatByte(2 * k) = FatEntry(k) % 256
         /\ FatByte(2 * k + 1) = (FatEntry(k) \div 256) % 256
<1>1. 16 \div 8 = 2 /\ 16 # 12
  OBVIOUS
<1>2. 256 ^ 0 = 1 /\ 256 ^ 1 = 256 /\ FatEntry(k) \div 1 = FatEntry(k)
  BY SMT
<1>3. \A p : FatByte(p) = (FatEntry(p \div 2) \div 256 ^ (p % 2)) % 256
  BY <1>1, SMT DEF FatByte, PackedByte
<1>4. \A i \in 0 .. 1 :
        FatByte(2 * k + i)
          = (FatEntry((2 * k + i) \div 2) \div 256 ^ ((2 * k + i) % 2)) % 256
  BY <1>3
<1>5. \A i \in 0 .. 1 : (2 * k + i) \div 2 = k /\ (2 * k + i) % 2 = i
  BY SMT
<1>6. \A i \in 0 .. 1 : FatByte(2 * k + i) = (FatEntry(k) \div 256 ^ i) % 256
  BY <1>4, <1>5
<1>7. FatByte(2 * k + 0) = FatByte(2 * k)
  OBVIOUS
<1>8. QED
  BY <1>2, <1>6, <1>7

LEMMA Bytes32 ==
  ASSUME v.fs = 32, NEW k \in Nat, FatEntry(k) \in Nat
  PROVE  /\ FatByte(4 * k) = FatEntry(k) % 256
         /\ FatByte(4 * k + 1) = (FatEntry(k) \div 256) % 256
         /\ FatByte(4 * k + 2) = (FatEntry(k) \div 65536) % 256
         /\ FatByte(4 * k + 3) = (FatEntry(k) \div 16777216) % 256
<1>1. 32 \div 8 = 4 /\ 32 # 12
  OBVIOUS
<1>2. /\ 256 ^ 0 = 1 /\ 256 ^ 1 = 256 /\ 256 ^ 2 = 65536 /\ 256 ^ 3 = 16777216
      /\ FatEntry(k) \div 1 = FatEntry(k)
  BY SMT
<1>3. \A p : FatByte(p) = (FatEntry(p \div 4) \div 256 ^ (p % 4)) % 256
  BY <1>1, SMT DEF FatByte, PackedByte
<1>4. \A i \in 0 .. 3 :
        FatByte(4 * k + i)
          = (FatEntry((4 * k + i) \div 4) \div 256 ^ ((4 * k + i) % 4)) % 256
  BY <1>3
<1>5. \A i \in 0 .. 3 : (4 * k + i) \div 4 = k /\ (4 * k + i) % 4 = i
  BY SMT
<1>6. \A i \in 0 .. 3 : FatByte(4 * k + i) = (FatEntry(k) \div 256 ^ i) % 256
  BY <1>4, <1>5
<1>7. FatByte(4 * k + 0) = FatByte(4 * k)
  OBVIOUS
<1>8. QED
  BY <1>2, <1>6, <1>7

\* What FAT_NextCluster makes of the bytes of an entry.
LEMMA Unpack ==
  /\ \A e, o \in Nat : e < 4096 =>
       ((e % 256) + 256 * (e \div 256 + 16 * (o % 16))) % 4096 = e
  /\ \A e, o \in Nat : e < 4096 =>
       (e \div 256 + 16 * (o % 16) + 256 * (o \div 16)) \div 16 = o
  /\ \A e \in Nat : e < 65536 => (e % 256) + 256 * ((e \div 256) % 256) = e
BY SMT

LEMMA Unpack32 ==
  ASSUME NEW e \in Nat, e <= 268435455
  PROVE  (e % 256) + 256 * ((e \div 256) % 256)
           + 65536 * (((e \div 65536) % 256) + 256 * (((e \div 16777216) % 256) % 16)) = e
<1>1. PICK a \in Nat, b \in 0 .. 255 :
        e = 256 * a + b /\ a <= 1048575 /\ e \div 256 = a /\ e % 256 = b
  BY SMT
<1>2. PICK c \in Nat, d \in 0 .. 255 :
        a = 256 * c + d /\ c <= 4095 /\ a \div 256 = c /\ a % 256 = d
  BY <1>1, SMT
<1>3. PICK f \in Nat, g \in 0 .. 255 :
        c = 256 * f + g /\ f <= 15 /\ c \div 256 = f /\ c % 256 = g
  BY <1>2, SMT
<1>4. e \div 65536 = c
  BY <1>1, <1>2, SMT
<1>5. e \div 16777216 = f
  BY <1>1, <1>2, <1>3, SMT
<1>6. (f % 256) % 16 = f
  BY <1>3, SMT
<1>7. QED
  BY <1>1, <1>2, <1>3, <1>4, <1>5, <1>6, SMT

\* The reader has found the first FAT, and it is the one in use.
FatKnown ==
  /\ CardOK /\ disc.FileSystem = v.fs /\ disc.FAT = FatStart(v, 0)
  /\ v.mirrored \/ v.active = 0

\* The sectors it reads are those of the FAT.
LEMMA FatSector ==
  ASSUME FatKnown, NEW q \in Nat, q < BYTES_PER_SECTOR * SectorsPerFAT(v)
  PROVE  SectorByte(disc.FAT + q \div BYTES_PER_SECTOR, q % BYTES_PER_SECTOR) = FatByte(q)
<1>1. v \in Volumes
  BY DEF FatKnown, CardOK
<1>2. PICK n \in Nat \ {0} : n = SectorsPerFAT(v)
  BY <1>1, VolumePlaces
<1>3. PICK b \in Nat \ {0} : b = BYTES_PER_SECTOR
  BY VolumesAssumption
<1>4. PICK s \in Nat : s = q \div b
  <2>1. q \in Int /\ q >= 0 /\ b \in Nat \ {0}
    BY <1>3
  <2>2. q \div b \in Nat
    BY <2>1, DivMod
  <2>3. QED
    BY <2>2
<1>5. PICK r \in 0 .. b - 1 : r = q % b
  BY <1>3, DivMod
<1>6. q = b * s + r
  BY <1>4, <1>5, DivMod
<1>7. s < n
  <2>1. SUFFICES ASSUME n <= s PROVE FALSE
    OBVIOUS
  <2>2. b * n <= b * s
    BY <2>1
  <2>3. QED
    BY <1>2, <1>3, <1>6, <2>2, Product
<1>8. PICK f \in Nat : f = FatStart(v, 0)
  BY <1>1, VolumePlaces
<1>9. (f + s - f) \div n = 0
  BY <1>7
<1>10. 0 \in 0 .. v.numFATs - 1
  BY <1>1, VolumeFacts
<1>11. (f + s - f) * b + r = q
  BY <1>6, Product
<1>12. SectorByte(f + s, r) = FatByte((f + s - f) * b + r)
  BY <1>2, <1>3, <1>8, <1>9, <1>10 DEF SectorByte, FatKnown
<1>13. QED
  BY <1>3, <1>4, <1>5, <1>8, <1>11, <1>12 DEF FatKnown

\* FAT_NextCluster reads the entry of any cluster of the volume.
LEMMA NextCluster ==
  ASSUME FatKnown, NEW c \in Clusters(v)
  PROVE  FAT_NextCluster(c) =
           IF \/ v.fs = 16 /\ FatEntry(c) >= 65527
              \/ v.fs = 32 /\ FatEntry(c) >= 268435447
           THEN CLUSTER_EOF ELSE FatEntry(c)
<1> DEFINE byte(q) ==
             SectorByte(disc.FAT + q \div BYTES_PER_SECTOR, q % BYTES_PER_SECTOR)
<1>1. CardOK /\ v \in Volumes /\ disc.FileSystem = v.fs
  BY DEF FatKnown, CardOK
<1>2. PICK n \in Nat : n = BYTES_PER_SECTOR * SectorsPerFAT(v)
  BY <1>1, VolumePlaces, VolumesAssumption, Product
<1>3. \A q \in Nat : q < n => byte(q) = FatByte(q)
  BY <1>2, FatSector
<1>4. c \in Nat /\ c <= v.clusters + 1 /\ v.clusters \in Nat
  BY <1>1, RootFacts, VolumeFacts
<1>5. (v.clusters + 2) * v.fs <= 8 * n
  BY <1>1, <1>2, VolumePlaces
<1>6. FatEntry(c) \in Nat /\ FatEntry(c) <= CLUSTER_EOF
  BY <1>1, EntryFits, SMT DEF Fits
<1> HIDE DEF byte
<1>7. CASE v.fs = 12
  <2>1. PICK k \in Nat : c = 2 * k \/ c = 2 * k + 1
    <3>1. c \div 2 \in Nat /\ (c = 2 * (c \div 2) \/ c = 2 * (c \div 2) + 1)
      BY <1>4, SMT
    <3>2. QED
      BY <3>1
  <2>2. /\ FatEntry(2 * k) \in Nat /\ FatEntry(2 * k) < 4096
        /\ FatEntry(2 * k + 1) \in Nat /\ FatEntry(2 * k + 1) < 4096
    BY <1>1, <1>7, EntryFits, SMT DEF Fits
  <2>3. CASE c = 2 * k
    <3>1. (c * 3) \div 2 = 3 * k /\ c % 2 = 0 /\ 3 * k + 1 < n
      BY <1>2, <1>4, <1>5, <1>7, <2>3, SMT
    <3>2. byte(3 * k) = FatByte(3 * k) /\ byte(3 * k + 1) = FatByte(3 * k + 1)
      BY <1>2, <1>3, <3>1
    <3>3. (byte(3 * k) + 256 * byte(3 * k + 1)) % 4096 = FatEntry(2 * k)
      BY <1>7, <2>2, <3>2, Bytes12, Unpack
    <3>4. FAT_NextCluster(c) = (byte(3 * k + 0) + 256 * byte(3 * k + 1)) % 4096
      BY <1>1, <1>7, <3>1, SMT DEF FAT_NextCluster, byte
    <3>5. QED
      BY <1>7, <2>3, <3>3, <3>4
  <2>4. CASE c = 2 * k + 1
    <3>1. (c * 3) \div 2 = 3 * k + 1 /\ c % 2 = 1 /\ 3 * k + 2 < n
      BY <1>2, <1>4, <1>5, <1>7, <2>4, SMT
    <3>2. byte(3 * k + 1) = FatByte(3 * k + 1) /\ byte(3 * k + 2) = FatByte(3 * k + 2)
      BY <1>2, <1>3, <3>1
    <3>3. (byte(3 * k + 1) + 256 * byte(3 * k + 2)) \div 16 = FatEntry(2 * k + 1)
      BY <1>7, <2>2, <3>2, Bytes12, Unpack
    <3>4. FAT_NextCluster(c) = (byte(3 * k + 1 + 0) + 256 * byte(3 * k + 1 + 1)) \div 16
      BY <1>1, <1>7, <3>1, SMT DEF FAT_NextCluster, byte
    <3>5. QED
      BY <1>7, <2>4, <3>3, <3>4
  <2>5. QED
    BY <2>1, <2>3, <2>4
<1>8. CASE v.fs = 16
  <2>1. c * (16 \div 8) = 2 * c /\ 2 * c + 1 < n
    BY <1>2, <1>4, <1>5, <1>8, SMT
  <2>2. byte(2 * c) = FatByte(2 * c) /\ byte(2 * c + 1) = FatByte(2 * c + 1)
    BY <1>2, <1>3, <1>4, <2>1
  <2>3. FatEntry(c) < 65536
    BY <1>1, <1>8, EntryFits, SMT DEF Fits
  <2>4. byte(2 * c) + 256 * byte(2 * c + 1) = FatEntry(c)
    BY <1>4, <1>6, <1>8, <2>2, <2>3, Bytes16, Unpack
  <2>5. FAT_NextCluster(c) =
          IF byte(2 * c + 0) + 256 * byte(2 * c + 1) >= 65527 THEN CLUSTER_EOF
          ELSE byte(2 * c + 0) + 256 * byte(2 * c + 1)
    BY <1>1, <1>8, <2>1, SMT DEF FAT_NextCluster, byte
  <2>6. QED
    BY <1>4, <1>8, <2>4, <2>5, SMT
<1>9. CASE v.fs = 32
  <2>1. c * (32 \div 8) = 4 * c /\ 4 * c + 3 < n
    BY <1>2, <1>4, <1>5, <1>9, SMT
  <2>2. \A i \in 0 .. 3 : byte(4 * c + i) = FatByte(4 * c + i)
    BY <1>2, <1>3, <1>4, <2>1
  <2>3. FatEntry(c) <= 268435455
    BY <1>6, SMT DEF CLUSTER_EOF
  <2>4. byte(4 * c + 0) + 256 * byte(4 * c + 1)
          + 65536 * (byte(4 * c + 2) + 256 * (byte(4 * c + 3) % 16)) = FatEntry(c)
    <3>1. /\ byte(4 * c + 0) = FatByte(4 * c) /\ byte(4 * c + 1) = FatByte(4 * c + 1)
          /\ byte(4 * c + 2) = FatByte(4 * c + 2) /\ byte(4 * c + 3) = FatByte(4 * c + 3)
      <4>1. 4 * c + 0 = 4 * c
        BY <1>4
      <4>2. QED
        BY <2>2, <4>1
    <3>2. /\ byte(4 * c + 0) = FatEntry(c) % 256
          /\ byte(4 * c + 1) = (FatEntry(c) \div 256) % 256
          /\ byte(4 * c + 2) = (FatEntry(c) \div 65536) % 256
          /\ byte(4 * c + 3) = (FatEntry(c) \div 16777216) % 256
      BY <1>4, <1>6, <1>9, <3>1, Bytes32
    <3>3. QED
      BY <1>6, <2>3, <3>2, Unpack32, SMT
  <2>5. FAT_NextCluster(c) =
          LET quad == byte(4 * c + 0) + 256 * byte(4 * c + 1)
                        + 65536 * (byte(4 * c + 2) + 256 * (byte(4 * c + 3) % 16))
          IN  IF quad >= 268435447 THEN CLUSTER_EOF ELSE quad
    BY <1>1, <1>9, <2>1, SMT DEF FAT_NextCluster, byte
  <2>6. QED
    BY <1>9, <2>4, <2>5, SMT
<1>10. QED
  BY <1>1, <1>7, <1>8, <1>9, VolumeFacts

\* From a cluster of the file FAT_NextCluster goes to the next one.
LEMMA NextOfChain ==
  ASSUME FatKnown, NEW i \in 1 .. ChainLen, i < ChainLen
  PROVE  FAT_NextCluster(chain[i]) = chain[i + 1]
<1>1. CardOK
  BY DEF FatKnown
<1>2. i + 1 \in 1 .. ChainLen
  BY <1>1, ChainFacts
<1>3. chain[i] \in Clusters(v) /\ chain[i + 1] \in Clusters(v)
  BY <1>1, <1>2, ChainFacts
<1>4. FatEntry(chain[i]) = chain[i + 1]
  BY <1>1, ChainEntry
<1>5. /\ chain[i + 1] \in Nat
      /\ v.fs = 16 => chain[i + 1] < 65527
      /\ chain[i + 1] < 268435447
  BY <1>1, <1>3, ClustersFit, SMT DEF Fits
<1>6. QED
  BY <1>3, <1>4, <1>5, NextCluster, SMT

\* From a cluster of a FAT32 root directory it goes to the next one or to the end.
LEMMA NextOfRoot ==
  ASSUME FatKnown, v.fs = 32, NEW i \in DOMAIN v.rootChain
  PROVE  FAT_NextCluster(v.rootChain[i]) =
           IF i < Len(v.rootChain) THEN v.rootChain[i + 1] ELSE CLUSTER_EOF
<1>1. CardOK
  BY DEF FatKnown
<1>2. v.rootChain[i] \in Clusters(v)
  BY <1>1, RootFacts
<1>3. EndMark(v.fs) = 268435455
  BY SMT DEF EndMark
<1>4. FatEntry(v.rootChain[i]) =
        IF i < Len(v.rootChain) THEN v.rootChain[i + 1] ELSE 268435455
  BY <1>1, <1>3, RootEntry
<1>5. CASE i < Len(v.rootChain)
  <2>1. i + 1 \in DOMAIN v.rootChain
    BY <1>1, <1>5, RootFacts
  <2>2. v.rootChain[i + 1] \in Nat /\ v.rootChain[i + 1] < 268435447
    BY <1>1, <2>1, RootFacts, ClustersFit, SMT DEF Fits
  <2>3. QED
    BY <1>2, <1>4, <1>5, <2>2, NextCluster, SMT
<1>6. CASE ~(i < Len(v.rootChain))
  BY <1>2, <1>4, <1>6, NextCluster, SMT DEF CLUSTER_EOF
<1>7. QED
  BY <1>5, <1>6

\* Whatever sector is read as a part of the FAT, its bytes are numbers.
LEMMA ByteNat ==
  ASSUME CardOK, NEW s \in Int, NEW o \in Int
  PROVE  SectorByte(s, o) \in Nat
<1>1. ASSUME NEW p \in Int PROVE FatByte(p) \in Nat
  <2>1. \A c : FatEntry(c) \in Nat
    BY EntryFits DEF Fits
  <2>2. CASE v.fs = 12
    <3>1. /\ FatEntry(2 * (p \div 3)) \in Nat
          /\ FatEntry(2 * (p \div 3) + 1) \in Nat
          /\ p % 3 \in 0 .. 2
      BY <2>1
    <3>2. FatByte(p) =
            << FatEntry(2 * (p \div 3)) % 256,
               FatEntry(2 * (p \div 3)) \div 256 + 16 * (FatEntry(2 * (p \div 3) + 1) % 16),
               FatEntry(2 * (p \div 3) + 1) \div 16 >>[1 + (p % 3)]
      BY <2>2, SMT DEF FatByte, PackedByte
    <3>3. QED
      BY <3>1, <3>2
  <2>3. CASE v.fs # 12
    <3>1. FatByte(p) = (FatEntry(p \div (v.fs \div 8)) \div 256 ^ (p % (v.fs \div 8))) % 256
      BY <2>3 DEF FatByte, PackedByte
    <3>2. v.fs \div 8 \in {2, 4}
      <4>1. v.fs \in {16, 32}
        BY <2>3, VolumeFacts DEF CardOK
      <4>2. QED
        BY <4>1
    <3>3. PICK k \in 0 .. 3 : k = p % (v.fs \div 8)
      BY <3>2
    <3>4. 256 ^ k \in Nat \ {0}
      <4>1. 256 ^ 0 = 1 /\ 256 ^ 1 = 256 /\ 256 ^ 2 = 65536 /\ 256 ^ 3 = 16777216
        BY SMT
      <4>2. k = 0 \/ k = 1 \/ k = 2 \/ k = 3
        BY <3>3
      <4>3. CASE k = 0 BY <4>1, <4>3
      <4>4. CASE k = 1 BY <4>1, <4>4
      <4>5. CASE k = 2 BY <4>1, <4>5, SMT
      <4>6. CASE k = 3 BY <4>1, <4>6, SMT
      <4>7. QED BY <4>2, <4>3, <4>4, <4>5, <4>6
    <3>5. QED
      BY <2>1, <3>1, <3>3, <3>4
  <2>4. QED
    BY <2>2, <2>3
<1>2. BYTES_PER_SECTOR \in Nat
  BY VolumesAssumption
<1>3. CASE SectorByte(s, o) = 0
  BY <1>3
<1>4. CASE SectorByte(s, o) # 0
  <2>1. PICK copy \in 0 .. v.numFATs - 1 :
          SectorByte(s, o) = FatByte((s - FatStart(v, copy)) * BYTES_PER_SECTOR + o)
    BY <1>4 DEF SectorByte
  <2>2. FatStart(v, copy) \in Int
    BY <2>1, VolumePlaces, VolumeFacts DEF CardOK
  <2>3. (s - FatStart(v, copy)) * BYTES_PER_SECTOR + o \in Int
    BY <1>2, <2>2, Product
  <2>4. QED
    BY <1>1, <2>1, <2>3
<1>5. QED
  BY <1>3, <1>4

\* Whatever kind of FAT it takes the card's for, FAT_NextCluster returns a number.
LEMMA NextNat ==
  ASSUME CardOK, disc.FAT \in Nat, disc.FileSystem \in {12, 16, 32}, NEW c \in Nat
  PROVE  FAT_NextCluster(c) \in Nat
<1> DEFINE byte(q) ==
             SectorByte(disc.FAT + q \div BYTES_PER_SECTOR, q % BYTES_PER_SECTOR)
<1>1. BYTES_PER_SECTOR \in Nat \ {0}
  BY VolumesAssumption
<1>2. ASSUME NEW q \in Nat PROVE byte(q) \in Nat
  <2>1. q \div BYTES_PER_SECTOR \in Int /\ q % BYTES_PER_SECTOR \in Int
    BY <1>1, DivMod
  <2>2. disc.FAT + q \div BYTES_PER_SECTOR \in Int
    BY <2>1
  <2>3. QED
    BY <2>1, <2>2, ByteNat
<1> HIDE DEF byte
<1>3. CLUSTER_EOF \in Nat
  BY SMT DEF CLUSTER_EOF
<1>4. ASSUME NEW p \in Nat
      PROVE  /\ byte(p + 0) + 256 * byte(p + 1) \in Nat
             /\ byte(p + 0) + 256 * byte(p + 1)
                  + 65536 * (byte(p + 2) + 256 * (byte(p + 3) % 16)) \in Nat
  BY <1>2, SMT
<1>5. CASE disc.FileSystem = 12
  <2>1. PICK p \in Nat : p = (c * 3) \div 2
    BY SMT
  <2>2. FAT_NextCluster(c) = IF c % 2 = 1 THEN (byte(p + 0) + 256 * byte(p + 1)) \div 16
                             ELSE (byte(p + 0) + 256 * byte(p + 1)) % 4096
    BY <1>5, <2>1, SMT DEF FAT_NextCluster, byte
  <2>3. PICK n \in Nat : n = byte(p + 0) + 256 * byte(p + 1)
    BY <1>4, <2>1
  <2>4. n \div 16 \in Nat /\ n % 4096 \in Nat
    BY SMT
  <2>5. FAT_NextCluster(c) = IF c % 2 = 1 THEN n \div 16 ELSE n % 4096
    BY <2>2, <2>3
  <2>6. QED
    BY <2>4, <2>5
<1>6. CASE disc.FileSystem # 12
  <2>1. PICK p \in Nat : p = c * (disc.FileSystem \div 8)
    <3>1. disc.FileSystem \div 8 \in {2, 4}
      BY <1>6
    <3>2. QED
      BY <3>1
  <2>2. FAT_NextCluster(c) \in
          { CLUSTER_EOF, byte(p + 0) + 256 * byte(p + 1),
            byte(p + 0) + 256 * byte(p + 1)
              + 65536 * (byte(p + 2) + 256 * (byte(p + 3) % 16)) }
    BY <1>6, <2>1, SMT DEF FAT_NextCluster, byte
  <2>3. PICK n \in Nat : n = byte(p + 0) + 256 * byte(p + 1)
    BY <1>4, <2>1
  <2>4. PICK m \in Nat : m = byte(p + 0) + 256 * byte(p + 1)
                              + 65536 * (byte(p + 2) + 256 * (byte(p + 3) % 16))
    BY <1>4, <2>1
  <2>5. FAT_NextCluster(c) \in {CLUSTER_EOF, n, m}
    BY <2>2, <2>3, <2>4
  <2>6. QED
    BY <1>3, <2>5
<1>7. QED
  BY <1>5, <1>6

\* The sectors of the root directory, and its entries.
LEMMA DirFacts ==
  ASSUME CardOK
  PROVE  /\ Len(DirSectors(v)) \in Nat /\ DOMAIN DirSectors(v) = 1 .. Len(DirSectors(v))
         /\ v.fs # 32 => Len(DirSectors(v)) = v.rootEntries \div DirPerSector
         /\ v.fs = 32 => Len(DirSectors(v)) = Len(v.rootChain) * v.sectorsPerCluster
         /\ dir \in Seq(Entries) /\ Len(dir) = Len(DirSectors(v)) * DirPerSector
<1>1. v \in Volumes
  BY DEF CardOK
<1>2. PICK n \in Nat :
        n = IF v.fs # 32 THEN v.rootEntries \div DirPerSector
            ELSE Len(v.rootChain) * v.sectorsPerCluster
  <2>1. v.rootEntries \div DirPerSector \in Nat
    BY <1>1, VolumePlaces
  <2>2. Len(v.rootChain) * v.sectorsPerCluster \in Nat
    BY <1>1, RootFacts, VolumeFacts, Product
  <2>3. QED
    BY <2>1, <2>2
<1>3. DOMAIN DirSectors(v) = 1 .. n
  BY <1>2 DEF DirSectors
<1>4. Len(DirSectors(v)) = n
  <2>1. CASE v.fs # 32
    <3>1. DirSectors(v) = [k \in 1 .. n |-> RootStart(v) + k - 1]
      BY <1>2, <2>1 DEF DirSectors
    <3>2. QED
      BY <1>2, <3>1
  <2>2. CASE v.fs = 32
    <3>1. DirSectors(v) =
            [k \in 1 .. n |->
               ClusterStart(v, v.rootChain[1 + (k - 1) \div v.sectorsPerCluster])
                 + ((k - 1) % v.sectorsPerCluster)]
      BY <1>2, <2>2 DEF DirSectors
    <3>2. QED
      BY <1>2, <3>1
  <2>3. QED
    BY <2>1, <2>2
<1>5. n * DirPerSector \in Nat
  BY <1>2, VolumesAssumption, Product
<1>6. dir \in [1 .. n * DirPerSector -> Entries]
  BY <1>4 DEF CardOK, Dirs
<1>7. QED
  BY <1>2, <1>3, <1>4, <1>5, <1>6

-----------------------------------------------------------------------------
\* The invariant

\* FAT_InitFiles finds where the volume's structures are.  What it can take for
\* FAT32 is FAT32.
DiscInv ==
  pc \notin {"init", "lost"} =>
    /\ disc.FileSystem \in {12, 16, 32} /\ disc.FAT = FatStart(v, 0)
    /\ disc.RootDir = RootStart(v) /\ disc.Data = DataStart(v)
    /\ disc.SecPerClus = v.sectorsPerCluster
    /\ disc.FileSystem = 32 => v.fs = 32
    /\ disc.RootDirClus =
         IF disc.FileSystem = 32 THEN v.rootChain[1] ELSE FAT16_ROOT_DIR_CLUSTER

\* The whole sectors still to be read are part of the request.
BufferInv ==
  /\ buffer \in Seq(Int)
  /\ pc \notin {"sectors", "done"} => buffer = <<>>
  /\ pc = "sectors" => Len(buffer) + BYTES_PER_SECTOR * rd.chunks <= rd.length

TypeInv == TypeOK /\ CardOK /\ DiscInv /\ BufferInv

\* Bytes of a cluster, and of the file
ClusterBytes == BYTES_PER_SECTOR * v.sectorsPerCluster
FileBytes == ChainLen * ClusterBytes

\* fileRead is at the k-th cluster of the file: it has k - 1 clusters behind it
\* while it follows the chain, and then stands behind the sector that holds the
\* last byte it read.
SeekAt(k) == cluster = chain[k] /\ k - 1 + rd.chunks = rd.start \div ClusterBytes
ReadAt(k) ==
  /\ cluster = chain[k] /\ rd.curSect \in 1 .. v.sectorsPerCluster
  /\ \/ Len(buffer) = rd.length
     \/ BYTES_PER_SECTOR * ((k - 1) * v.sectorsPerCluster + rd.curSect) = rd.start + Len(buffer)
  /\ rd.chunks = (rd.length - Len(buffer)) \div BYTES_PER_SECTOR

ReadInv ==
  /\ pc \in {"init", "main"} => cluster \in {chain[1], CLUSTER_FREE, CLUSTER_EOF}
  /\ Understood =>
       /\ pc = "ready" => cluster = chain[1]
       /\ pc \in {"seek", "sectors", "done"} =>
            rd.start < FileBytes /\ rd.start + rd.length <= FileBytes
       /\ pc = "seek" => \E k \in 1 .. ChainLen : SeekAt(k)
       /\ pc = "sectors" => \E k \in 1 .. ChainLen : ReadAt(k)
       /\ pc = "done" => (\E k \in 1 .. ChainLen : cluster = chain[k]) /\ Len(buffer) = rd.length
       /\ \A i \in DOMAIN buffer : buffer[i] = rd.start + i - 1

\* getBootFileCluster stands behind m entries of the directory, none of which is
\* BOOT.NDS or the end.
Place(m) ==
  LET sector == m \div DirPerSector
  IN  /\ wrk.offset = m % DirPerSector
      /\ \/ /\ v.fs # 32 /\ wrk.cluster = FAT16_ROOT_DIR_CLUSTER
            /\ wrk.first = RootStart(v) /\ wrk.sector = sector
         \/ /\ v.fs = 32 /\ wrk.sector < v.sectorsPerCluster
            /\ \E i \in DOMAIN v.rootChain :
                 /\ wrk.cluster = v.rootChain[i] /\ wrk.first = ClusterStart(v, wrk.cluster)
                 /\ sector = (i - 1) * v.sectorsPerCluster + wrk.sector
SearchAt(m) ==
  /\ \A j \in 1 .. m : dir[j] \notin {"boot", "last"}
  /\ wrk.ended <=> m = Len(dir)
  /\ ~wrk.ended => Place(m)
RootFound == v.fs = 32 => v.rootChain[1] = CLUSTER_FIRST

SearchInv ==
  Understood /\ RootFound => 
    /\ pc = "search" => \E m \in 0 .. Len(dir) : SearchAt(m)
    /\ FindsBootFile

\* Every reader starts with a card of the model.
LEMMA CardInit ==
  ASSUME Init
  PROVE  CardOK
<1>1. v \in Volumes /\ chain \in Chains(v)
  BY DEF Init
<1>2. CASE dir = [i \in 1 .. Len(DirSectors(v)) * DirPerSector |-> "other"]
  BY <1>1, <1>2, Zenon DEF CardOK, Dirs, Entries
<1>3. CASE dir \in Dirs(v)
  BY <1>1, <1>3 DEF CardOK
<1>4. QED
  BY <1>2, <1>3 DEF Init

\* The initial states.
LEMMA TypeInit == Init => TypeInv
<1> SUFFICES ASSUME Init PROVE TypeInv
  OBVIOUS
<1>1. CardOK
  BY CardInit
<1>2. /\ chain \in Seq(Nat) /\ chain[1] \in Nat /\ dir \in Seq(Entries)
      /\ CLUSTER_FREE \in Nat /\ CLUSTER_EOF \in Nat /\ DirPerSector \in Nat \ {0}
  <2>1. chain \in Seq(Nat) /\ chain[1] \in Nat
    <3>1. chain \in [1 .. ChainLen -> Nat]
      BY <1>1, ChainFacts, RootFacts DEF Chains, CardOK
    <3>2. ChainLen \in Nat \ {0}
      BY VolumesAssumption
    <3>3. QED
      BY <3>1, <3>2
  <2>2. CLUSTER_FREE \in Nat /\ CLUSTER_EOF \in Nat
    BY SMT DEF CLUSTER_FREE, CLUSTER_EOF
  <2>3. QED
    BY <1>1, <2>1, <2>2, DirFacts, VolumesAssumption
<1>3. cluster \in Nat
  BY <1>2 DEF Init
<1>4. TypeOK
  <2>1. v \in Volumes /\ searched \in BOOLEAN /\ pc = "init"
    BY DEF Init
  <2>2. /\ disc \in [FileSystem : {0, 12, 16, 32}, FAT : Nat, RootDir : Nat, Data : Nat,
                    SecPerClus : Nat, RootDirClus : Nat]
        /\ wrk \in [cluster : Nat, first : Int, sector : Nat, offset : 0 .. DirPerSector - 1,
                   ended : BOOLEAN]
        /\ rd \in [start : Nat, length : Nat, chunks : Nat, curSect : Nat]
    BY <1>2 DEF Init
  <2>3. Len(buffer) <= rd.length
    BY DEF Init
  <2>4. QED
    BY <1>2, <1>3, <2>1, <2>2, <2>3 DEF TypeOK
<1>5. DiscInv /\ BufferInv
  BY DEF Init, DiscInv, BufferInv
<1>6. QED
  BY <1>1, <1>4, <1>5 DEF TypeInv

\* Volume and card stay as they are.
LEMMA CardStays ==
  ASSUME CardOK, UNCHANGED card
  PROVE  CardOK'
BY DEF CardOK, card

\* FAT_InitFiles counts the clusters of a volume, less those the sectors before
\* the volume would fill.
LEMMA Seen ==
  ASSUME NEW x \in Volumes
  PROVE  /\ CeilDiv(x.part, x.sectorsPerCluster) \in Nat
         /\ (NumSectors(x) - DataStart(x)) \div x.sectorsPerCluster
              = x.clusters - CeilDiv(x.part, x.sectorsPerCluster)
<1>1. PICK c \in Nat, s \in Nat \ {0}, p \in Nat, d \in Nat :
        c = x.clusters /\ s = x.sectorsPerCluster /\ p = x.part /\ d = DataStart(x)
  BY VolumeFacts, VolumePlaces
<1>2. PICK q \in Nat : q = CeilDiv(p, s)
  BY <1>1, Ceil
<1>3. s * q - p \in 0 .. s - 1
  <2>1. p <= s * q /\ s * q < p + s
    BY <1>1, <1>2, Ceil
  <2>2. s * q \in Nat
    BY <1>1, <1>2, Product
  <2>3. QED
    BY <1>1, <2>1, <2>2
<1>4. NumSectors(x) - DataStart(x) = s * (c - q) + (s * q - p)
  <2>1. c * s = s * (c - q) + s * q /\ c * s \in Nat /\ s * (c - q) \in Int /\ s * q \in Int
    <3>1. c - q \in Int /\ c = (c - q) + q
      BY <1>1, <1>2
    <3>2. s * ((c - q) + q) = s * (c - q) + s * q /\ s * c = c * s
      BY <1>1, <1>2, <3>1, Distribute
    <3>3. QED
      BY <1>1, <1>2, <3>1, <3>2, Product
  <2>2. NumSectors(x) = d - p + c * s
    BY <1>1 DEF NumSectors
  <2>3. QED
    BY <1>1, <2>1, <2>2
<1>5. c - q \in Int
  BY <1>1, <1>2
<1>6. (s * (c - q) + (s * q - p)) \div s = c - q
  BY <1>1, <1>3, <1>5, DivUnique
<1>7. QED
  BY <1>1, <1>2, <1>4, <1>6

\* A volume that counts as FAT32 is FAT32; the kind is right if enough clusters
\* are counted.
LEMMA Kind ==
  ASSUME NEW x \in Volumes, NEW n \in Int, n <= x.clusters
  PROVE  /\ FileSystem(n) \in {12, 16, 32}
         /\ FileSystem(n) = 32 => x.fs = 32
         /\ n >= (IF x.fs = 12 THEN n ELSE IF x.fs = 16 THEN Limit12 ELSE Limit16) =>
              FileSystem(n) = x.fs
<1>1. /\ x.clusters \in Nat /\ x.fs \in {12, 16, 32}
      /\ x.clusters < Limit12 <=> x.fs = 12
      /\ x.clusters < Limit16 <=> x.fs # 32
  BY VolumeFacts
<1>2. Limit12 \in Int /\ Limit16 \in Int /\ Limit12 < Limit16
  <2>1. Limit12 \in 1 .. 4085 /\ Limit16 \in Limit12 + 1 .. 65525
    BY VolumesAssumption
  <2>2. Limit12 \in Int
    BY <2>1
  <2>3. QED
    BY <2>1, <2>2
<1>3. FileSystem(n) = IF n < Limit12 THEN 12 ELSE IF n < Limit16 THEN 16 ELSE 32
  BY DEF FileSystem
<1>4. QED
  BY <1>1, <1>2, <1>3

\* What FAT_InitFiles finds out about a volume whose boot sector it reads.
LEMMA Found ==
  ASSUME CardOK, FAT_InitFiles, pc' # "lost"
  PROVE  /\ BootSector = v.part /\ pc' = "main"
         /\ disc'.FileSystem = FileSystem(v.clusters - CeilDiv(v.part, v.sectorsPerCluster))
         /\ disc'.FileSystem \in {12, 16, 32} /\ disc'.FAT = FatStart(v, 0)
         /\ disc'.RootDir = RootStart(v) /\ disc'.Data = DataStart(v)
         /\ disc'.SecPerClus = v.sectorsPerCluster
         /\ disc'.FileSystem = 32 => v.fs = 32
         /\ disc'.RootDirClus =
              IF disc'.FileSystem = 32 THEN v.rootChain[1] ELSE FAT16_ROOT_DIR_CLUSTER
         /\ DOMAIN disc' =
              {"FileSystem", "FAT", "RootDir", "Data", "SecPerClus", "RootDirClus"}
         /\ disc' \in [FileSystem : {12, 16, 32}, FAT : Nat, RootDir : Nat, Data : Nat,
                       SecPerClus : Nat, RootDirClus : Nat]
<1>1. v \in Volumes
  BY DEF CardOK
<1>2. BootSector = v.part /\ pc' = "main"
  BY DEF FAT_InitFiles
<1>3. FatStart(v, 0) = v.part + v.reservedSectors /\ FatStart(v, 0) \in Nat
  <2>1. SectorsPerFAT(v) \in Nat /\ 0 * SectorsPerFAT(v) = 0
    BY <1>1, VolumePlaces
  <2>2. v.part \in Nat /\ v.reservedSectors \in Nat /\ FatStart(v, 0) \in Nat
    BY <1>1, VolumePlaces, VolumeFacts
  <2>3. QED
    BY <2>1, <2>2 DEF FatStart
<1>4. RootStart(v) = FatStart(v, 0) + v.numFATs * SectorsPerFAT(v)
  BY <1>3 DEF RootStart, FatStart
<1>5. PICK n \in Int : /\ n = (NumSectors(v) - DataStart(v)) \div v.sectorsPerCluster
                       /\ n = v.clusters - CeilDiv(v.part, v.sectorsPerCluster)
                       /\ n <= v.clusters
  BY <1>1, Seen, VolumeFacts
<1>6. disc' = [FileSystem |-> FileSystem(n), RootDir |-> RootStart(v), Data |-> DataStart(v),
               FAT |-> IF FileSystem(n) = 32 /\ v.mirrored
                       THEN FatStart(v, 0) + SectorsPerFAT(v) * v.active ELSE FatStart(v, 0),
               SecPerClus |-> v.sectorsPerCluster,
               RootDirClus |-> IF FileSystem(n) = 32 THEN v.rootChain[1]
                               ELSE FAT16_ROOT_DIR_CLUSTER]
  <2>1. BootSector + v.reservedSectors = FatStart(v, 0)
    BY <1>2, <1>3
  <2>2. FatStart(v, 0) + v.numFATs * SectorsPerFAT(v) = RootStart(v)
    BY <1>4
  <2>3. RootStart(v) + v.rootEntries \div DirPerSector = DataStart(v)
    BY DEF DataStart
  <2>4. QED
    BY <1>2, <1>5, <2>1, <2>2, <2>3 DEF FAT_InitFiles
<1>7. v.mirrored => FatStart(v, 0) + SectorsPerFAT(v) * v.active = FatStart(v, 0)
  <2>1. v.mirrored => v.active = 0
    BY <1>1, VolumeFacts
  <2>2. SectorsPerFAT(v) \in Nat
    BY <1>1, VolumePlaces
  <2>3. SectorsPerFAT(v) * 0 = 0
    BY <2>2
  <2>4. QED
    BY <1>3, <2>1, <2>3
<1>8. FileSystem(n) \in {12, 16, 32} /\ (FileSystem(n) = 32 => v.fs = 32)
  BY <1>1, <1>5, Kind
<1>9. FileSystem(n) = 32 => v.rootChain[1] \in Nat
  <2>1. FileSystem(n) = 32 => 1 \in DOMAIN v.rootChain
    BY <1>8, RootFacts
  <2>2. QED
    BY <2>1, RootFacts
<1>10. /\ RootStart(v) \in Nat /\ DataStart(v) \in Nat /\ v.sectorsPerCluster \in Nat
       /\ FAT16_ROOT_DIR_CLUSTER \in Nat
  BY <1>1, VolumePlaces, VolumeFacts DEF FAT16_ROOT_DIR_CLUSTER
<1>11. QED
  BY <1>2, <1>3, <1>5, <1>6, <1>7, <1>8, <1>9, <1>10

\* Where a cluster starts is a number.
LEMMA ClusterStartInt ==
  ASSUME NEW x \in Volumes, NEW c \in Int
  PROVE  ClusterStart(x, c) \in Int
<1>1. DataStart(x) \in Int /\ x.sectorsPerCluster \in Int /\ c - 2 \in Int
  <2>1. DataStart(x) \in Nat
    BY VolumePlaces
  <2>2. x.sectorsPerCluster \in Nat
    BY VolumeFacts
  <2>3. QED
    BY <2>1, <2>2
<1>2. (c - 2) * x.sectorsPerCluster \in Int
  BY <1>1, Product
<1>3. QED
  BY <1>1, <1>2 DEF ClusterStart, CLUSTER_FIRST

\* Whatever sector is read as a part of the file, its bytes are numbers.
LEMMA FileByteInt ==
  ASSUME CardOK, NEW s \in Int, NEW o \in Int
  PROVE  FileByte(s, o) \in Int
<1> DEFINE at == {i \in DOMAIN chain :
                    s - ClusterStart(v, chain[i]) \in 0 .. v.sectorsPerCluster - 1}
<1>1. Junk \in Int
  BY SMT DEF Junk
<1>2. ASSUME at # {} PROVE FilePosition(s) \in Int
  <2>1. PICK i \in DOMAIN chain : i = CHOOSE j \in at : TRUE
    BY <1>2
  <2>2. FilePosition(s) =
          BYTES_PER_SECTOR * ((i - 1) * v.sectorsPerCluster + s - ClusterStart(v, chain[i]))
    BY <1>2, <2>1 DEF FilePosition
  <2>3. /\ i \in Int /\ v.sectorsPerCluster \in Int /\ BYTES_PER_SECTOR \in Int
        /\ ClusterStart(v, chain[i]) \in Int
    <3>1. v \in Volumes /\ i \in 1 .. ChainLen
      BY <2>1, ChainFacts DEF CardOK
    <3>2. i \in Int /\ chain[i] \in Int
      BY <3>1, ChainFacts, RootFacts
    <3>3. QED
      BY <3>1, <3>2, ClusterStartInt, VolumeFacts, VolumesAssumption
  <2>4. (i - 1) * v.sectorsPerCluster \in Int
    BY <2>3, Product
  <2>5. (i - 1) * v.sectorsPerCluster + s - ClusterStart(v, chain[i]) \in Int
    BY <2>3, <2>4
  <2>6. QED
    BY <2>2, <2>3, <2>5, Product
<1>3. FilePosition(s) \in Int
  BY <1>1, <1>2 DEF FilePosition
<1>4. QED
  BY <1>1, <1>3 DEF FileByte

\* What a command to the card returns.
LEMMA SectorSeq ==
  ASSUME CardOK, disc.SecPerClus \in Nat, disc.Data \in Nat
  PROVE  \A c, s, from, to \in Nat : from <= to =>
           /\ SectorBytes(c, s, from, to) \in Seq(Int)
           /\ Len(SectorBytes(c, s, from, to)) = to - from
<1> SUFFICES ASSUME NEW c \in Nat, NEW s \in Nat, NEW from \in Nat, NEW to \in Nat, from <= to
             PROVE  /\ SectorBytes(c, s, from, to) \in Seq(Int)
                    /\ Len(SectorBytes(c, s, from, to)) = to - from
  OBVIOUS
<1>1. BYTES_PER_SECTOR \in Nat \ {0}
  BY VolumesAssumption
<1>2. FAT_ClustToSect(c) \in Int
  <2>1. (c - 2) * disc.SecPerClus \in Int
    BY Product
  <2>2. QED
    BY <2>1 DEF FAT_ClustToSect
<1>3. ASSUME NEW i \in 1 .. to - from
      PROVE  FileByte(s + (from + i - 1) \div BYTES_PER_SECTOR + FAT_ClustToSect(c),
                      (from + i - 1) % BYTES_PER_SECTOR) \in Int
  <2>1. from + i - 1 \in Int
    OBVIOUS
  <2>2. /\ (from + i - 1) \div BYTES_PER_SECTOR \in Int
        /\ (from + i - 1) % BYTES_PER_SECTOR \in Int
    BY <1>1, <2>1, DivMod
  <2>3. s + (from + i - 1) \div BYTES_PER_SECTOR + FAT_ClustToSect(c) \in Int
    BY <1>2, <2>2
  <2>4. QED
    BY <2>2, <2>3, FileByteInt
<1>4. PICK n \in Nat : n = to - from
  OBVIOUS
<1>5. SectorBytes(c, s, from, to) \in [1 .. n -> Int]
  BY <1>3, <1>4 DEF SectorBytes
<1>6. QED
  BY <1>4, <1>5

\* While they read, the readers know the size of a cluster.
LEMMA Sizes ==
  ASSUME TypeInv, pc \notin {"init", "lost"}
  PROVE  /\ v \in Volumes /\ CardOK
         /\ disc.SecPerClus \in Nat \ {0} /\ disc.SecPerClus = v.sectorsPerCluster
         /\ disc.Data \in Nat /\ disc.Data = DataStart(v)
         /\ disc.FAT \in Nat /\ disc.FileSystem \in {12, 16, 32}
         /\ BYTES_PER_SECTOR \in Nat \ {0}
         /\ BytePerClus \in Nat \ {0} /\ BytePerClus = ClusterBytes
         /\ \A c \in Nat : FAT_NextCluster(c) \in Nat
<1>1. v \in Volumes /\ CardOK
  BY DEF TypeInv, CardOK
<1>2. disc.SecPerClus = v.sectorsPerCluster /\ v.sectorsPerCluster \in Nat \ {0}
  BY <1>1, VolumeFacts DEF TypeInv, DiscInv
<1>3. disc.Data = DataStart(v) /\ disc.FAT = FatStart(v, 0) /\ disc.FileSystem \in {12, 16, 32}
  BY DEF TypeInv, DiscInv
<1>4. disc.Data \in Nat /\ disc.FAT \in Nat
  BY <1>1, <1>3, VolumePlaces
<1>5. BYTES_PER_SECTOR \in Nat \ {0}
  BY VolumesAssumption
<1>6. BytePerClus = ClusterBytes
  BY <1>2 DEF BytePerClus, ClusterBytes
<1>7. BytePerClus \in Nat \ {0}
  BY <1>2, <1>5 DEF BytePerClus
<1>8. \A c \in Nat : FAT_NextCluster(c) \in Nat
  BY <1>1, <1>3, <1>4, NextNat
<1>9. QED
  BY <1>1, <1>2, <1>3, <1>4, <1>5, <1>6, <1>7, <1>8

\* The next sector is a sector of a cluster.
LEMMA FollowingOK ==
  ASSUME TypeInv, pc = "sectors"
  PROVE  /\ Following.cluster \in Nat /\ Following.sector \in Nat
         /\ Following.sector < disc.SecPerClus
<1>1. cluster \in Nat /\ rd.curSect \in Nat
  BY DEF TypeInv, TypeOK
<1>2. FAT_NextCluster(cluster) \in Nat /\ disc.SecPerClus \in Nat \ {0}
  BY <1>1, Sizes
<1>3. QED
  BY <1>1, <1>2 DEF Following

\* What is read from its beginning on.
LEMMA NextBytes ==
  ASSUME TypeInv, pc = "sectors", NEW n \in Nat
  PROVE  \E bytes \in Seq(Int) :
           /\ bytes = SectorBytes(Following.cluster, Following.sector, 0, n)
           /\ Len(bytes) = n
<1>1. CardOK /\ disc.SecPerClus \in Nat /\ disc.Data \in Nat
  BY DEF TypeInv, TypeOK
<1>2. \A c, s, from, to \in Nat : from <= to =>
        /\ SectorBytes(c, s, from, to) \in Seq(Int)
        /\ Len(SectorBytes(c, s, from, to)) = to - from
  BY <1>1, SectorSeq
<1>3. PICK c \in Nat, s \in Nat, f \in Nat :
        c = Following.cluster /\ s = Following.sector /\ f = 0
  BY FollowingOK
<1>4. f <= n
  BY <1>3
<1>5. SectorBytes(c, s, f, n) \in Seq(Int) /\ Len(SectorBytes(c, s, f, n)) = n - f
  BY <1>2, <1>4
<1>6. QED
  BY <1>3, <1>5

\* FAT_InitFiles establishes what is known of the card.
LEMMA TypeInitFiles ==
  ASSUME TypeInv, FAT_InitFiles
  PROVE  TypeInv'
<1>1. /\ UNCHANGED <<card, cluster, searched, wrk, rd, buffer>>
      /\ pc = "init" /\ pc' \in {"lost", "main"}
  BY DEF FAT_InitFiles
<1>2. CardOK'
  BY <1>1, CardStays DEF TypeInv
<1>3. CASE pc' = "lost"
  <2>1. UNCHANGED disc
    BY <1>3 DEF FAT_InitFiles
  <2>2. TypeOK'
    BY <1>1, <1>3, <2>1 DEF TypeInv, TypeOK, card
  <2>3. DiscInv' /\ BufferInv'
    BY <1>1, <1>3 DEF TypeInv, DiscInv, BufferInv
  <2>4. QED
    BY <1>2, <2>2, <2>3 DEF TypeInv
<1>4. CASE pc' # "lost"
  <2>1. v' = v
    BY <1>1 DEF card
  <2>2. CardOK
    BY DEF TypeInv
  <2>3. DiscInv'
    BY <1>4, <2>1, <2>2, Found DEF DiscInv, FAT16_ROOT_DIR_CLUSTER
  <2>4. disc' \in [FileSystem : {0, 12, 16, 32}, FAT : Nat, RootDir : Nat, Data : Nat,
                   SecPerClus : Nat, RootDirClus : Nat]
    BY <1>4, <2>2, Found
  <2>5. TypeOK'
    BY <1>1, <2>4 DEF TypeInv, TypeOK, card
  <2>6. BufferInv'
    BY <1>1 DEF TypeInv, BufferInv
  <2>7. QED
    BY <1>2, <2>3, <2>5, <2>6 DEF TypeInv
<1>5. QED
  BY <1>3, <1>4

\* A step that leaves the card and what is known of it alone.
LEMMA TypeSame ==
  ASSUME TypeInv, UNCHANGED <<card, disc>>, pc \notin {"init", "lost"},
         TypeOK', BufferInv'
  PROVE  TypeInv'
<1>1. CardOK'
  BY CardStays DEF TypeInv
<1>2. DiscInv'
  BY DEF TypeInv, DiscInv, card, FatStart, RootStart, DataStart, SectorsPerFAT
<1>3. QED
  BY <1>1, <1>2 DEF TypeInv

\* main and getBootFileCluster.
LEMMA TypeSearch ==
  ASSUME TypeInv, UseStored \/ SearchStart \/ SearchTurn
  PROVE  TypeInv'
<1>1. /\ UNCHANGED <<card, disc, rd, buffer>>
      /\ pc \in {"main", "search"} /\ pc' \in {"ready", "search", "found", "failed"}
  BY DEF UseStored, SearchStart, SearchTurn
<1>2. BufferInv'
  BY <1>1 DEF TypeInv, BufferInv
<1>3. searched' \in BOOLEAN
  BY DEF UseStored, SearchStart, SearchTurn, TypeInv, TypeOK
<1>4. cluster' \in Nat
  <2>1. chain[1] \in Nat
    <3>1. 1 \in 1 .. ChainLen /\ CardOK
      BY VolumesAssumption DEF TypeInv
    <3>2. QED
      BY <3>1, ChainFacts, RootFacts
  <2>2. cluster' \in {cluster, CLUSTER_FREE, chain[1]}
    BY DEF UseStored, SearchStart, SearchTurn
  <2>3. QED
    BY <2>1, <2>2 DEF TypeInv, TypeOK, CLUSTER_FREE
<1>5. wrk' \in [cluster : Nat, first : Int, sector : Nat, offset : 0 .. DirPerSector - 1,
                ended : BOOLEAN]
  <2>1. DirPerSector \in Nat \ {0}
    BY VolumesAssumption
  <2>2. wrk \in [cluster : Nat, first : Int, sector : Nat, offset : 0 .. DirPerSector - 1,
                 ended : BOOLEAN]
    BY DEF TypeInv, TypeOK
  <2>3. disc.RootDirClus \in Nat /\ disc.RootDir \in Nat
    BY DEF TypeInv, TypeOK
  <2>4. FAT_NextCluster(wrk.cluster) \in Nat
    BY <1>1, <2>2, Sizes
  <2>5. FAT_ClustToSect(FAT_NextCluster(wrk.cluster)) \in Int
    <3>1. disc.SecPerClus \in Int /\ disc.Data \in Int
      BY DEF TypeInv, TypeOK
    <3>2. (FAT_NextCluster(wrk.cluster) - 2) * disc.SecPerClus \in Int
      BY <2>4, <3>1, Product
    <3>3. QED
      BY <3>1, <3>2 DEF FAT_ClustToSect
  <2>6. NextEntry \in [cluster : Nat, first : Int, sector : Nat,
                       offset : 0 .. DirPerSector - 1, ended : BOOLEAN]
    <3>1. CASE wrk.offset + 1 < DirPerSector
      <4>1. NextEntry = [wrk EXCEPT !.offset = @ + 1]
        BY <3>1 DEF NextEntry
      <4>2. wrk.offset + 1 \in 0 .. DirPerSector - 1
        BY <2>1, <2>2, <3>1
      <4>3. QED
        BY <2>2, <4>1, <4>2
    <3>2. CASE /\ ~(wrk.offset + 1 < DirPerSector)
               /\ wrk.sector + 1 = disc.SecPerClus /\ wrk.cluster # FAT16_ROOT_DIR_CLUSTER
      <4>1. PICK b \in BOOLEAN : b = (FAT_NextCluster(wrk.cluster) = CLUSTER_EOF)
        BY Zenon
      <4>2. NextEntry = [cluster |-> FAT_NextCluster(wrk.cluster),
                         first |-> FAT_ClustToSect(FAT_NextCluster(wrk.cluster)),
                         sector |-> 0, offset |-> 0, ended |-> b]
        BY <3>2, <4>1 DEF NextEntry
      <4>3. 0 \in Nat /\ 0 \in 0 .. DirPerSector - 1
        BY <2>1
      <4>4. QED
        BY <2>4, <2>5, <4>2, <4>3, Zenon
    <3>3. CASE /\ ~(wrk.offset + 1 < DirPerSector)
               /\ ~(wrk.sector + 1 = disc.SecPerClus /\ wrk.cluster # FAT16_ROOT_DIR_CLUSTER)
      <4>1. PICK b \in BOOLEAN : b = (/\ wrk.cluster = FAT16_ROOT_DIR_CLUSTER
                                     /\ wrk.sector + 1 = disc.Data - disc.RootDir)
        BY Zenon
      <4>2. NextEntry = [wrk EXCEPT !.sector = wrk.sector + 1, !.offset = 0, !.ended = b]
        BY <3>3, <4>1 DEF NextEntry
      <4>3. wrk.sector + 1 \in Nat /\ 0 \in 0 .. DirPerSector - 1
        BY <2>1, <2>2
      <4>4. QED
        BY <2>2, <4>2, <4>3
    <3>4. QED
      BY <3>1, <3>2, <3>3
  <2>7. wrk' \in {wrk, NextEntry}
          \/ wrk' = [cluster |-> disc.RootDirClus, first |-> disc.RootDir, sector |-> 0,
                     offset |-> 0, ended |-> FALSE]
    BY DEF UseStored, SearchStart, SearchTurn
  <2>8. 0 \in Nat /\ 0 \in 0 .. DirPerSector - 1 /\ disc.RootDir \in Int
    BY <2>1, <2>3
  <2>9. [cluster |-> disc.RootDirClus, first |-> disc.RootDir, sector |-> 0, offset |-> 0,
         ended |-> FALSE]
          \in [cluster : Nat, first : Int, sector : Nat, offset : 0 .. DirPerSector - 1,
               ended : BOOLEAN]
    BY <2>3, <2>8, Zenon
  <2>10. QED
    BY <2>2, <2>6, <2>7, <2>9, Zenon
<1>6. TypeOK'
  BY <1>1, <1>3, <1>4, <1>5 DEF TypeInv, TypeOK, card
<1>7. QED
  BY <1>1, <1>2, <1>6, TypeSame

\* The smaller of two numbers.
LEMMA MinOf ==
  ASSUME NEW a \in Int, NEW b \in Int
  PROVE  /\ Min({a, b}) \in {a, b} /\ Min({a, b}) <= a /\ Min({a, b}) <= b
<1>1. \E x \in {a, b} : \A y \in {a, b} : x <= y
  OBVIOUS
<1>2. Min({a, b}) \in {a, b} /\ \A y \in {a, b} : Min({a, b}) <= y
  BY <1>1 DEF Min
<1>3. QED
  BY <1>2

\* Where a read starts: the bytes up to the first sector boundary, and the whole
\* sectors that are left.
FirstSector == (rd.start % BytePerClus) \div BYTES_PER_SECTOR
FirstByte == rd.start % BYTES_PER_SECTOR
FirstBytes ==
  IF BYTES_PER_SECTOR < rd.length + FirstByte THEN BYTES_PER_SECTOR - FirstByte ELSE rd.length

LEMMA FirstFacts ==
  ASSUME TypeInv, pc = "seek"
  PROVE  /\ FirstSector \in Nat /\ FirstByte \in 0 .. BYTES_PER_SECTOR - 1
         /\ FirstBytes \in Nat /\ FirstBytes <= rd.length
         /\ FirstByte + FirstBytes <= BYTES_PER_SECTOR
         /\ (rd.length - FirstBytes) \div BYTES_PER_SECTOR \in Nat
         /\ FirstBytes + BYTES_PER_SECTOR * ((rd.length - FirstBytes) \div BYTES_PER_SECTOR)
              <= rd.length
<1>1. PICK b \in Nat \ {0}, p \in Nat \ {0} : b = BYTES_PER_SECTOR /\ p = BytePerClus
  BY Sizes
<1>2. PICK s \in Nat, l \in Nat : s = rd.start /\ l = rd.length
  BY DEF TypeInv, TypeOK
<1>3. PICK t \in Nat : t = s % p
  <2>1. s \in Int /\ p \in Nat \ {0}
    BY <1>1, <1>2
  <2>2. s % p \in 0 .. p - 1
    BY <2>1, DivMod
  <2>3. QED
    BY <2>2
<1>4. s % b \in 0 .. b - 1 /\ t \div b \in Nat
  <2>1. s \in Int /\ t \in Int /\ t >= 0 /\ b \in Nat \ {0}
    BY <1>1, <1>2, <1>3
  <2>2. s % b \in 0 .. b - 1
    BY <2>1, DivMod
  <2>3. t \div b \in Nat
    BY <2>1, DivMod
  <2>4. QED
    BY <2>2, <2>3
<1>5. FirstSector \in Nat /\ FirstByte \in 0 .. b - 1
  BY <1>1, <1>2, <1>3, <1>4 DEF FirstSector, FirstByte
<1>6. FirstBytes \in Nat /\ FirstBytes <= l /\ FirstByte + FirstBytes <= b
  BY <1>1, <1>2, <1>5 DEF FirstBytes
<1>7. PICK r \in Nat : r = l - FirstBytes
  BY <1>2, <1>6
<1>8. PICK q \in Nat : q = r \div b
  BY <1>1, <1>7, DivMod
<1>9. b * q <= r /\ b * q \in Nat
  <2>1. r \in Int /\ b \in Nat \ {0}
    BY <1>1, <1>7
  <2>2. r % b \in 0 .. b - 1 /\ r = b * (r \div b) + (r % b)
    BY <2>1, DivMod
  <2>3. b * q \in Nat
    BY <1>1, <1>8, Product
  <2>4. QED
    BY <1>8, <2>1, <2>2, <2>3
<1>10. QED
  BY <1>1, <1>2, <1>5, <1>6, <1>7, <1>8, <1>9

\* A read starts, and follows the chain.
LEMMA TypeRead ==
  ASSUME TypeInv, Seek \/ \E r \in Requests : Read(r[1], r[2])
  PROVE  TypeInv'
<1>1. CASE Seek
  <2>1. /\ UNCHANGED <<card, searched, disc, pc, wrk, buffer>>
        /\ pc = "seek" /\ cluster' = FAT_NextCluster(cluster)
        /\ rd' = [rd EXCEPT !.chunks = @ - 1] /\ rd.chunks > 0
    BY <1>1 DEF Seek
  <2>2. cluster' \in Nat
    BY <2>1, Sizes DEF TypeInv, TypeOK
  <2>3. /\ rd' \in [start : Nat, length : Nat, chunks : Nat, curSect : Nat]
        /\ rd'.length = rd.length
    <3>1. rd \in [start : Nat, length : Nat, chunks : Nat, curSect : Nat]
      BY DEF TypeInv, TypeOK
    <3>2. rd.chunks - 1 \in Nat
      BY <2>1, <3>1
    <3>3. QED
      BY <2>1, <3>1, <3>2
  <2>4. TypeOK'
    BY <2>1, <2>2, <2>3 DEF TypeInv, TypeOK, card
  <2>5. BufferInv'
    BY <2>1 DEF TypeInv, BufferInv
  <2>6. QED
    BY <2>1, <2>4, <2>5, TypeSame
<1>2. CASE \E r \in Requests : Read(r[1], r[2])
  <2>1. PICK r \in Requests : Read(r[1], r[2])
    BY <1>2
  <2>2. r[1] \in Nat /\ r[2] \in Nat
    BY RequestsAssumption
  <2>3. /\ UNCHANGED <<card, cluster, searched, disc, wrk, buffer>>
        /\ pc = "ready" /\ pc' = "seek"
        /\ rd' = [start |-> r[1], length |-> r[2], chunks |-> r[1] \div BytePerClus,
                  curSect |-> 0]
    BY <2>1 DEF Read
  <2>4. r[1] \div BytePerClus \in Nat
    <3>1. PICK s \in Int, b \in Nat \ {0} : s = r[1] /\ s >= 0 /\ b = BytePerClus
      BY <2>2, <2>3, Sizes
    <3>2. s \div b \in Nat
      BY <3>1, DivMod
    <3>3. QED
      BY <3>1, <3>2
  <2>5. /\ rd' \in [start : Nat, length : Nat, chunks : Nat, curSect : Nat]
        /\ rd'.length \in Nat
    BY <2>2, <2>3, <2>4
  <2>6. buffer = <<>>
    BY <2>3 DEF TypeInv, BufferInv
  <2>7. TypeOK'
    BY <2>3, <2>5, <2>6 DEF TypeInv, TypeOK, card
  <2>8. BufferInv'
    BY <2>3, <2>6 DEF TypeInv, BufferInv
  <2>9. QED
    BY <2>3, <2>7, <2>8, TypeSame
<1>3. QED
  BY <1>1, <1>2

LEMMA TypeFirst ==
  ASSUME TypeInv, ReadFirst
  PROVE  TypeInv'
<1>1. /\ UNCHANGED <<card, cluster, searched, disc, wrk>>
      /\ pc = "seek" /\ pc' = "sectors"
      /\ buffer' = SectorBytes(cluster, FirstSector, FirstByte, FirstByte + FirstBytes)
      /\ rd' = [rd EXCEPT !.curSect = FirstSector + 1,
                          !.chunks = (rd.length - FirstBytes) \div BYTES_PER_SECTOR]
  BY DEF ReadFirst, FirstSector, FirstByte, FirstBytes
<1>2. /\ FirstSector \in Nat /\ FirstByte \in Nat /\ FirstBytes \in Nat
      /\ (rd.length - FirstBytes) \div BYTES_PER_SECTOR \in Nat
      /\ FirstBytes + BYTES_PER_SECTOR * ((rd.length - FirstBytes) \div BYTES_PER_SECTOR)
           <= rd.length
      /\ FirstBytes <= rd.length
  BY <1>1, FirstFacts
<1>3. buffer' \in Seq(Int) /\ Len(buffer') = FirstBytes
  <2>1. CardOK /\ disc.SecPerClus \in Nat /\ disc.Data \in Nat /\ cluster \in Nat
    BY DEF TypeInv, TypeOK
  <2>2. FirstByte + FirstBytes \in Nat /\ FirstByte <= FirstByte + FirstBytes
        /\ FirstByte + FirstBytes - FirstByte = FirstBytes
    BY <1>2
  <2>3. QED
    BY <1>1, <1>2, <2>1, <2>2, SectorSeq
<1>4. /\ rd' \in [start : Nat, length : Nat, chunks : Nat, curSect : Nat]
      /\ rd'.length = rd.length
      /\ rd'.chunks = (rd.length - FirstBytes) \div BYTES_PER_SECTOR
  <2>1. rd \in [start : Nat, length : Nat, chunks : Nat, curSect : Nat]
    BY DEF TypeInv, TypeOK
  <2>2. FirstSector + 1 \in Nat
    BY <1>2
  <2>3. QED
    BY <1>1, <1>2, <2>1, <2>2
<1>5. TypeOK'
  BY <1>1, <1>2, <1>3, <1>4 DEF TypeInv, TypeOK, card
<1>6. BufferInv'
  BY <1>1, <1>2, <1>3, <1>4 DEF TypeInv, BufferInv
<1>7. QED
  BY <1>1, <1>5, <1>6, TypeSame

\* The sectors of a cluster that one command reads
Count == Min({disc.SecPerClus - Following.sector, rd.chunks})

LEMMA CountFacts ==
  ASSUME TypeInv, ReadSectors
  PROVE  /\ pc = "sectors" /\ Count \in Nat \ {0} /\ Count <= rd.chunks
         /\ Following.sector + Count <= disc.SecPerClus
         /\ cluster' = Following.cluster
         /\ buffer' = buffer \o SectorBytes(Following.cluster, Following.sector, 0,
                                            Count * BYTES_PER_SECTOR)
         /\ rd' = [rd EXCEPT !.curSect = Following.sector + Count, !.chunks = @ - Count]
         /\ UNCHANGED <<card, searched, disc, pc, wrk>>
<1>1. pc = "sectors" /\ rd.chunks > 0
  BY DEF ReadSectors
<1>2. Following.sector \in Nat /\ Following.sector < disc.SecPerClus
  BY <1>1, FollowingOK
<1>3. rd.chunks \in Nat /\ disc.SecPerClus \in Nat
  BY DEF TypeInv, TypeOK
<1>4. Count \in Nat \ {0} /\ Count <= rd.chunks /\ Following.sector + Count <= disc.SecPerClus
  <2>1. PICK a \in Int, c \in Int : a = disc.SecPerClus - Following.sector /\ c = rd.chunks
    BY <1>2, <1>3
  <2>2. Min({a, c}) \in {a, c} /\ Min({a, c}) <= a /\ Min({a, c}) <= c
    BY <2>1, MinOf
  <2>3. Count = Min({a, c})
    BY <2>1 DEF Count
  <2>4. QED
    BY <1>1, <1>2, <1>3, <2>1, <2>2, <2>3
<1>5. QED
  BY <1>1, <1>4 DEF ReadSectors, Count

LEMMA TypeSectors ==
  ASSUME TypeInv, ReadSectors
  PROVE  TypeInv'
<1>1. /\ pc = "sectors" /\ Following.cluster \in Nat /\ Following.sector \in Nat
      /\ Count \in Nat \ {0} /\ Count <= rd.chunks
  BY CountFacts, FollowingOK
<1>2. PICK b \in Nat \ {0}, m \in Nat : b = BYTES_PER_SECTOR /\ m = Count * b
  BY <1>1, VolumesAssumption, Product
<1>3. PICK bytes \in Seq(Int) :
        bytes = SectorBytes(Following.cluster, Following.sector, 0, m) /\ Len(bytes) = m
  BY <1>1, NextBytes
<1>4. buffer' = buffer \o bytes /\ UNCHANGED <<card, searched, disc, pc, wrk>>
      /\ cluster' = Following.cluster
  BY <1>2, <1>3, CountFacts
<1>5. buffer' \in Seq(Int) /\ Len(buffer') = Len(buffer) + m /\ Len(buffer) \in Nat
  <2>1. buffer \in Seq(Int)
    BY DEF TypeInv, BufferInv
  <2>2. /\ buffer \o bytes \in Seq(Int) /\ Len(buffer \o bytes) = Len(buffer) + Len(bytes)
        /\ Len(buffer) \in Nat
    BY <1>3, <2>1, Concat
  <2>3. QED
    BY <1>3, <1>4, <2>2, Zenon
<1>6. /\ rd' \in [start : Nat, length : Nat, chunks : Nat, curSect : Nat]
      /\ rd'.length = rd.length /\ rd'.chunks = rd.chunks - Count
  <2>1. rd \in [start : Nat, length : Nat, chunks : Nat, curSect : Nat]
    BY DEF TypeInv, TypeOK
  <2>2. rd' = [rd EXCEPT !.curSect = Following.sector + Count, !.chunks = @ - Count]
    BY CountFacts
  <2>3. Following.sector + Count \in Nat /\ rd.chunks - Count \in Nat
    BY <1>1, <2>1
  <2>4. QED
    BY <2>1, <2>2, <2>3
<1>7. Len(buffer') + b * rd'.chunks <= rd'.length
  <2>1. PICK c \in Nat, n \in Nat : c = rd.chunks /\ n = Count /\ c - n \in Nat
    BY <1>1 DEF TypeInv, TypeOK
  <2>2. b * c = b * (c - n) + m /\ b * c \in Nat /\ b * (c - n) \in Nat
    <3>1. b * ((c - n) + n) = b * (c - n) + b * n
      BY <1>2, <2>1, Distribute
    <3>2. (c - n) + n = c /\ b * n = m
      BY <1>2, <2>1, Distribute
    <3>3. QED
      BY <1>2, <2>1, <3>1, <3>2, Product
  <2>3. Len(buffer) + b * c <= rd.length /\ rd.length \in Nat
    BY <1>1, <1>2, <2>1 DEF TypeInv, TypeOK, BufferInv
  <2>4. b * rd'.chunks = b * (c - n) /\ rd'.length = rd.length
    BY <1>6, <2>1
  <2>5. QED
    BY <1>2, <1>5, <2>2, <2>3, <2>4
<1>8. Len(buffer') <= rd'.length
  <2>1. b * rd'.chunks \in Nat /\ rd'.length \in Nat
    BY <1>2, <1>6, Product
  <2>2. QED
    BY <1>5, <1>7, <2>1
<1>9. TypeOK'
  BY <1>1, <1>4, <1>6, <1>8 DEF TypeInv, TypeOK, card
<1>10. BufferInv'
  BY <1>1, <1>2, <1>4, <1>5, <1>7 DEF BufferInv
<1>11. QED
  BY <1>1, <1>4, <1>9, <1>10, TypeSame

LEMMA TypeLast ==
  ASSUME TypeInv, ReadLast
  PROVE  TypeInv'
<1>1. /\ pc = "sectors" /\ pc' = "done" /\ UNCHANGED <<card, searched, disc, wrk, rd>>
  BY DEF ReadLast
<1>2. /\ buffer \in Seq(Int) /\ rd.length \in Nat /\ cluster \in Nat
      /\ Following.cluster \in Nat /\ Following.sector \in Nat
  BY <1>1, FollowingOK DEF TypeInv, TypeOK, BufferInv
<1>3. PICK rest \in Int : rest = rd.length - Len(buffer)
  BY <1>2
<1>4. CASE rest > 0
  <2>1. PICK bytes \in Seq(Int) :
          bytes = SectorBytes(Following.cluster, Following.sector, 0, rest)
            /\ Len(bytes) = rest
    BY <1>1, <1>4, NextBytes
  <2>2. cluster' = Following.cluster /\ buffer' = buffer \o bytes
    BY <1>3, <1>4, <2>1 DEF ReadLast
  <2>3. buffer' \in Seq(Int) /\ Len(buffer') = rd.length /\ cluster' \in Nat
    <3>1. buffer' \in Seq(Int) /\ Len(buffer') = Len(buffer) + rest
      <4>1. buffer \o bytes \in Seq(Int) /\ Len(buffer \o bytes) = Len(buffer) + Len(bytes)
        BY <1>2, <2>1, Concat
      <4>2. QED
        BY <2>1, <2>2, <4>1, Zenon
    <3>2. Len(buffer) + rest = rd.length
      BY <1>2, <1>3
    <3>3. QED
      BY <1>2, <2>2, <3>1, <3>2
  <2>4. TypeOK'
    BY <1>1, <1>2, <2>3 DEF TypeInv, TypeOK, card
  <2>5. BufferInv'
    BY <1>1, <2>3 DEF BufferInv
  <2>6. QED
    BY <1>1, <2>4, <2>5, TypeSame
<1>5. CASE ~(rest > 0)
  <2>1. UNCHANGED <<cluster, buffer>>
    BY <1>3, <1>5 DEF ReadLast
  <2>2. TypeOK'
    BY <1>1, <2>1 DEF TypeInv, TypeOK, card
  <2>3. BufferInv'
    BY <1>1, <1>2, <2>1 DEF BufferInv
  <2>4. QED
    BY <1>1, <2>2, <2>3, TypeSame
<1>6. QED
  BY <1>4, <1>5

\* Every step keeps the types.
LEMMA TypeStep == TypeInv /\ [Next]_vars => TypeInv'
<1> SUFFICES ASSUME TypeInv, [Next]_vars PROVE TypeInv'
  OBVIOUS
<1>1. CASE FAT_InitFiles BY <1>1, TypeInitFiles
<1>2. CASE UseStored \/ SearchStart \/ SearchTurn BY <1>2, TypeSearch
<1>3. CASE Seek \/ \E r \in Requests : Read(r[1], r[2]) BY <1>3, TypeRead
<1>4. CASE ReadFirst BY <1>4, TypeFirst
<1>5. CASE ReadSectors BY <1>5, TypeSectors
<1>6. CASE ReadLast BY <1>6, TypeLast
<1>7. CASE UNCHANGED vars
  BY <1>7, CardStays DEF vars, card, TypeInv, TypeOK, DiscInv, BufferInv
<1>8. QED
  BY <1>1, <1>2, <1>3, <1>4, <1>5, <1>6, <1>7 DEF Next, Loops

\* Every variable has its type in every state: no count of sectors or clusters
\* falls below 0, and no read returns more than was asked for.
THEOREM FatTypes == Spec => []TypeOK
<1>1. TypeInv => TypeOK
  BY DEF TypeInv
<1>2. QED
  BY <1>1, TypeInit, TypeStep, PTL DEF Spec

-----------------------------------------------------------------------------
\* The kind of FAT

\* The least element of a set of numbers.
LEMMA MinIs ==
  ASSUME NEW S, S \subseteq Int, NEW i \in S, \A k \in S : i <= k
  PROVE  Min(S) = i
<1>1. Min(S) \in S /\ \A k \in S : Min(S) <= k
  BY DEF Min
<1>2. i \in Int /\ Min(S) \in Int /\ i <= Min(S) /\ Min(S) <= i
  BY <1>1
<1>3. QED
  BY <1>2

\* FAT_InitFiles reads the boot sector of the first partition.
LEMMA FirstFound ==
  ASSUME v \in Volumes, FirstPartition, v.part < Sector24
  PROVE  BootSector = v.part
<1> DEFINE active == {i \in DOMAIN v.table : v.table[i].active}
           typed == {i \in DOMAIN v.table : v.table[i].type # 0}
           first == IF active # {} THEN Min(active) ELSE IF typed # {} THEN Min(typed) ELSE 0
<1>1. BootSector = IF first = 0 THEN 0 ELSE v.table[first].start % Sector24
  BY DEF BootSector
<1>2. v.part \in Nat /\ Sector24 \in Nat \ {0}
  BY VolumeFacts, VolumesAssumption
<1>3. \/ v.table = <<>> /\ v.part = 0
      \/ DOMAIN v.table = 1 .. 4
  BY VolumesAssumption DEF ProperVolume
<1>4. CASE v.table = <<>> /\ v.part = 0
  <2>1. DOMAIN v.table = {}
    BY <1>4
  <2>2. first = 0
    BY <2>1
  <2>3. QED
    BY <1>1, <1>4, <2>2
<1>5. CASE v.table # <<>> /\ DOMAIN v.table = 1 .. 4
  <2>1. PICK i \in 1 .. 4 :
          /\ v.table[i].start = v.part
          /\ \/ v.table[i].active /\ \A k \in 1 .. i - 1 : ~v.table[k].active
             \/ /\ \A k \in 1 .. 4 : ~v.table[k].active
                /\ v.table[i].type # 0 /\ \A k \in 1 .. i - 1 : v.table[k].type = 0
    BY <1>5 DEF FirstPartition
  <2>2. active \subseteq Int /\ typed \subseteq Int
    BY <1>5
  <2>3. first = i
    <3>1. CASE v.table[i].active /\ \A k \in 1 .. i - 1 : ~v.table[k].active
      <4>1. i \in active
        BY <1>5, <2>1, <3>1
      <4>2. \A k \in active : i <= k
        BY <1>5, <2>1, <3>1
      <4>3. Min(active) = i
        BY <2>2, <4>1, <4>2, MinIs
      <4>4. QED
        BY <4>1, <4>3
    <3>2. CASE /\ \A k \in 1 .. 4 : ~v.table[k].active
               /\ v.table[i].type # 0 /\ \A k \in 1 .. i - 1 : v.table[k].type = 0
      <4>1. active = {}
        BY <1>5, <3>2
      <4>2. i \in typed
        BY <1>5, <2>1, <3>2
      <4>3. \A k \in typed : i <= k
        BY <1>5, <2>1, <3>2
      <4>4. Min(typed) = i
        BY <2>2, <4>2, <4>3, MinIs
      <4>5. QED
        BY <4>1, <4>2, <4>4
    <3>3. QED
      BY <2>1, <3>1, <3>2
  <2>4. v.part % Sector24 = v.part
    BY <1>2
  <2> HIDE DEF first
  <2>5. first # 0 /\ v.table[first].start = v.part
    BY <2>1, <2>3
  <2>6. QED
    BY <1>1, <2>4, <2>5
<1>6. QED
  BY <1>3, <1>4, <1>5

\* What FAT_InitFiles found out, it found out from the volume.
KindInv ==
  /\ pc = "lost" => BootSector # v.part
  /\ pc \notin {"init", "lost"} =>
       disc.FileSystem = FileSystem(v.clusters - CeilDiv(v.part, v.sectorsPerCluster))

LEMMA KindStep == TypeInv /\ KindInv /\ [Next]_vars => KindInv'
<1> SUFFICES ASSUME TypeInv, KindInv, [Next]_vars PROVE KindInv'
  OBVIOUS
<1>1. CASE FAT_InitFiles
  <2>1. v' = v /\ pc' \in {"lost", "main"} /\ (pc' = "lost" => BootSector # v.part)
    BY <1>1 DEF FAT_InitFiles, card
  <2>2. pc' # "lost" =>
          disc'.FileSystem = FileSystem(v.clusters - CeilDiv(v.part, v.sectorsPerCluster))
    BY <1>1, Found DEF TypeInv
  <2>3. BootSector' = BootSector
    BY <2>1 DEF BootSector
  <2>4. QED
    BY <2>1, <2>2, <2>3 DEF KindInv
<1>2. CASE ~FAT_InitFiles
  <2>1. /\ UNCHANGED <<v, disc>>
        /\ pc' = "lost" => pc = "lost"
        /\ pc' \notin {"init", "lost"} => pc \notin {"init", "lost"}
    BY <1>2 DEF Next, Loops, UseStored, SearchStart, SearchTurn, Read, Seek, ReadFirst,
                ReadSectors, ReadLast, vars, card
  <2>2. BootSector' = BootSector
    BY <2>1 DEF BootSector
  <2>3. QED
    BY <2>1, <2>2 DEF KindInv
<1>3. QED
  BY <1>1, <1>2

\* FAT_InitFiles goes to the volume's boot sector and finds out the kind of its
\* FAT, whatever the volume: if its partition is the first one and starts below
\* sector 2^24, and if it has enough clusters above the limit.
THEOREM VolumeRecognised == Spec => []Recognised
<1>1. Init => KindInv
  BY DEF Init, KindInv
<1>2. TypeInv /\ KindInv => Recognised
  <2> SUFFICES ASSUME TypeInv, KindInv, pc # "init", FirstPartition, v.part < Sector24,
                      NEW seen, seen = v.clusters - CeilDiv(v.part, v.sectorsPerCluster),
                      seen >= IF v.fs = 12 THEN seen ELSE IF v.fs = 16 THEN Limit12 ELSE Limit16
               PROVE  pc # "lost" /\ KindKnown
    BY DEF Recognised
  <2>1. v \in Volumes
    BY DEF TypeInv, CardOK
  <2>2. pc # "lost"
    BY <2>1, FirstFound DEF KindInv
  <2>3. PICK n \in Int : n = seen /\ n <= v.clusters
    <3>1. CeilDiv(v.part, v.sectorsPerCluster) \in Nat /\ v.clusters \in Nat
      BY <2>1, Seen, VolumeFacts
    <3>2. QED
      BY <3>1
  <2>4. FileSystem(n) = v.fs
    BY <2>1, <2>3, Kind
  <2>5. QED
    BY <2>2, <2>3, <2>4 DEF KindInv, KindKnown
<1>3. QED
  BY <1>1, <1>2, TypeInit, TypeStep, KindStep, PTL DEF Spec

-----------------------------------------------------------------------------
\* Reading

\* The position of sector s of the k-th cluster of the file.
Position(k, s) == BYTES_PER_SECTOR * ((k - 1) * v.sectorsPerCluster + s)

\* A cluster further, and some sectors further.
LEMMA Positions ==
  ASSUME v \in Volumes, NEW k \in Nat, NEW s \in Nat, k > 0
  PROVE  /\ Position(k, s) \in Nat
         /\ Position(k, v.sectorsPerCluster) = Position(k + 1, 0)
         /\ Position(k, v.sectorsPerCluster) = k * ClusterBytes
         /\ \A n \in Nat : Position(k, s + n) = Position(k, s) + n * BYTES_PER_SECTOR
<1>1. PICK b \in Nat \ {0}, c \in Nat \ {0} :
        b = BYTES_PER_SECTOR /\ c = v.sectorsPerCluster
  BY VolumesAssumption, VolumeFacts
<1>2. PICK m \in Nat : m = (k - 1) * c
  BY <1>1, Product
<1>3. m + c = k * c /\ k * c \in Nat
  <2>1. ((k - 1) + 1) * c = (k - 1) * c + 1 * c
    BY <1>1, Distribute
  <2>2. (k - 1) + 1 = k /\ 1 * c = c
    BY <1>1
  <2>3. QED
    BY <1>1, <1>2, <2>1, <2>2, Product
<1>4. Position(k, s) = b * (m + s) /\ b * (m + s) \in Nat
  BY <1>1, <1>2, Product DEF Position
<1>5. Position(k, c) = b * (k * c)
  BY <1>1, <1>2, <1>3 DEF Position
<1>6. Position(k + 1, 0) = b * (k * c)
  <2>1. (k + 1) - 1 = k /\ k * c + 0 = k * c
    BY <1>3
  <2>2. QED
    BY <1>1, <2>1 DEF Position
<1>7. b * (k * c) = k * (b * c)
  <2>1. b * (k * c) = (b * k) * c /\ k * (b * c) = (k * b) * c /\ b * k = k * b
    BY <1>1, Distribute
  <2>2. QED
    BY <2>1
<1>8. ASSUME NEW n \in Nat
      PROVE  Position(k, s + n) = Position(k, s) + n * b
  <2>1. b * ((m + s) + n) = b * (m + s) + b * n /\ b * n = n * b
    BY <1>1, <1>2, Distribute
  <2>2. Position(k, s + n) = b * ((m + s) + n)
    BY <1>1, <1>2 DEF Position
  <2>3. QED
    BY <1>4, <2>1, <2>2
<1>9. QED
  BY <1>1, <1>4, <1>5, <1>6, <1>7, <1>8 DEF ClusterBytes

\* Where the sectors of the file's clusters are in the file.
LEMMA FileSector ==
  ASSUME CardOK, NEW k \in 1 .. ChainLen, NEW j \in 0 .. v.sectorsPerCluster - 1
  PROVE  FilePosition(ClusterStart(v, chain[k]) + j) = Position(k, j)
<1> DEFINE s == ClusterStart(v, chain[k]) + j
           at == {i \in DOMAIN chain :
                    s - ClusterStart(v, chain[i]) \in 0 .. v.sectorsPerCluster - 1}
<1>1. v \in Volumes
  BY DEF CardOK
<1>2. PICK c \in Nat \ {0}, d \in Int : c = v.sectorsPerCluster /\ d = DataStart(v)
  <2>1. v.sectorsPerCluster \in Nat \ {0}
    BY <1>1, VolumeFacts
  <2>2. DataStart(v) \in Int
    BY <1>1, VolumePlaces
  <2>3. QED
    BY <2>1, <2>2
<1>3. /\ DOMAIN chain = 1 .. ChainLen /\ ChainLen \in Nat
      /\ \A i \in 1 .. ChainLen : chain[i] \in Int
      /\ \A i, m \in 1 .. ChainLen : chain[i] = chain[m] => i = m
  BY ChainFacts, RootFacts
<1>4. \A i \in 1 .. ChainLen : ClusterStart(v, chain[i]) = c * (chain[i] - 2) + d
  <2>1. \A x \in Int : (x - 2) * c = c * (x - 2)
    BY <1>2, Distribute
  <2>2. QED
    BY <1>2, <1>3, <2>1 DEF ClusterStart, CLUSTER_FIRST
<1>5. s \in Int /\ \A i \in 1 .. ChainLen : ClusterStart(v, chain[i]) \in Int
  BY <1>1, <1>3, ClusterStartInt
<1>6. k \in at
  BY <1>2, <1>3, <1>5
<1>7. ASSUME NEW i \in at PROVE i = k
  <2>1. PICK r \in 0 .. c - 1 : r = s - ClusterStart(v, chain[i])
    BY <1>2, <1>7
  <2>2. PICK x \in Int, y \in Int : x = chain[i] - 2 /\ y = chain[k] - 2
    BY <1>3, <1>7
  <2>3. c * x \in Int /\ c * y \in Int
    BY <1>2, <2>2, Product
  <2>4. ClusterStart(v, chain[i]) = c * x + d /\ ClusterStart(v, chain[k]) = c * y + d
    BY <1>3, <1>4, <1>7, <2>2
  <2>5. c * x + r = c * y + j
    BY <1>2, <2>1, <2>3, <2>4
  <2>6. (c * x + r) \div c = x
    BY <1>2, <2>1, <2>2, DivUnique
  <2>7. (c * y + j) \div c = y
    BY <1>2, <2>2, DivUnique
  <2>8. chain[i] = chain[k]
    <3>1. x = y
      BY <2>5, <2>6, <2>7
    <3>2. chain[i] \in Int /\ chain[k] \in Int
      BY <1>3, <1>7
    <3>3. QED
      BY <2>2, <3>1, <3>2
  <2>9. QED
    BY <1>3, <1>7, <2>8
<1>8. (CHOOSE i \in at : TRUE) = k
  BY <1>6, <1>7
<1>9. FilePosition(s) =
        BYTES_PER_SECTOR * ((k - 1) * v.sectorsPerCluster + s - ClusterStart(v, chain[k]))
  BY <1>6, <1>8 DEF FilePosition
<1>10. (k - 1) * c \in Int
  BY <1>2, Product
<1>11. (k - 1) * c + s - ClusterStart(v, chain[k]) = (k - 1) * c + j
  BY <1>5, <1>10
<1>12. QED
  BY <1>2, <1>9, <1>11 DEF Position

\* What sectors of one cluster hold is the part of the file from their position on.
LEMMA BytesAt ==
  ASSUME TypeInv, pc \notin {"init", "lost"}, NEW k \in 1 .. ChainLen,
         NEW s \in Nat, NEW from \in Nat, NEW to \in Nat, from <= to,
         s * BYTES_PER_SECTOR + to <= v.sectorsPerCluster * BYTES_PER_SECTOR,
         NEW i \in 1 .. to - from
  PROVE  SectorBytes(chain[k], s, from, to)[i] = Position(k, s) + from + i - 1
<1>1. CardOK /\ v \in Volumes
  BY Sizes
<1>2. PICK b \in Nat \ {0}, c \in Nat \ {0} :
        b = BYTES_PER_SECTOR /\ c = v.sectorsPerCluster
  <2>1. v.sectorsPerCluster \in Nat \ {0}
    BY <1>1, VolumeFacts
  <2>2. QED
    BY <2>1, VolumesAssumption
<1>3. PICK x \in Nat : x = from + i - 1 /\ x < to
  OBVIOUS
<1>4. PICK q \in Nat, r \in 0 .. b - 1 : q = x \div b /\ r = x % b /\ x = b * q + r
  <2>1. x \in Int /\ x >= 0 /\ b \in Nat \ {0}
    BY <1>2, <1>3
  <2>2. x \div b \in Nat /\ x % b \in 0 .. b - 1 /\ x = b * (x \div b) + (x % b)
    BY <2>1, DivMod
  <2>3. QED
    BY <2>2
<1>5. s + q \in 0 .. c - 1
  <2>1. SUFFICES ASSUME c <= s + q PROVE FALSE
    BY <1>2, <1>4
  <2>2. b * c <= b * (s + q)
    BY <1>2, <1>4, <2>1
  <2>3. b * (s + q) = s * b + b * q /\ c * b = b * c
    BY <1>2, <1>4, Distribute
  <2>4. s * b \in Nat /\ b * q \in Nat /\ b * c \in Nat
    BY <1>2, <1>4, Product
  <2>5. s * b + to <= c * b /\ b * q <= x /\ x < to
    BY <1>2, <1>3, <1>4, <2>4
  <2>6. QED
    BY <1>3, <2>2, <2>3, <2>4, <2>5
<1>6. FAT_ClustToSect(chain[k]) = ClusterStart(v, chain[k])
  <2>1. disc.SecPerClus = v.sectorsPerCluster /\ disc.Data = DataStart(v)
    BY Sizes
  <2>2. disc.Data \in Int /\ (chain[k] - 2) * disc.SecPerClus \in Int
    <3>1. chain[k] - 2 \in Int /\ disc.SecPerClus \in Int /\ disc.Data \in Int
      <4>1. chain[k] \in Nat
        BY <1>1, ChainFacts, RootFacts
      <4>2. disc.SecPerClus \in Int /\ disc.Data \in Int
        BY DEF TypeInv, TypeOK
      <4>3. QED
        BY <4>1, <4>2
    <3>2. QED
      BY <3>1, Product
  <2>3. QED
    BY <2>1, <2>2 DEF FAT_ClustToSect, ClusterStart, CLUSTER_FIRST
<1>7. PICK start \in Int : start = ClusterStart(v, chain[k])
  <2>1. chain[k] \in Int
    BY <1>1, ChainFacts, RootFacts
  <2>2. QED
    BY <1>1, <2>1, ClusterStartInt
<1>8. SectorBytes(chain[k], s, from, to)[i] = FileByte(s + q + start, r)
  BY <1>2, <1>3, <1>4, <1>6, <1>7 DEF SectorBytes
<1>9. FilePosition(start + (s + q)) = Position(k, s + q)
  BY <1>1, <1>2, <1>5, <1>7, FileSector
<1>10. Position(k, s + q) = Position(k, s) + q * b /\ Position(k, s) \in Nat
  <2>1. k \in Nat /\ k > 0
    BY <1>1, ChainFacts
  <2>2. /\ Position(k, s) \in Nat
        /\ \A n \in Nat : Position(k, s + n) = Position(k, s) + n * BYTES_PER_SECTOR
    BY <1>1, <2>1, Positions
  <2>3. QED
    BY <1>2, <1>4, <2>2
<1>11. q * b = b * q /\ q * b \in Nat
  BY <1>2, <1>4, Distribute, Product
<1>12. FilePosition(s + q + start) = Position(k, s) + q * b
  <2>1. s + q + start = start + (s + q)
    BY <1>4, <1>7
  <2>2. QED
    BY <1>9, <1>10, <2>1
<1>13. FileByte(s + q + start, r) = Position(k, s) + q * b + r
  <2>1. Position(k, s) + q * b >= 0
    BY <1>10, <1>11
  <2>2. Position(k, s) + q * b # Junk
    BY <1>10, <1>11, <2>1 DEF Junk
  <2>3. QED
    BY <1>12, <2>2 DEF FileByte
<1>14. QED
  BY <1>3, <1>4, <1>8, <1>10, <1>11, <1>13

\* A reader that understood the volume follows the FAT in use.
LEMMA Known ==
  ASSUME TypeInv, Understood, pc \notin {"init", "lost"}
  PROVE  FatKnown
<1>1. v \in Volumes /\ CardOK
  BY DEF TypeInv, CardOK
<1>2. disc.FAT = FatStart(v, 0) /\ disc.FAT = FatStart(v, v.active) /\ disc.FileSystem = v.fs
  BY DEF TypeInv, DiscInv, Understood, KindKnown
<1>3. PICK n \in Nat \ {0}, a \in Nat, p \in Nat :
        n = SectorsPerFAT(v) /\ a = v.active /\ p = v.part + v.reservedSectors
  <2>1. SectorsPerFAT(v) \in Nat \ {0}
    BY <1>1, VolumePlaces
  <2>2. v.active \in Nat /\ v.part + v.reservedSectors \in Nat
    BY <1>1, VolumeFacts
  <2>3. QED
    BY <2>1, <2>2
<1>4. p + 0 * n = p + a * n
  BY <1>2, <1>3 DEF FatStart
<1>5. a = 0
  <2>1. SUFFICES ASSUME 0 < a PROVE FALSE
    BY <1>3
  <2>2. n * 0 + n <= n * a
    BY <1>3, <2>1, Apart
  <2>3. n * 0 = 0 /\ 0 * n = 0 /\ n * a = a * n /\ a * n \in Nat
    BY <1>3, Distribute, Product
  <2>4. QED
    BY <1>3, <1>4, <2>2, <2>3
<1>6. QED
  BY <1>1, <1>2, <1>3, <1>5 DEF FatKnown

\* A step that leaves the card and what is known of it alone.
LEMMA SameKnown ==
  ASSUME UNCHANGED <<card, disc>>
  PROVE  /\ Understood' <=> Understood
         /\ ClusterBytes' = ClusterBytes /\ FileBytes' = FileBytes
         /\ v' = v /\ chain' = chain /\ dir' = dir /\ disc' = disc
BY DEF card, Understood, KindKnown, FatStart, SectorsPerFAT, ClusterBytes, FileBytes

\* The sizes are numbers, and a request starts in one of the file's clusters.
LEMMA ReadSizes ==
  ASSUME TypeInv, pc \notin {"init", "lost"}
  PROVE  /\ ClusterBytes \in Nat \ {0} /\ FileBytes \in Nat
         /\ BytePerClus = ClusterBytes
         /\ rd.start < FileBytes => rd.start \div ClusterBytes < ChainLen
<1>1. ClusterBytes \in Nat \ {0} /\ BytePerClus = ClusterBytes
  BY Sizes
<1>2. PICK p \in Nat \ {0}, n \in Nat \ {0}, s \in Nat :
        p = ClusterBytes /\ n = ChainLen /\ s = rd.start
  <2>1. rd.start \in Nat
    BY DEF TypeInv, TypeOK
  <2>2. ChainLen \in Nat \ {0}
    BY VolumesAssumption
  <2>3. QED
    BY <1>1, <2>1, <2>2
<1>3. FileBytes = n * p /\ n * p \in Nat
  BY <1>2, Product DEF FileBytes
<1>4. ASSUME s < n * p PROVE s \div p < n
  <2>1. PICK q \in Int : q = s \div p /\ p * q <= s
    <3>1. s \div p \in Nat /\ p * (s \div p) <= s
      BY <1>2, DivNat
    <3>2. QED
      BY <3>1
  <2>2. SUFFICES ASSUME n <= q PROVE FALSE
    BY <1>2, <2>1
  <2>3. p * n <= p * q
    BY <1>2, <2>1, <2>2
  <2>4. p * n = n * p /\ p * q \in Int
    BY <1>2, <2>1, Distribute, Product
  <2>5. QED
    BY <1>2, <1>3, <1>4, <2>1, <2>3, <2>4
<1>5. QED
  BY <1>1, <1>2, <1>3, <1>4

\* Before the read: the cluster is the stored one.
LEMMA ReadBefore ==
  ASSUME TypeInv, ReadInv, FAT_InitFiles \/ UseStored \/ SearchStart \/ SearchTurn
  PROVE  ReadInv'
<1>1. CASE FAT_InitFiles
  <2>1. /\ UNCHANGED <<card, cluster, buffer>> /\ pc = "init" /\ pc' \in {"lost", "main"}
    BY <1>1 DEF FAT_InitFiles
  <2>2. buffer' = <<>>
    BY <2>1 DEF TypeInv, BufferInv
  <2>3. QED
    BY <2>1, <2>2 DEF ReadInv, card
<1>2. CASE UseStored \/ SearchStart \/ SearchTurn
  <2>1. /\ UNCHANGED <<card, disc, rd, buffer>> /\ pc \in {"main", "search"}
        /\ pc' \in {"ready", "search", "found", "failed"}
        /\ pc' = "ready" => /\ pc = "main" /\ cluster' = cluster
                            /\ cluster >= CLUSTER_FIRST /\ cluster < CLUSTER_EOF
    BY <1>2 DEF UseStored, SearchStart, SearchTurn
  <2>2. buffer' = <<>>
    BY <2>1 DEF TypeInv, BufferInv
  <2>3. pc' = "ready" => cluster' = chain'[1]
    BY <2>1, SMT DEF ReadInv, card, CLUSTER_FREE, CLUSTER_FIRST, CLUSTER_EOF
  <2>4. QED
    BY <2>1, <2>2, <2>3 DEF ReadInv
<1>3. QED
  BY <1>1, <1>2

\* A read starts at the first cluster.
LEMMA ReadStart ==
  ASSUME TypeInv, ReadInv, NEW r \in Requests, Read(r[1], r[2])
  PROVE  ReadInv'
<1>1. /\ UNCHANGED <<card, cluster, searched, disc, wrk, buffer>>
      /\ pc = "ready" /\ pc' = "seek"
      /\ r[1] < ChainLen * BytePerClus /\ r[1] + r[2] <= ChainLen * BytePerClus
      /\ rd' = [start |-> r[1], length |-> r[2], chunks |-> r[1] \div BytePerClus,
                curSect |-> 0]
  BY DEF Read
<1>2. buffer' = <<>>
  BY <1>1 DEF TypeInv, BufferInv
<1>3. BytePerClus = ClusterBytes /\ ClusterBytes \in Nat \ {0}
  BY <1>1, ReadSizes
<1>4. rd'.start < FileBytes /\ rd'.start + rd'.length <= FileBytes
  BY <1>1, <1>3 DEF FileBytes
<1>5. Understood => SeekAt(1)'
  <2>1. r[1] \in Nat
    BY RequestsAssumption
  <2>2. PICK q \in Int : q = r[1] \div ClusterBytes
    <3>1. r[1] \div ClusterBytes \in Nat
      BY <1>3, <2>1, DivNat
    <3>2. QED
      BY <3>1
  <2>3. rd'.chunks = q /\ rd'.start = r[1] /\ 1 - 1 + q = q
    BY <1>1, <1>3, <2>2
  <2>4. Understood => cluster' = chain'[1]
    BY <1>1 DEF ReadInv, card
  <2>5. QED
    BY <1>1, <2>2, <2>3, <2>4, SameKnown DEF SeekAt
<1>6. 1 \in 1 .. ChainLen
  BY VolumesAssumption
<1>7. QED
  BY <1>1, <1>2, <1>4, <1>5, <1>6, SameKnown DEF ReadInv

\* It follows the chain from one cluster to the next.
LEMMA ReadSeek ==
  ASSUME TypeInv, ReadInv, Seek
  PROVE  ReadInv'
<1>1. /\ UNCHANGED <<card, disc, buffer>>
      /\ pc = "seek" /\ pc' = "seek" /\ cluster' = FAT_NextCluster(cluster)
      /\ rd' = [rd EXCEPT !.chunks = @ - 1] /\ rd.chunks > 0
  BY DEF Seek
<1>2. buffer' = <<>>
  BY <1>1 DEF TypeInv, BufferInv
<1>3. rd \in [start : Nat, length : Nat, chunks : Nat, curSect : Nat]
  BY DEF TypeInv, TypeOK
<1>4. rd'.start = rd.start /\ rd'.length = rd.length /\ rd'.chunks = rd.chunks - 1
  BY <1>1, <1>3
<1>5. ASSUME Understood
      PROVE  \E k \in 1 .. ChainLen : SeekAt(k)'
  <2>1. PICK k \in 1 .. ChainLen : SeekAt(k)
    BY <1>1, <1>5 DEF ReadInv
  <2>2. rd.start \div ClusterBytes < ChainLen
    BY <1>1, <1>5, ReadSizes DEF ReadInv
  <2>3. ChainLen \in Nat
    BY VolumesAssumption
  <2>4. k < ChainLen
    BY <1>1, <1>3, <2>1, <2>2, <2>3 DEF SeekAt
  <2>5. cluster' = chain[k + 1]
    BY <1>1, <1>5, <2>1, <2>4, Known, NextOfChain DEF SeekAt
  <2>6. (k + 1) - 1 + (rd.chunks - 1) = k - 1 + rd.chunks
    BY <1>3
  <2>7. SeekAt(k + 1)'
    BY <1>1, <1>4, <2>1, <2>5, <2>6, SameKnown DEF SeekAt
  <2>8. k + 1 \in 1 .. ChainLen
    BY <2>3, <2>4
  <2>9. QED
    BY <2>7, <2>8
<1>6. QED
  BY <1>1, <1>2, <1>4, <1>5, SameKnown DEF ReadInv

\* Where the bytes up to the first sector boundary are: in sector u of the k-th
\* cluster, from its byte w on.
LEMMA FirstPlace ==
  ASSUME TypeInv, pc = "seek", NEW k \in 1 .. ChainLen, k - 1 = rd.start \div ClusterBytes
  PROVE  /\ FirstSector \in 0 .. v.sectorsPerCluster - 1
         /\ rd.start = Position(k, FirstSector) + FirstByte
<1>1. v \in Volumes /\ BytePerClus = ClusterBytes
  BY Sizes
<1>2. PICK b \in Nat \ {0}, c \in Nat \ {0} :
        b = BYTES_PER_SECTOR /\ c = v.sectorsPerCluster
  <2>1. v.sectorsPerCluster \in Nat \ {0}
    BY <1>1, VolumeFacts
  <2>2. QED
    BY <2>1, VolumesAssumption
<1>3. PICK s \in Nat, p \in Nat \ {0} : s = rd.start /\ p = b * c /\ p = ClusterBytes
  <2>1. rd.start \in Nat
    BY DEF TypeInv, TypeOK
  <2>2. ClusterBytes \in Nat \ {0} /\ ClusterBytes = b * c
    BY <1>2, Sizes DEF ClusterBytes
  <2>3. QED
    BY <2>1, <2>2
<1>4. PICK q \in Nat, t \in Nat :
        q = s \div p /\ t = s % p /\ t < p /\ s = p * q + t /\ p * q \in Nat
  <2>1. s \div p \in Nat /\ s % p \in 0 .. p - 1 /\ s = p * (s \div p) + (s % p)
        /\ p * (s \div p) \in Nat
    BY DivNat
  <2>2. QED
    BY <2>1
<1>5. PICK u \in Nat, w \in 0 .. b - 1 :
        u = t \div b /\ w = t % b /\ t = b * u + w /\ b * u \in Nat
  <2>1. t \div b \in Nat /\ t % b \in 0 .. b - 1 /\ t = b * (t \div b) + (t % b)
        /\ b * (t \div b) \in Nat
    BY DivNat
  <2>2. QED
    BY <2>1
<1>6. u < c
  <2>1. SUFFICES ASSUME c <= u PROVE FALSE
    OBVIOUS
  <2>2. b * c <= b * u
    BY <2>1
  <2>3. QED
    BY <1>3, <1>4, <1>5, <2>2
<1>7. PICK m \in Nat : m = q * c /\ p * q = b * m
  <2>1. p * q = b * (c * q) /\ c * q = q * c
    BY <1>3, Distribute
  <2>2. q * c \in Nat
    BY Product
  <2>3. QED
    BY <2>1, <2>2
<1>8. s = b * (m + u) + w /\ b * (m + u) \in Nat
  <2>1. b * (m + u) = b * m + b * u
    BY Distribute
  <2>2. b * m \in Nat
    BY Product
  <2>3. QED
    BY <1>4, <1>5, <1>7, <2>1, <2>2
<1>9. s % b = w
  <2>1. (b * (m + u) + w) % b = w
    BY DivUnique
  <2>2. QED
    BY <1>8, <2>1
<1>10. FirstSector = u /\ FirstByte = w
  BY <1>1, <1>2, <1>3, <1>4, <1>5, <1>9 DEF FirstSector, FirstByte
<1>11. Position(k, u) = b * (m + u)
  <2>1. k - 1 = q
    BY <1>3, <1>4
  <2>2. QED
    BY <1>2, <1>7, <2>1 DEF Position
<1>12. QED
  BY <1>2, <1>3, <1>6, <1>8, <1>10, <1>11

\* The part up to the first sector boundary is the file's.
LEMMA ReadToSector ==
  ASSUME TypeInv, ReadInv, ReadFirst
  PROVE  ReadInv'
<1>1. /\ UNCHANGED <<card, cluster, searched, disc, wrk>>
      /\ pc = "seek" /\ pc' = "sectors" /\ rd.chunks = 0
      /\ buffer' = SectorBytes(cluster, FirstSector, FirstByte, FirstByte + FirstBytes)
      /\ rd' = [rd EXCEPT !.curSect = FirstSector + 1,
                          !.chunks = (rd.length - FirstBytes) \div BYTES_PER_SECTOR]
  BY DEF ReadFirst, FirstSector, FirstByte, FirstBytes
<1>2. /\ rd'.start = rd.start /\ rd'.length = rd.length /\ rd'.curSect = FirstSector + 1
      /\ rd'.chunks = (rd.length - FirstBytes) \div BYTES_PER_SECTOR
      /\ rd.start \in Nat /\ rd.length \in Nat
  BY <1>1 DEF TypeInv, TypeOK
<1>3. /\ FirstSector \in Nat /\ FirstByte \in Nat /\ FirstBytes \in Nat
      /\ FirstByte + FirstBytes <= BYTES_PER_SECTOR
  BY <1>1, FirstFacts
<1>4. Len(buffer') = FirstBytes /\ DOMAIN buffer' = 1 .. FirstBytes
  <2>1. FirstByte + FirstBytes - FirstByte = FirstBytes
    BY <1>3
  <2>2. buffer' \in Seq(Int) /\ Len(buffer') = FirstBytes
    <3>1. CardOK /\ disc.SecPerClus \in Nat /\ disc.Data \in Nat /\ cluster \in Nat
      BY DEF TypeInv, TypeOK
    <3>2. FirstByte + FirstBytes \in Nat /\ FirstByte <= FirstByte + FirstBytes
      BY <1>3
    <3>3. QED
      BY <1>1, <1>3, <2>1, <3>1, <3>2, SectorSeq
  <2>3. QED
    BY <2>2
<1>5. ASSUME Understood
      PROVE  /\ \E k \in 1 .. ChainLen : ReadAt(k)'
             /\ \A i \in 1 .. FirstBytes : buffer'[i] = rd.start + i - 1
  <2>1. PICK k \in 1 .. ChainLen : cluster = chain[k] /\ k - 1 = rd.start \div ClusterBytes
    <3>1. PICK k \in 1 .. ChainLen : SeekAt(k)
      BY <1>1, <1>5 DEF ReadInv
    <3>2. k - 1 + 0 = k - 1
      BY VolumesAssumption
    <3>3. QED
      BY <1>1, <3>1, <3>2 DEF SeekAt
  <2>2. /\ FirstSector \in 0 .. v.sectorsPerCluster - 1
        /\ rd.start = Position(k, FirstSector) + FirstByte
    BY <1>1, <2>1, FirstPlace
  <2>3. PICK b \in Nat \ {0}, c \in Nat \ {0} :
          b = BYTES_PER_SECTOR /\ c = v.sectorsPerCluster /\ v \in Volumes
    BY <1>1, Sizes
  <2>4. k \in Nat /\ k > 0
    BY VolumesAssumption
  <2>5. PICK p \in Nat : p = Position(k, FirstSector) /\ Position(k, FirstSector + 1) = p + b
    <3>1. /\ Position(k, FirstSector) \in Nat
          /\ \A n \in Nat : Position(k, FirstSector + n)
                             = Position(k, FirstSector) + n * BYTES_PER_SECTOR
      BY <1>3, <2>3, <2>4, Positions
    <3>2. 1 * BYTES_PER_SECTOR = b
      BY <2>3
    <3>3. QED
      BY <3>1, <3>2
  <2>6. ASSUME NEW i \in 1 .. FirstBytes PROVE buffer'[i] = rd.start + i - 1
    <3>1. FirstSector * BYTES_PER_SECTOR + (FirstByte + FirstBytes)
            <= v.sectorsPerCluster * BYTES_PER_SECTOR
      <4>1. PICK u \in Nat : u = FirstSector /\ u < c
        BY <1>3, <2>2, <2>3
      <4>2. b * u + b <= b * c
        BY <4>1, Apart
      <4>3. b * u = u * b /\ b * c = c * b /\ u * b \in Nat /\ c * b \in Nat
        BY <2>3, <4>1, Distribute, Product
      <4>4. QED
        BY <1>3, <2>3, <4>1, <4>2, <4>3
    <3>2. PICK f \in Nat, t \in Nat :
            f = FirstByte /\ t = FirstByte + FirstBytes /\ f <= t /\ i \in 1 .. t - f
      BY <1>3
    <3>3. SectorBytes(chain[k], FirstSector, f, t)[i] = Position(k, FirstSector) + f + i - 1
      BY <1>1, <1>3, <3>1, <3>2, BytesAt
    <3>4. QED
      BY <1>1, <1>3, <2>1, <2>2, <2>5, <3>2, <3>3
  <2>7. ReadAt(k)'
    <3>1. cluster' = chain'[k]
      BY <1>1, <2>1 DEF card
    <3>2. rd'.curSect \in 1 .. v'.sectorsPerCluster
      BY <1>1, <1>2, <1>3, <2>2, <2>3 DEF card
    <3>3. \/ Len(buffer') = rd'.length
          \/ Position(k, rd.curSect)' = rd'.start + Len(buffer')
      <4>1. CASE FirstBytes = rd.length
        BY <1>2, <1>4, <4>1
      <4>2. CASE FirstBytes = BYTES_PER_SECTOR - FirstByte
        <5>1. Position(k, FirstSector + 1) = rd.start + FirstBytes
          BY <1>2, <1>3, <2>2, <2>3, <2>5, <4>2
        <5>2. Position(k, rd.curSect)' = Position(k, FirstSector + 1)
          BY <1>1, <1>2 DEF Position, card
        <5>3. QED
          BY <1>2, <1>4, <5>1, <5>2
      <4>3. QED
        BY <4>1, <4>2 DEF FirstBytes
    <3>4. rd'.chunks = (rd'.length - Len(buffer')) \div BYTES_PER_SECTOR
      BY <1>2, <1>4
    <3>5. QED
      BY <3>1, <3>2, <3>3, <3>4 DEF ReadAt, Position
  <2>8. QED
    BY <2>6, <2>7
<1>6. Understood => rd.start < FileBytes /\ rd.start + rd.length <= FileBytes
  BY <1>1 DEF ReadInv
<1>7. QED
  BY <1>1, <1>2, <1>4, <1>5, <1>6, SameKnown DEF ReadInv

\* The next sector holds the next byte of the file, and there is one.
LEMMA FollowingAt ==
  ASSUME TypeInv, ReadInv, Understood, pc = "sectors", Len(buffer) < rd.length
  PROVE  \E j \in 1 .. ChainLen :
           /\ Following.cluster = chain[j]
           /\ Position(j, Following.sector) = rd.start + Len(buffer)
<1>1. v \in Volumes /\ disc.SecPerClus = v.sectorsPerCluster
  BY Sizes
<1>2. PICK k \in 1 .. ChainLen : ReadAt(k)
  BY DEF ReadInv
<1>3. PICK c \in Nat \ {0} : c = v.sectorsPerCluster
  BY <1>1, VolumeFacts
<1>4. /\ cluster = chain[k] /\ rd.curSect \in 1 .. c
      /\ Position(k, rd.curSect) = rd.start + Len(buffer)
  BY <1>2, <1>3 DEF ReadAt, Position
<1>5. CASE rd.curSect < c
  BY <1>1, <1>3, <1>4, <1>5 DEF Following
<1>6. CASE rd.curSect = c
  <2>1. k \in Nat /\ k > 0 /\ ChainLen \in Nat
    BY VolumesAssumption
  <2>2. 0 \in Nat
    OBVIOUS
  <2>3. Position(k, c) = Position(k + 1, 0) /\ Position(k, c) = k * ClusterBytes
    BY <1>1, <1>3, <2>1, <2>2, Positions
  <2>4. k < ChainLen
    <3>1. PICK p \in Nat \ {0} : p = ClusterBytes
      BY Sizes
    <3>2. FileBytes = ChainLen * p /\ ChainLen * p \in Nat /\ k * p \in Nat
      BY <2>1, <3>1, Product DEF FileBytes
    <3>3. k * p < ChainLen * p
      <4>1. rd.start + rd.length <= FileBytes
        BY DEF ReadInv
      <4>2. rd.start \in Nat /\ rd.length \in Nat /\ Len(buffer) \in Nat
        BY DEF TypeInv, TypeOK, BufferInv
      <4>3. k * p = rd.start + Len(buffer)
        BY <1>4, <1>6, <2>3, <3>1
      <4>4. QED
        BY <3>2, <4>1, <4>2, <4>3
    <3>4. SUFFICES ASSUME ChainLen <= k PROVE FALSE
      BY <2>1
    <3>5. p * ChainLen <= p * k /\ p * k = k * p /\ p * ChainLen = ChainLen * p
      BY <2>1, <3>4, Distribute
    <3>6. QED
      BY <3>2, <3>3, <3>5
  <2>5. FAT_NextCluster(cluster) = chain[k + 1]
    BY <1>4, <2>4, Known, NextOfChain
  <2>6. Following = [cluster |-> chain[k + 1], sector |-> 0]
    BY <1>1, <1>3, <1>6, <2>5 DEF Following
  <2>7. k + 1 \in 1 .. ChainLen /\ Position(k + 1, 0) = rd.start + Len(buffer)
    BY <1>4, <1>6, <2>1, <2>3, <2>4
  <2>8. QED
    BY <2>6, <2>7
<1>7. QED
  BY <1>3, <1>4, <1>5, <1>6

\* So what is appended from it are the next bytes of the file.
LEMMA Appended ==
  ASSUME TypeInv, ReadInv, Understood, pc = "sectors", Len(buffer) < rd.length,
         NEW n \in Nat,
         Following.sector * BYTES_PER_SECTOR + n <= v.sectorsPerCluster * BYTES_PER_SECTOR,
         NEW bytes \in Seq(Int),
         bytes = SectorBytes(Following.cluster, Following.sector, 0, n), Len(bytes) = n
  PROVE  \A i \in DOMAIN (buffer \o bytes) : (buffer \o bytes)[i] = rd.start + i - 1
<1>1. PICK j \in 1 .. ChainLen :
        /\ Following.cluster = chain[j]
        /\ Position(j, Following.sector) = rd.start + Len(buffer)
  BY FollowingAt
<1>2. PICK s \in Nat, f \in Nat : s = Following.sector /\ f = 0 /\ f <= n
  BY FollowingOK
<1>3. PICK u \in Seq(Int), l \in Nat, st \in Nat : u = buffer /\ l = Len(u) /\ st = rd.start
  BY DEF TypeInv, TypeOK, BufferInv
<1>4. /\ u \o bytes \in Seq(Int) /\ Len(u \o bytes) = l + Len(bytes)
      /\ \A i \in 1 .. l : (u \o bytes)[i] = u[i]
      /\ \A i \in 1 .. Len(bytes) : (u \o bytes)[l + i] = bytes[i]
  BY <1>3, Concat
<1>5. ASSUME NEW i \in 1 .. n PROVE bytes[i] = st + l + i - 1
  <2>1. i \in 1 .. n - f
    BY <1>2
  <2>2. SectorBytes(chain[j], s, f, n)[i] = Position(j, s) + f + i - 1
    BY <1>2, <2>1, BytesAt
  <2>3. Position(j, s) = st + l
    BY <1>1, <1>2, <1>3
  <2>4. QED
    BY <1>1, <1>2, <2>2, <2>3
<1>6. ASSUME NEW i \in 1 .. l PROVE u[i] = st + i - 1
  BY <1>3 DEF ReadInv
<1>7. ASSUME NEW i \in 1 .. l + n PROVE (u \o bytes)[i] = st + i - 1
  <2>1. CASE i <= l
    BY <1>4, <1>6, <2>1
  <2>2. CASE l < i
    <3>1. PICK m \in 1 .. n : i = l + m
      <4>1. i - l \in 1 .. n /\ i = l + (i - l)
        BY <2>2
      <4>2. QED
        BY <4>1
    <3>2. bytes[m] = st + l + m - 1
      BY <1>5
    <3>3. (u \o bytes)[l + m] = bytes[m]
      <4>1. 1 .. Len(bytes) = 1 .. n
        OBVIOUS
      <4>2. m \in 1 .. Len(bytes)
        BY <4>1
      <4>3. QED
        BY <1>4, <4>2
    <3>4. st + l + m - 1 = st + (l + m) - 1
      OBVIOUS
    <3>5. QED
      BY <3>1, <3>2, <3>3, <3>4
  <2>3. i <= l \/ l < i
    OBVIOUS
  <2>4. QED
    BY <2>1, <2>2, <2>3, Zenon
<1>8. DOMAIN (u \o bytes) = 1 .. l + n
  <2>1. l + Len(bytes) = l + n
    OBVIOUS
  <2>2. DOMAIN (u \o bytes) = 1 .. Len(u \o bytes)
    BY <1>4
  <2>3. QED
    BY <1>4, <2>1, <2>2, Zenon
<1>9. QED
  BY <1>3, <1>7, <1>8

\* The whole sectors of a cluster are the file's.
LEMMA ReadWhole ==
  ASSUME TypeInv, ReadInv, ReadSectors
  PROVE  ReadInv'
<1>1. /\ pc = "sectors" /\ Following.sector \in Nat /\ Following.sector < disc.SecPerClus
      /\ Count \in Nat \ {0} /\ Count <= rd.chunks
      /\ Following.sector + Count <= disc.SecPerClus /\ cluster' = Following.cluster
      /\ UNCHANGED <<card, searched, disc, pc, wrk>>
  BY CountFacts, FollowingOK
<1>2. PICK b \in Nat \ {0}, c \in Nat \ {0} :
        b = BYTES_PER_SECTOR /\ c = v.sectorsPerCluster /\ c = disc.SecPerClus /\ v \in Volumes
  BY <1>1, Sizes
<1>3. PICK n \in Nat \ {0}, s \in Nat, m \in Nat :
        n = Count /\ s = Following.sector /\ m = n * b /\ s + n <= c
  BY <1>1, <1>2, Product
<1>4. PICK bytes \in Seq(Int) :
        bytes = SectorBytes(Following.cluster, Following.sector, 0, m) /\ Len(bytes) = m
  BY <1>1, NextBytes
<1>5. buffer' = buffer \o bytes
  BY <1>2, <1>3, <1>4, CountFacts
<1>6. PICK l \in Nat : l = Len(buffer) /\ Len(buffer') = l + m
  <2>1. buffer \in Seq(Int)
    BY DEF TypeInv, BufferInv
  <2>2. Len(buffer \o bytes) = Len(buffer) + Len(bytes) /\ Len(buffer) \in Nat
    BY <2>1, Concat
  <2>3. QED
    BY <1>4, <1>5, <2>2
<1>7. /\ rd'.curSect = s + n /\ rd'.chunks = rd.chunks - n
      /\ rd'.start = rd.start /\ rd'.length = rd.length
      /\ rd.start \in Nat /\ rd.length \in Nat /\ rd.chunks \in Nat
  BY <1>3, CountFacts DEF TypeInv, TypeOK
<1>8. b * rd.chunks \in Nat /\ l + b * rd.chunks <= rd.length /\ b * n <= b * rd.chunks
      /\ b * n = m
  <2>1. b * rd.chunks \in Nat /\ b * n = n * b
    BY <1>2, <1>3, <1>7, Product, Distribute
  <2>2. l + b * rd.chunks <= rd.length
    BY <1>1, <1>2, <1>6 DEF TypeInv, BufferInv
  <2>3. b * n <= b * rd.chunks
    <3>1. PICK x \in Nat : x = rd.chunks /\ n <= x
      BY <1>1, <1>3, <1>7
    <3>2. b * n <= b * x
      BY <3>1, Monotone
    <3>3. QED
      BY <3>1, <3>2
  <2>4. QED
    BY <1>3, <2>1, <2>2, <2>3
<1>9. m > 0
  <2>1. b * 0 + b <= b * n /\ b * 0 = 0
    BY Apart
  <2>2. QED
    BY <1>8, <2>1
<1>10. l < rd.length
  BY <1>6, <1>7, <1>8, <1>9
<1>11. ASSUME Understood
       PROVE  /\ \E k \in 1 .. ChainLen : ReadAt(k)'
              /\ \A i \in DOMAIN buffer' : buffer'[i] = rd.start + i - 1
  <2>1. PICK j \in 1 .. ChainLen :
          Following.cluster = chain[j] /\ Position(j, Following.sector) = rd.start + Len(buffer)
    BY <1>1, <1>6, <1>10, <1>11, FollowingAt
  <2>2. \A i \in DOMAIN buffer' : buffer'[i] = rd.start + i - 1
    <3>1. s * b + m <= c * b
      <4>1. b * (s + n) <= b * c
        BY <1>3
      <4>2. b * (s + n) = s * b + m /\ b * c = c * b
        BY <1>3, Distribute
      <4>3. QED
        BY <4>1, <4>2
    <3>2. QED
      BY <1>1, <1>2, <1>3, <1>4, <1>5, <1>6, <1>10, <1>11, <3>1, Appended
  <2>3. Position(j, s + n) = rd.start + (l + m)
    <3>1. j \in Nat /\ j > 0
      BY VolumesAssumption
    <3>2. \A x \in Nat : Position(j, s + x) = Position(j, s) + x * BYTES_PER_SECTOR
      BY <1>2, <3>1, Positions
    <3>3. Position(j, s + n) = Position(j, s) + n * b
      BY <1>2, <3>2
    <3>4. QED
      BY <1>3, <1>6, <1>7, <2>1, <3>3
  <2>4. rd.chunks - n = (rd.length - (l + m)) \div b
    <3>1. PICK k \in 1 .. ChainLen : ReadAt(k)
      BY <1>1, <1>11 DEF ReadInv
    <3>2. PICK x \in Nat, y \in Nat :
            x = rd.length - l /\ y = rd.chunks /\ y = x \div b
      BY <1>2, <1>6, <1>7, <1>10, <3>1 DEF ReadAt
    <3>3. PICK r \in 0 .. b - 1 : x = b * y + r
      <4>1. x % b \in 0 .. b - 1 /\ x = b * (x \div b) + (x % b)
        BY DivNat
      <4>2. QED
        BY <3>2, <4>1
    <3>4. b * y = b * (y - n) + b * n /\ b * (y - n) \in Int /\ b * n \in Int
      <4>1. y - n \in Int /\ y = (y - n) + n
        OBVIOUS
      <4>2. b * ((y - n) + n) = b * (y - n) + b * n
        BY <4>1, Distribute
      <4>3. QED
        BY <4>1, <4>2, Product
    <3>5. rd.length - (l + m) = b * (y - n) + r
      <4>1. rd.length = l + x
        BY <1>7, <3>2
      <4>2. b * y = b * (y - n) + m
        BY <1>8, <3>4
      <4>3. QED
        BY <3>3, <3>4, <4>1, <4>2
    <3>6. (b * (y - n) + r) \div b = y - n
      <4>1. PICK q \in Int : q = y - n
        OBVIOUS
      <4>2. (b * q + r) \div b = q
        BY DivUnique
      <4>3. QED
        BY <4>1, <4>2
    <3>7. QED
      BY <3>2, <3>5, <3>6
  <2>5. ReadAt(j)'
    <3>1. cluster' = chain'[j]
      BY <1>1, <2>1 DEF card
    <3>2. rd'.curSect \in 1 .. v'.sectorsPerCluster
      BY <1>1, <1>2, <1>3, <1>7 DEF card
    <3>3. Position(j, rd.curSect)' = rd'.start + Len(buffer')
      <4>1. Position(j, rd.curSect)' = Position(j, s + n)
        BY <1>1, <1>7 DEF Position, card
      <4>2. QED
        BY <1>6, <1>7, <2>3, <4>1
    <3>4. rd'.chunks = (rd'.length - Len(buffer')) \div BYTES_PER_SECTOR
      BY <1>2, <1>6, <1>7, <2>4
    <3>5. QED
      BY <3>1, <3>2, <3>3, <3>4 DEF ReadAt, Position
  <2>6. QED
    BY <2>2, <2>5
<1>12. Understood => rd.start < FileBytes /\ rd.start + rd.length <= FileBytes
  BY <1>1 DEF ReadInv
<1>13. QED
  BY <1>1, <1>7, <1>11, <1>12, SameKnown DEF ReadInv

\* So are the bytes left over.
LEMMA ReadRest ==
  ASSUME TypeInv, ReadInv, ReadLast
  PROVE  ReadInv'
<1>1. /\ pc = "sectors" /\ rd.chunks = 0 /\ pc' = "done"
      /\ UNCHANGED <<card, searched, disc, wrk, rd>>
  BY DEF ReadLast
<1>2. PICK b \in Nat \ {0}, c \in Nat \ {0} :
        b = BYTES_PER_SECTOR /\ c = v.sectorsPerCluster /\ c = disc.SecPerClus /\ v \in Volumes
  BY <1>1, Sizes
<1>3. PICK u \in Seq(Int), l \in Nat, n \in Nat : u = buffer /\ l = Len(buffer) /\ n = rd.length
  BY DEF TypeInv, TypeOK, BufferInv
<1>4. PICK rest \in Int : rest = n - l /\ rest = rd.length - Len(buffer)
  BY <1>3
<1>5. Understood => rd.start < FileBytes /\ rd.start + rd.length <= FileBytes
  BY <1>1 DEF ReadInv
<1>6. CASE rest > 0
  <2>1. PICK bytes \in Seq(Int) :
          bytes = SectorBytes(Following.cluster, Following.sector, 0, rest)
            /\ Len(bytes) = rest
    BY <1>1, <1>6, NextBytes
  <2>2. cluster' = Following.cluster /\ buffer' = buffer \o bytes
    BY <1>4, <1>6, <2>1 DEF ReadLast
  <2>3. Len(buffer') = rd.length
    <3>1. Len(buffer \o bytes) = Len(buffer) + Len(bytes)
      BY <1>3, Concat
    <3>2. Len(buffer') = l + rest
      BY <1>3, <2>1, <2>2, <3>1, Zenon
    <3>3. QED
      BY <1>3, <1>4, <3>2
  <2>4. l < rd.length
    BY <1>3, <1>4, <1>6
  <2>5. ASSUME Understood
        PROVE  /\ \E k \in 1 .. ChainLen : cluster' = chain'[k]
               /\ \A i \in DOMAIN buffer' : buffer'[i] = rd.start + i - 1
    <3>1. PICK j \in 1 .. ChainLen : Following.cluster = chain[j]
      BY <1>1, <1>3, <2>4, <2>5, FollowingAt
    <3>2. rest < b
      <4>1. PICK k \in 1 .. ChainLen : ReadAt(k)
        BY <1>1, <2>5 DEF ReadInv
      <4>2. PICK x \in Nat : x = rest /\ x \div b = 0
        BY <1>1, <1>2, <1>4, <1>6, <4>1 DEF ReadAt
      <4>3. x = b * (x \div b) + (x % b) /\ x % b \in 0 .. b - 1 /\ b * 0 = 0
        BY DivNat
      <4>4. QED
        BY <4>2, <4>3
    <3>3. Following.sector * BYTES_PER_SECTOR + rest <= v.sectorsPerCluster * BYTES_PER_SECTOR
      <4>1. PICK s \in Nat : s = Following.sector /\ s < c
        BY <1>1, <1>2, FollowingOK
      <4>2. b * s + b <= b * c /\ b * s = s * b /\ b * c = c * b
        <5>1. s < c
          BY <4>1
        <5>2. b * s + b <= b * c
          BY <5>1, Apart
        <5>3. QED
          BY <5>2, Distribute
      <4>3. s * b \in Nat /\ c * b \in Nat
        BY <4>1, Product
      <4>4. s * b + rest <= c * b
        BY <3>2, <4>2, <4>3
      <4>5. QED
        BY <1>2, <4>1, <4>4
    <3>4. \A i \in DOMAIN (buffer \o bytes) : (buffer \o bytes)[i] = rd.start + i - 1
      BY <1>1, <1>3, <1>6, <2>1, <2>4, <2>5, <3>3, Appended
    <3>5. QED
      BY <1>1, <2>2, <3>1, <3>4 DEF card
  <2>6. QED
    BY <1>1, <1>5, <2>3, <2>5, SameKnown DEF ReadInv
<1>7. CASE ~(rest > 0)
  <2>1. rest = 0 /\ UNCHANGED <<cluster, buffer>>
    BY <1>4, <1>7 DEF ReadLast
  <2>2. Len(buffer') = rd.length
    BY <1>3, <1>4, <2>1
  <2>3. Understood => \E k \in 1 .. ChainLen : cluster' = chain'[k]
    BY <1>1, <2>1 DEF ReadInv, ReadAt, card
  <2>4. Understood => \A i \in DOMAIN buffer' : buffer'[i] = rd.start + i - 1
    BY <2>1 DEF ReadInv
  <2>5. QED
    BY <1>1, <1>5, <2>2, <2>3, <2>4, SameKnown DEF ReadInv
<1>8. QED
  BY <1>6, <1>7

LEMMA ReadStep == TypeInv /\ ReadInv /\ [Next]_vars => ReadInv'
<1> SUFFICES ASSUME TypeInv, ReadInv, [Next]_vars PROVE ReadInv'
  OBVIOUS
<1>1. CASE FAT_InitFiles \/ UseStored \/ SearchStart \/ SearchTurn BY <1>1, ReadBefore
<1>2. CASE \E r \in Requests : Read(r[1], r[2]) BY <1>2, ReadStart
<1>3. CASE Seek BY <1>3, ReadSeek
<1>4. CASE ReadFirst BY <1>4, ReadToSector
<1>5. CASE ReadSectors BY <1>5, ReadWhole
<1>6. CASE ReadLast BY <1>6, ReadRest
<1>7. CASE UNCHANGED vars
  <2>1. UNCHANGED <<card, disc, cluster, pc, rd, buffer>>
    BY <1>7 DEF vars, card
  <2>2. \A k : (SeekAt(k)' <=> SeekAt(k)) /\ (ReadAt(k)' <=> ReadAt(k))
    BY <2>1 DEF SeekAt, ReadAt, ClusterBytes, card
  <2>3. QED
    BY <2>1, <2>2, SameKnown DEF ReadInv
<1>8. QED
  BY <1>1, <1>2, <1>3, <1>4, <1>5, <1>6, <1>7 DEF Next, Loops

LEMMA ReadInit == Init => ReadInv
BY DEF Init, ReadInv, Understood, KindKnown, CLUSTER_FREE, CLUSTER_EOF

\* Whatever the chain's order, the kind of FAT and the request, what has been read
\* are the bytes of the file from the start that was asked for, and in the end as
\* many as were asked for.
THEOREM ReadsFile == Spec => []BufferIsFile
<1>1. ReadInv => BufferIsFile
  BY DEF ReadInv, BufferIsFile
<1>2. QED
  BY <1>1, TypeInit, TypeStep, ReadInit, ReadStep, PTL DEF Spec

\* No read follows the chain beyond the file's last cluster.
THEOREM KeepsToChain == Spec => []StaysInChain
<1>1. TypeInv /\ ReadInv => StaysInChain
  <2> SUFFICES ASSUME TypeInv, ReadInv, Understood, pc \in {"seek", "sectors", "done"}
               PROVE  cluster \in {chain[i] : i \in DOMAIN chain}
    BY DEF StaysInChain
  <2>1. \E k \in 1 .. ChainLen : cluster = chain[k]
    BY DEF ReadInv, SeekAt, ReadAt
  <2>2. DOMAIN chain = 1 .. ChainLen
    BY ChainFacts DEF TypeInv
  <2>3. QED
    BY <2>1, <2>2
<1>2. QED
  BY <1>1, TypeInit, TypeStep, ReadInit, ReadStep, PTL DEF Spec

-----------------------------------------------------------------------------
\* The search

\* No two sectors of the root directory are the same.
LEMMA DirSectorsApart ==
  ASSUME CardOK, NEW k \in DOMAIN DirSectors(v), NEW m \in DOMAIN DirSectors(v),
         DirSectors(v)[k] = DirSectors(v)[m]
  PROVE  k = m
<1>1. v \in Volumes
  BY DEF CardOK
<1>2. k \in Nat /\ m \in Nat /\ k > 0 /\ m > 0
  BY DirFacts
<1>3. CASE v.fs # 32
  <2>1. PICK r \in Int : r = RootStart(v)
    BY <1>1, VolumePlaces
  <2>2. DirSectors(v)[k] = r + k - 1 /\ DirSectors(v)[m] = r + m - 1
    BY <1>3, <2>1 DEF DirSectors
  <2>3. r + k - 1 = r + m - 1
    BY <2>2
  <2>4. QED
    BY <1>2, <2>3
<1>4. CASE v.fs = 32
  <2>1. PICK c \in Nat \ {0} : c = v.sectorsPerCluster
    BY <1>1, VolumeFacts
  <2>2. PICK d \in Int : d = DataStart(v)
    BY <1>1, VolumePlaces
  <2>3. PICK n \in Nat : n = Len(v.rootChain) /\ DOMAIN v.rootChain = 1 .. n
    BY RootFacts
  <2> DEFINE chosen(x) == v.rootChain[x]
  <2>0. \A x \in 1 .. n : chosen(x) \in Int
    BY <2>3, RootFacts DEF Clusters, CLUSTER_FIRST
  <2>4. DOMAIN DirSectors(v) = 1 .. n * c /\ n * c \in Nat
    BY <1>4, <2>1, <2>3, DirFacts, Product
  <2> DEFINE index(x) == (x - 1) \div c
             offset(x) == (x - 1) % c
  <2>5. ASSUME NEW x \in 1 .. n * c
        PROVE  /\ index(x) \in Nat /\ offset(x) \in 0 .. c - 1
               /\ x - 1 = c * index(x) + offset(x)
               /\ 1 + index(x) \in 1 .. n
    <3>1. PICK y \in Nat : y = x - 1 /\ y < n * c
      BY <2>4
    <3>2. PICK q \in Nat, r \in 0 .. c - 1 :
            q = y \div c /\ r = y % c /\ y = c * q + r /\ c * q \in Nat
      <4>1. y \div c \in Nat /\ y % c \in 0 .. c - 1 /\ y = c * (y \div c) + (y % c)
            /\ c * (y \div c) \in Nat
        BY DivNat
      <4>2. QED
        BY <4>1
    <3>3. q < n
      <4>1. SUFFICES ASSUME n <= q PROVE FALSE
        OBVIOUS
      <4>2. c * n <= c * q /\ c * n = n * c
        BY <4>1, Monotone, Distribute
      <4>3. QED
        BY <2>4, <3>1, <3>2, <4>2
    <3>4. QED
      BY <3>1, <3>2, <3>3
  <2>6. ASSUME NEW x \in 1 .. n * c
        PROVE  DirSectors(v)[x] = (c * (v.rootChain[1 + index(x)] - 2) + offset(x)) + d
    <3>1. DirSectors(v)[x] = ClusterStart(v, v.rootChain[1 + index(x)]) + offset(x)
      BY <1>4, <2>1, <2>3, <2>4 DEF DirSectors
    <3>2. PICK y \in Int : y = v.rootChain[1 + index(x)] - 2
      <4>1. v.rootChain[1 + index(x)] \in Int
        BY <2>0, <2>5
      <4>2. QED
        BY <4>1
    <3>3. y * c = c * y /\ c * y \in Int
      BY <3>2, Distribute, Product
    <3>4. ClusterStart(v, v.rootChain[1 + index(x)]) = d + y * c
      BY <2>1, <2>2, <3>2 DEF ClusterStart, CLUSTER_FIRST
    <3>5. offset(x) \in Int
      BY <2>5
    <3>6. QED
      BY <3>1, <3>2, <3>3, <3>4, <3>5
  <2> HIDE DEF index, offset
  <2>7. k \in 1 .. n * c /\ m \in 1 .. n * c
    BY <2>4
  <2>8. PICK x \in Int, y \in Int, r \in 0 .. c - 1, s \in 0 .. c - 1 :
          /\ x = v.rootChain[1 + index(k)] - 2 /\ y = v.rootChain[1 + index(m)] - 2
          /\ r = offset(k) /\ s = offset(m)
    <3>1. v.rootChain[1 + index(k)] \in Int /\ v.rootChain[1 + index(m)] \in Int
      BY <2>0, <2>5, <2>7
    <3>2. offset(k) \in 0 .. c - 1 /\ offset(m) \in 0 .. c - 1
      BY <2>5, <2>7
    <3>3. v.rootChain[1 + index(k)] - 2 \in Int /\ v.rootChain[1 + index(m)] - 2 \in Int
      BY <3>1
    <3>4. QED
      BY <3>2, <3>3, Zenon
  <2>9. c * x + r = c * y + s
    <3>1. (c * x + r) + d = (c * y + s) + d
      BY <2>6, <2>7, <2>8
    <3>2. c * x \in Int /\ c * y \in Int
      BY Product
    <3>3. QED
      BY <3>1, <3>2
  <2>10. (c * x + r) \div c = x /\ (c * x + r) % c = r
    BY DivUnique
  <2>11. (c * y + s) \div c = y /\ (c * y + s) % c = s
    BY DivUnique
  <2>12. x = y /\ r = s
    BY <2>9, <2>10, <2>11
  <2>13. v.rootChain[1 + index(k)] = v.rootChain[1 + index(m)]
    <3>1. v.rootChain[1 + index(k)] \in Int /\ v.rootChain[1 + index(m)] \in Int
      BY <2>0, <2>5, <2>7
    <3>2. QED
      BY <2>8, <2>12, <3>1
  <2>14. 1 + index(k) = 1 + index(m)
    BY <2>3, <2>5, <2>7, <2>13, RootFacts
  <2>15. index(k) = index(m)
    BY <2>5, <2>7, <2>14
  <2>16. k - 1 = m - 1
    BY <2>5, <2>7, <2>8, <2>12, <2>15
  <2>17. QED
    BY <1>2, <2>16
<1>5. QED
  BY <1>3, <1>4

\* A sector of the root directory holds its entries in their order.
LEMMA DirEntryIs ==
  ASSUME CardOK, NEW k \in DOMAIN DirSectors(v), NEW o
  PROVE  DirEntry(DirSectors(v)[k], o) = dir[(k - 1) * DirPerSector + o + 1]
<1>1. (CHOOSE m \in DOMAIN DirSectors(v) : DirSectors(v)[m] = DirSectors(v)[k]) = k
  BY DirSectorsApart
<1>2. QED
  BY <1>1 DEF DirEntry

\* An entry of the directory is in one of its sectors.
LEMMA EntryNumbers ==
  ASSUME CardOK, NEW m \in Nat, m < Len(dir)
  PROVE  /\ m \div DirPerSector \in 0 .. Len(DirSectors(v)) - 1
         /\ m % DirPerSector \in 0 .. DirPerSector - 1
         /\ m = DirPerSector * (m \div DirPerSector) + (m % DirPerSector)
         /\ 1 + (m \div DirPerSector) \in DOMAIN DirSectors(v)
<1>1. PICK b \in Nat \ {0} : b = DirPerSector
  BY VolumesAssumption
<1>2. PICK n \in Nat : n = Len(DirSectors(v)) /\ DOMAIN DirSectors(v) = 1 .. n /\ m < n * b
  BY <1>1, DirFacts
<1>3. PICK q \in Nat, r \in 0 .. b - 1 : q = m \div b /\ r = m % b /\ m = b * q + r /\ b * q \in Nat
  <2>1. m \div b \in Nat /\ m % b \in 0 .. b - 1 /\ m = b * (m \div b) + (m % b)
        /\ b * (m \div b) \in Nat
    BY DivNat
  <2>2. QED
    BY <2>1
<1>4. q < n
  <2>1. SUFFICES ASSUME n <= q PROVE FALSE
    OBVIOUS
  <2>2. b * n <= b * q /\ b * n = n * b /\ n * b \in Nat
    BY <2>1, Monotone, Distribute, Product
  <2>3. QED
    BY <1>2, <1>3, <2>2
<1>5. QED
  BY <1>1, <1>2, <1>3, <1>4

\* Where the search stands is the sector of the next entry.
LEMMA PlaceSector ==
  ASSUME TypeInv, NEW m \in Nat, m < Len(dir), Place(m)
  PROVE  DirSectors(v)[1 + (m \div DirPerSector)] = wrk.first + wrk.sector
<1>1. v \in Volumes /\ CardOK
  BY DEF TypeInv, CardOK
<1>2. PICK q \in Nat : q = m \div DirPerSector /\ 1 + q \in DOMAIN DirSectors(v)
  <2>1. m \div DirPerSector \in Nat
    BY <1>1, EntryNumbers
  <2>2. QED
    BY <1>1, <2>1, EntryNumbers
<1>3. CASE v.fs # 32
  <2>1. PICK r \in Int : r = RootStart(v)
    BY <1>1, VolumePlaces
  <2>2. DirSectors(v)[1 + q] = r + (1 + q) - 1
    BY <1>2, <1>3, <2>1 DEF DirSectors
  <2>3. wrk.first = r /\ wrk.sector = q
    BY <1>2, <1>3, <2>1 DEF Place
  <2>4. QED
    BY <1>2, <2>2, <2>3
<1>4. CASE v.fs = 32
  <2>1. PICK c \in Nat \ {0} : c = v.sectorsPerCluster
    BY <1>1, VolumeFacts
  <2>2. PICK i \in DOMAIN v.rootChain :
          /\ wrk.cluster = v.rootChain[i] /\ wrk.first = ClusterStart(v, v.rootChain[i])
          /\ wrk.sector < c /\ q = (i - 1) * c + wrk.sector
    BY <1>2, <1>4, <2>1 DEF Place
  <2>3. i \in Nat \ {0}
    BY <1>1, RootFacts
  <2>4. PICK s \in 0 .. c - 1 : s = wrk.sector
    <3>1. wrk.sector \in Nat
      BY DEF TypeInv, TypeOK
    <3>2. QED
      BY <2>2, <3>1
  <2>5. q = c * (i - 1) + s
    BY <2>2, <2>3, <2>4, Distribute
  <2>6. q \div c = i - 1 /\ q % c = s
    <3>1. PICK j \in Int : j = i - 1
      BY <2>3
    <3>2. (c * j + s) \div c = j /\ (c * j + s) % c = s
      BY DivUnique
    <3>3. QED
      BY <2>5, <3>1, <3>2
  <2>7. DirSectors(v)[1 + q] =
          ClusterStart(v, v.rootChain[1 + ((1 + q) - 1) \div c]) + (((1 + q) - 1) % c)
    BY <1>2, <1>4, <2>1 DEF DirSectors
  <2>8. (1 + q) - 1 = q /\ 1 + (i - 1) = i
    BY <1>2, <2>3
  <2>9. QED
    BY <1>2, <2>2, <2>4, <2>6, <2>7, <2>8
<1>5. QED
  BY <1>3, <1>4

\* The entry looked at is the next one of the directory.
LEMMA SearchEntry ==
  ASSUME TypeInv, NEW m \in Nat, m < Len(dir), Place(m)
  PROVE  Entry = dir[m + 1]
<1>1. CardOK
  BY DEF TypeInv
<1>2. PICK q \in Nat, r \in Nat :
        /\ q = m \div DirPerSector /\ r = m % DirPerSector
        /\ m = DirPerSector * q + r /\ 1 + q \in DOMAIN DirSectors(v)
  <2>1. m \div DirPerSector \in Nat /\ m % DirPerSector \in Nat
    BY <1>1, EntryNumbers, VolumesAssumption
  <2>2. QED
    BY <1>1, <2>1, EntryNumbers
<1>3. Entry = DirEntry(DirSectors(v)[1 + q], r)
  BY <1>2, PlaceSector DEF Entry, Place
<1>4. Entry = dir[((1 + q) - 1) * DirPerSector + r + 1]
  BY <1>1, <1>2, <1>3, DirEntryIs
<1>5. ((1 + q) - 1) * DirPerSector + r + 1 = m + 1
  <2>1. PICK b \in Nat : b = DirPerSector
    BY VolumesAssumption
  <2>2. (1 + q) - 1 = q /\ q * b = b * q /\ b * q \in Nat
    BY <1>2, Distribute, Product
  <2>3. QED
    BY <1>2, <2>1, <2>2
<1>6. QED
  BY <1>4, <1>5

\* The next entry of a sector that is not used up: the directory does not end there.
LEMMA NextInSector ==
  ASSUME TypeInv, NEW m \in Nat, m < Len(dir), Place(m), ~wrk.ended,
         wrk.offset + 1 < DirPerSector, wrk' = NextEntry, UNCHANGED card
  PROVE  ~wrk'.ended /\ m + 1 # Len(dir) /\ Place(m + 1)'
<1>1. CardOK /\ v' = v
  BY DEF TypeInv, card
<1>2. PICK b \in Nat \ {0} : b = DirPerSector
  BY VolumesAssumption
<1>3. PICK q \in Nat, r \in Nat :
        q = m \div b /\ r = m % b /\ m = b * q + r /\ wrk.offset = r
  <2>1. m \div b \in Nat /\ m % b \in 0 .. b - 1 /\ m = b * (m \div b) + (m % b)
    BY DivNat
  <2>2. QED
    BY <1>2, <2>1 DEF Place
<1>4. r + 1 \in 0 .. b - 1 /\ r + 1 # 0
  BY <1>2, <1>3
<1>5. (m + 1) \div b = q /\ (m + 1) % b = r + 1
  <2>1. (b * q + (r + 1)) \div b = q /\ (b * q + (r + 1)) % b = r + 1
    <3>1. PICK x \in 0 .. b - 1 : x = r + 1
      BY <1>4
    <3>2. (b * q + x) \div b = q /\ (b * q + x) % b = x
      BY DivUnique
    <3>3. QED
      BY <3>1, <3>2
  <2>2. b * q \in Nat
    BY Product
  <2>3. m + 1 = b * q + (r + 1)
    BY <1>3, <2>2
  <2>4. QED
    BY <2>1, <2>3
<1>6. m + 1 # Len(dir)
  <2>1. PICK n \in Nat : n = Len(DirSectors(v))
    BY <1>1, DirFacts
  <2>2. Len(dir) = n * b
    BY <1>1, <1>2, <2>1, DirFacts
  <2>3. 0 \in 0 .. b - 1
    OBVIOUS
  <2>4. (b * n + 0) % b = 0
    BY <2>3, DivUnique
  <2>5. n * b = b * n + 0
    <3>1. n * b = b * n /\ b * n \in Nat
      BY Distribute, Product
    <3>2. QED
      BY <3>1
  <2>6. QED
    BY <1>4, <1>5, <2>2, <2>4, <2>5
<1>7. wrk' = [wrk EXCEPT !.offset = @ + 1]
  BY DEF NextEntry
<1>8. /\ wrk'.offset = r + 1 /\ wrk'.ended = wrk.ended /\ wrk'.cluster = wrk.cluster
      /\ wrk'.first = wrk.first /\ wrk'.sector = wrk.sector
  BY <1>3, <1>7 DEF TypeInv, TypeOK
<1>9. /\ v.fs # 32 => /\ wrk.cluster = FAT16_ROOT_DIR_CLUSTER /\ wrk.first = RootStart(v)
                      /\ wrk.sector = q
      /\ v.fs = 32 => /\ wrk.sector < v.sectorsPerCluster
                      /\ \E i \in DOMAIN v.rootChain :
                           /\ wrk.cluster = v.rootChain[i]
                           /\ wrk.first = ClusterStart(v, wrk.cluster)
                           /\ q = (i - 1) * v.sectorsPerCluster + wrk.sector
  BY <1>2, <1>3 DEF Place
<1>10. Place(m + 1)'
  BY <1>1, <1>2, <1>5, <1>8, <1>9 DEF Place, RootStart, FatStart, SectorsPerFAT, ClusterStart, DataStart
<1>11. QED
  BY <1>6, <1>8, <1>10

\* The sector is used up: the directory ends where its last sector or its last
\* cluster ends, otherwise the search goes to the next one.
LEMMA NextSector ==
  ASSUME TypeInv, Understood, pc = "search", NEW m \in Nat, m < Len(dir), Place(m),
         ~wrk.ended, ~(wrk.offset + 1 < DirPerSector), wrk' = NextEntry, UNCHANGED <<card, disc>>
  PROVE  (wrk'.ended <=> m + 1 = Len(dir)) /\ (~wrk'.ended => Place(m + 1)')
<1>1. v \in Volumes /\ CardOK /\ v' = v
  BY DEF TypeInv, CardOK, card
<1>2. PICK b \in Nat \ {0} : b = DirPerSector
  BY VolumesAssumption
<1>3. PICK n \in Nat : n = Len(DirSectors(v))
  BY <1>1, DirFacts
<1>4. PICK q \in Nat : q = m \div b /\ q < n /\ m + 1 = b * (q + 1)
  <2>1. PICK x \in Nat, r \in 0 .. b - 1 : x = m \div b /\ r = m % b /\ m = b * x + r
    <3>1. m \div b \in Nat /\ m % b \in 0 .. b - 1 /\ m = b * (m \div b) + (m % b)
      BY DivNat
    <3>2. QED
      BY <3>1
  <2>2. wrk.offset = r
    BY <1>2, <2>1 DEF Place
  <2>3. r + 1 = b
    BY <1>2, <2>1, <2>2
  <2>4. b * (x + 1) = b * x + b /\ b * x \in Nat
    <3>1. b * (x + 1) = b * x + b * 1 /\ b * 1 = b
      BY Distribute
    <3>2. QED
      BY <3>1, Product
  <2>5. x < n
    <3>1. m \div DirPerSector \in 0 .. Len(DirSectors(v)) - 1
      BY <1>1, EntryNumbers
    <3>2. QED
      BY <1>2, <1>3, <2>1, <3>1
  <2>6. m + 1 = b * (x + 1)
    BY <2>1, <2>3, <2>4
  <2>7. QED
    BY <2>1, <2>5, <2>6
<1>5. (m + 1) \div b = q + 1 /\ (m + 1) % b = 0
  <2>1. 0 \in 0 .. b - 1 /\ q + 1 \in Int
    OBVIOUS
  <2>2. (b * (q + 1) + 0) \div b = q + 1 /\ (b * (q + 1) + 0) % b = 0
    BY <2>1, DivUnique
  <2>3. m + 1 = b * (q + 1) + 0
    BY <1>4
  <2>4. QED
    BY <2>2, <2>3
<1>6. m + 1 = Len(dir) <=> q + 1 = n
  <2>1. Len(dir) = n * b
    BY <1>1, <1>2, <1>3, DirFacts
  <2>2. Len(dir) = b * n
    BY <2>1, Distribute
  <2>3. q + 1 < n => b * (q + 1) # b * n
    <3>1. ASSUME q + 1 < n PROVE b * (q + 1) + b <= b * n
      BY <3>1, Apart
    <3>2. b * (q + 1) \in Nat /\ b * n \in Nat
      BY Product
    <3>3. QED
      BY <3>1, <3>2
  <2>4. QED
    BY <1>4, <2>2, <2>3
<1>7. PICK s \in Nat : s = wrk.sector
  BY DEF TypeInv, TypeOK
<1>8. PICK c \in Nat \ {0} : c = v.sectorsPerCluster /\ disc.SecPerClus = c
  <2>1. v.sectorsPerCluster \in Nat \ {0}
    BY <1>1, VolumeFacts
  <2>2. QED
    BY <2>1 DEF TypeInv, DiscInv
<1>9. CASE v.fs # 32
  <2>1. wrk.cluster = FAT16_ROOT_DIR_CLUSTER /\ wrk.first = RootStart(v) /\ s = q
    BY <1>2, <1>4, <1>7, <1>9 DEF Place
  <2>2. n = disc.Data - disc.RootDir
    <3>1. disc.Data = DataStart(v) /\ disc.RootDir = RootStart(v)
      BY DEF TypeInv, DiscInv
    <3>2. PICK x \in Nat, y \in Nat : x = RootStart(v) /\ y = v.rootEntries \div DirPerSector
      BY <1>1, VolumePlaces
    <3>3. DataStart(v) = x + y
      BY <3>2 DEF DataStart
    <3>4. n = y
      BY <1>1, <1>3, <1>9, <3>2, DirFacts
    <3>5. QED
      BY <3>1, <3>2, <3>3, <3>4
  <2>3. NextEntry = [wrk EXCEPT !.sector = s + 1, !.offset = 0,
                                !.ended = s + 1 = disc.Data - disc.RootDir]
    BY <1>7, <2>1 DEF NextEntry
  <2>4. /\ wrk'.offset = 0 /\ wrk'.sector = q + 1 /\ wrk'.cluster = wrk.cluster
        /\ wrk'.first = wrk.first /\ (wrk'.ended <=> q + 1 = n)
    BY <2>1, <2>2, <2>3 DEF TypeInv, TypeOK
  <2>5. Place(m + 1)'
    BY <1>1, <1>2, <1>5, <1>9, <2>1, <2>4
    DEF Place, RootStart, FatStart, SectorsPerFAT
  <2>6. QED
    BY <1>6, <2>4, <2>5
<1>10. CASE v.fs = 32
  <2>1. PICK i \in DOMAIN v.rootChain :
          /\ wrk.cluster = v.rootChain[i] /\ wrk.first = ClusterStart(v, v.rootChain[i])
          /\ s < c /\ q = (i - 1) * c + s
    BY <1>2, <1>4, <1>7, <1>8, <1>10 DEF Place
  <2>2. PICK l \in Nat : l = Len(v.rootChain) /\ DOMAIN v.rootChain = 1 .. l
    BY <1>1, RootFacts
  <2>3. i \in 1 .. l /\ n = l * c
    BY <1>1, <1>3, <1>8, <1>10, <2>1, <2>2, DirFacts
  <2>4. PICK x \in Nat : x = (i - 1) * c /\ q = x + s /\ l * c \in Nat /\ i * c = x + c
    <3>1. i - 1 \in Nat /\ i - 1 \in Int
      BY <2>3
    <3>2. (i - 1) * c \in Nat /\ l * c \in Nat
      BY <3>1, Product
    <3>3. ((i - 1) + 1) * c = (i - 1) * c + 1 * c
      BY <3>1, Distribute
    <3>4. (i - 1) + 1 = i /\ 1 * c = c
      BY <2>3
    <3>5. QED
      BY <2>1, <3>2, <3>3, <3>4
  <2>5. i < l => i * c + c <= l * c
    <3>1. ASSUME i < l PROVE c * i + c <= c * l
      BY <2>3, <3>1, Apart
    <3>2. c * i = i * c /\ c * l = l * c
      BY <2>3, Distribute
    <3>3. QED
      BY <3>1, <3>2
  <2>6. wrk.cluster # FAT16_ROOT_DIR_CLUSTER /\ wrk.cluster \in Clusters(v)
    <3>1. wrk.cluster \in Clusters(v) /\ 2 <= wrk.cluster /\ wrk.cluster \in Nat
      BY <1>1, <2>1, RootFacts
    <3>2. QED
      BY <3>1 DEF FAT16_ROOT_DIR_CLUSTER
  <2>7. CASE s + 1 = c
    <3> DEFINE next == FAT_NextCluster(wrk.cluster)
    <3>1. next = IF i < l THEN v.rootChain[i + 1] ELSE CLUSTER_EOF
      <4>1. FatKnown
        BY Known
      <4>2. QED
        BY <1>10, <2>1, <2>2, <4>1, NextOfRoot
    <3>2. NextEntry = [cluster |-> next, first |-> FAT_ClustToSect(next), sector |-> 0,
                       offset |-> 0, ended |-> next = CLUSTER_EOF]
      BY <1>7, <1>8, <2>6, <2>7 DEF NextEntry
    <3> HIDE DEF next
    <3>3. /\ wrk'.cluster = next /\ wrk'.first = FAT_ClustToSect(next) /\ wrk'.sector = 0
          /\ wrk'.offset = 0 /\ (wrk'.ended <=> next = CLUSTER_EOF)
      BY <3>2
    <3>4. q + 1 = i * c
      BY <2>4, <2>7
    <3>5. CASE i < l
      <4>1. i + 1 \in DOMAIN v.rootChain /\ next = v.rootChain[i + 1]
        BY <2>2, <2>3, <3>1, <3>5
      <4>2. next \in Clusters(v)
        BY <1>1, <4>1, RootFacts
      <4>3. next # CLUSTER_EOF
        <5>1. next < 268435447 /\ next \in Nat
          BY <1>1, <4>2, ClustersFit, RootFacts
        <5>2. QED
          BY <5>1, SMT DEF CLUSTER_EOF
      <4>4. q + 1 # n
        BY <2>3, <2>4, <2>5, <3>4, <3>5
      <4>5. FAT_ClustToSect(next) = ClusterStart(v, next)
        <5>1. PICK y \in Int, d \in Nat : y = (next - 2) * c /\ d = DataStart(v)
          <6>1. next - 2 \in Int
            BY <1>1, <4>2, RootFacts
          <6>2. (next - 2) * c \in Int /\ DataStart(v) \in Nat
            BY <1>1, <6>1, Product, VolumePlaces
          <6>3. QED
            BY <6>2
        <5>2. disc.Data = d
          BY <5>1 DEF TypeInv, DiscInv
        <5>3. FAT_ClustToSect(next) = y + d
          BY <1>8, <5>1, <5>2 DEF FAT_ClustToSect
        <5>4. ClusterStart(v, next) = d + y
          BY <1>8, <5>1 DEF ClusterStart, CLUSTER_FIRST
        <5>5. QED
          BY <5>1, <5>3, <5>4
      <4>6. q + 1 = ((i + 1) - 1) * c + 0
        <5>1. (i + 1) - 1 = i
          BY <2>3
        <5>2. i * c \in Nat
          BY <2>4
        <5>3. QED
          BY <3>4, <5>1, <5>2
      <4>7. Place(m + 1)'
        <5>1. /\ wrk'.offset = (m + 1) % DirPerSector /\ (m + 1) \div DirPerSector = q + 1
              /\ wrk'.sector < v.sectorsPerCluster
          BY <1>2, <1>5, <1>8, <3>3
        <5>2. /\ wrk'.cluster = v.rootChain[i + 1] /\ wrk'.first = ClusterStart(v, wrk'.cluster)
              /\ q + 1 = ((i + 1) - 1) * v.sectorsPerCluster + wrk'.sector
          BY <1>8, <3>3, <4>1, <4>5, <4>6
        <5>3. QED
          BY <1>1, <1>10, <4>1, <5>1, <5>2
          DEF Place, ClusterStart, DataStart, RootStart, FatStart, SectorsPerFAT
      <4>8. QED
        BY <1>6, <3>3, <4>3, <4>4, <4>7
    <3>6. CASE i = l
      <4>1. next = CLUSTER_EOF
        BY <3>1, <3>6
      <4>2. q + 1 = n
        BY <2>3, <3>4, <3>6
      <4>3. QED
        BY <1>6, <3>3, <4>1, <4>2
    <3>7. QED
      BY <2>3, <3>5, <3>6
  <2>8. CASE s + 1 # c
    <3>1. NextEntry = [wrk EXCEPT !.sector = s + 1, !.offset = 0, !.ended = FALSE]
      BY <1>7, <1>8, <2>6, <2>8 DEF NextEntry
    <3>2. /\ wrk'.cluster = wrk.cluster /\ wrk'.first = wrk.first /\ wrk'.sector = s + 1
          /\ wrk'.offset = 0 /\ ~wrk'.ended
      BY <3>1 DEF TypeInv, TypeOK
    <3>3. s + 1 < c
      BY <2>1, <2>8
    <3>4. q + 1 = (i - 1) * c + (s + 1)
      BY <2>4
    <3>5. q + 1 # n
      BY <2>3, <2>4, <2>5, <3>3
    <3>6. Place(m + 1)'
      <4>1. /\ wrk'.offset = (m + 1) % DirPerSector /\ (m + 1) \div DirPerSector = q + 1
            /\ wrk'.sector < v.sectorsPerCluster
        BY <1>2, <1>5, <1>8, <3>2, <3>3
      <4>2. /\ wrk'.cluster = v.rootChain[i] /\ wrk'.first = ClusterStart(v, wrk'.cluster)
            /\ q + 1 = (i - 1) * v.sectorsPerCluster + wrk'.sector
        BY <1>8, <2>1, <3>2, <3>4
      <4>3. QED
        BY <1>1, <1>10, <2>1, <4>1, <4>2
        DEF Place, ClusterStart, DataStart, RootStart, FatStart, SectorsPerFAT
    <3>7. QED
      BY <1>6, <3>2, <3>5, <3>6
  <2>9. QED
    BY <2>7, <2>8
<1>11. QED
  BY <1>9, <1>10

\* A root directory has entries.
LEMMA DirNotEmpty ==
  ASSUME CardOK
  PROVE  Len(dir) \in Nat /\ Len(dir) > 0
<1>1. v \in Volumes
  BY DEF CardOK
<1>2. PICK b \in Nat \ {0} : b = DirPerSector
  BY VolumesAssumption
<1>3. PICK n \in Nat : n = Len(DirSectors(v)) /\ Len(dir) = n * b
  BY <1>2, DirFacts
<1>4. n > 0
  <2>1. CASE v.fs # 32
    <3>1. v.rootEntries % DirPerSector = 0 /\ v.rootEntries > 0
      BY <1>1, <2>1, VolumesAssumption DEF ProperVolume
    <3>2. PICK e \in Nat : e = v.rootEntries /\ e > 0 /\ e % b = 0
      BY <1>1, <1>2, <3>1, VolumeFacts
    <3>3. e \div b \in Nat /\ e = b * (e \div b) + (e % b)
      BY DivNat
    <3>4. b * 0 = 0
      OBVIOUS
    <3>5. e \div b # 0
      <4>1. PICK d \in Nat : d = e \div b /\ e = b * d + 0
        BY <3>2, <3>3
      <4>2. d = 0 => e = 0
        BY <3>4, <4>1
      <4>3. QED
        BY <3>2, <4>1, <4>2
    <3>6. n = e \div b
      BY <1>2, <1>3, <2>1, <3>2, DirFacts
    <3>7. QED
      BY <3>3, <3>5, <3>6
  <2>2. CASE v.fs = 32
    <3>1. PICK l \in Nat, c \in Nat \ {0} : l = Len(v.rootChain) /\ c = v.sectorsPerCluster
      BY <1>1, RootFacts, VolumeFacts
    <3>2. l > 0 /\ n = l * c
      BY <1>3, <2>2, <3>1, RootFacts, DirFacts
    <3>3. c * 0 + c <= c * l /\ c * 0 = 0 /\ c * l = l * c
      BY <3>2, Apart, Distribute
    <3>4. QED
      BY <3>1, <3>2, <3>3
  <2>3. QED
    BY <2>1, <2>2
<1>5. b * 0 + b <= b * n /\ b * 0 = 0 /\ b * n = n * b
  BY <1>4, Apart, Distribute
<1>6. QED
  BY <1>2, <1>3, <1>5, Product

\* The search starts at the first entry.
LEMMA SearchBegins ==
  ASSUME TypeInv, Understood, RootFound, SearchStart
  PROVE  SearchAt(0)'
<1>1. v \in Volumes /\ CardOK /\ v' = v /\ dir' = dir
  BY DEF TypeInv, CardOK, SearchStart, card
<1>2. PICK b \in Nat \ {0} : b = DirPerSector
  BY VolumesAssumption
<1>3. 0 \div b = 0 /\ 0 % b = 0
  OBVIOUS
<1>4. /\ wrk'.cluster = disc.RootDirClus /\ wrk'.first = disc.RootDir /\ wrk'.sector = 0
      /\ wrk'.offset = 0 /\ ~wrk'.ended
  BY DEF SearchStart
<1>5. /\ disc.RootDir = RootStart(v) /\ disc.FileSystem = v.fs
      /\ disc.RootDirClus = IF v.fs = 32 THEN v.rootChain[1] ELSE FAT16_ROOT_DIR_CLUSTER
  BY DEF TypeInv, DiscInv, SearchStart, Understood, KindKnown
<1>6. Place(0)'
  <2>1. CASE v.fs # 32
    BY <1>1, <1>2, <1>3, <1>4, <1>5, <2>1 DEF Place, RootStart, FatStart, SectorsPerFAT
  <2>2. CASE v.fs = 32
    <3>1. 1 \in DOMAIN v.rootChain /\ v.rootChain[1] = 2
      BY <1>1, <2>2, RootFacts DEF RootFound, CLUSTER_FIRST
    <3>2. PICK c \in Nat \ {0} : c = v.sectorsPerCluster
      BY <1>1, VolumeFacts
    <3>3. ClusterStart(v, 2) = RootStart(v)
      <4>1. PICK r \in Nat : r = RootStart(v)
        BY <1>1, VolumePlaces
      <4>2. v.rootEntries = 0
        BY <1>1, <2>2, VolumeFacts
      <4>3. DataStart(v) = r + 0 \div b
        BY <1>2, <4>1, <4>2 DEF DataStart
      <4>4. ClusterStart(v, 2) = (r + 0 \div b) + (2 - 2) * c
        BY <3>2, <4>3 DEF ClusterStart, CLUSTER_FIRST
      <4>5. (2 - 2) * c = 0
        OBVIOUS
      <4>6. QED
        BY <1>3, <4>1, <4>4, <4>5
    <3>4. /\ wrk'.cluster = v.rootChain[1] /\ wrk'.first = ClusterStart(v, wrk'.cluster)
          /\ 0 = (1 - 1) * v.sectorsPerCluster + wrk'.sector
      BY <1>4, <1>5, <2>2, <3>1, <3>2, <3>3
    <3>5. /\ wrk'.offset = 0 % DirPerSector /\ 0 \div DirPerSector = 0
          /\ wrk'.sector < v.sectorsPerCluster
      BY <1>2, <1>3, <1>4, <3>2
    <3>6. QED
      BY <1>1, <2>2, <3>1, <3>4, <3>5
      DEF Place, ClusterStart, DataStart, RootStart, FatStart, SectorsPerFAT
  <2>3. QED
    BY <2>1, <2>2
<1>7. ~wrk'.ended /\ Len(dir') # 0
  BY <1>1, <1>4, DirNotEmpty
<1>8. QED
  BY <1>6, <1>7 DEF SearchAt

\* A turn of the loop takes the search one entry further, or ends it.
LEMMA SearchTurns ==
  ASSUME TypeInv, Understood, SearchTurn, NEW m \in 0 .. Len(dir), SearchAt(m)
  PROVE  /\ pc' = "search" => \E k \in 0 .. Len(dir) : SearchAt(k)'
         /\ pc' \in {"search", "found", "failed"}
         /\ pc' = "found" => \E i \in DOMAIN dir :
                                dir[i] = "boot" /\ \A j \in 1 .. i : dir[j] # "last"
         /\ pc' = "failed" => \A i \in DOMAIN dir :
                                dir[i] = "boot" => \E j \in 1 .. i : dir[j] = "last"
<1>1. CardOK /\ UNCHANGED <<card, disc>> /\ pc = "search"
  BY DEF TypeInv, SearchTurn
<1>2. PICK n \in Nat : n = Len(dir) /\ DOMAIN dir = 1 .. n
  BY <1>1, DirFacts
<1>3. m \in 0 .. n /\ (wrk.ended <=> m = n) /\ \A j \in 1 .. m : dir[j] \notin {"boot", "last"}
  BY <1>2 DEF SearchAt
<1>4. ~wrk.ended => m < n /\ Place(m) /\ Entry = dir[m + 1]
  <2> SUFFICES ASSUME ~wrk.ended PROVE m < n /\ Place(m) /\ Entry = dir[m + 1]
    OBVIOUS
  <2>1. m < n /\ Place(m) /\ m \in Nat
    BY <1>2, <1>3 DEF SearchAt
  <2>2. QED
    BY <1>2, <2>1, SearchEntry
<1>5. CASE wrk.ended \/ Entry = "last"
  <2>1. pc' = "failed"
    BY <1>5 DEF SearchTurn
  <2>2. ASSUME NEW i \in 1 .. n, dir[i] = "boot" PROVE \E j \in 1 .. i : dir[j] = "last"
    <3>1. ~(i \in 1 .. m)
      BY <1>3, <2>2
    <3>2. m < n
      BY <1>3, <3>1
    <3>3. dir[m + 1] = "last" /\ m + 1 \in 1 .. i
      BY <1>3, <1>4, <1>5, <3>1, <3>2
    <3>4. QED
      BY <3>3
  <2>3. QED
    BY <1>2, <2>1, <2>2
<1>6. CASE ~(wrk.ended \/ Entry = "last") /\ Entry = "boot"
  <2>1. pc' = "found"
    BY <1>6 DEF SearchTurn
  <2>2. m < n /\ dir[m + 1] = "boot"
    BY <1>4, <1>6
  <2>3. m + 1 \in 1 .. n /\ \A j \in 1 .. m + 1 : dir[j] # "last"
    <3>1. ASSUME NEW j \in 1 .. m + 1 PROVE dir[j] # "last"
      <4>1. j \in 1 .. m \/ j = m + 1
        BY <1>3
      <4>2. QED
        BY <1>3, <2>2, <4>1
    <3>2. QED
      BY <1>3, <2>2, <3>1
  <2>4. QED
    BY <1>2, <2>1, <2>2, <2>3
<1>7. CASE ~(wrk.ended \/ Entry = "last") /\ Entry # "boot"
  <2>1. pc' = "search" /\ wrk' = NextEntry
    BY <1>1, <1>7 DEF SearchTurn
  <2>2. m \in Nat /\ m < Len(dir) /\ Place(m) /\ ~wrk.ended /\ m + 1 \in 0 .. n
    BY <1>2, <1>3, <1>4, <1>7
  <2>3. (wrk'.ended <=> m + 1 = Len(dir)) /\ (~wrk'.ended => Place(m + 1)')
    <3>1. CASE wrk.offset + 1 < DirPerSector
      BY <1>1, <2>1, <2>2, <3>1, NextInSector
    <3>2. CASE ~(wrk.offset + 1 < DirPerSector)
      BY <1>1, <2>1, <2>2, <3>2, NextSector
    <3>3. QED
      BY <3>1, <3>2
  <2>4. \A j \in 1 .. m + 1 : dir[j] \notin {"boot", "last"}
    <3>1. ASSUME NEW j \in 1 .. m + 1 PROVE dir[j] \notin {"boot", "last"}
      <4>1. j \in 1 .. m \/ j = m + 1
        BY <1>3
      <4>2. QED
        BY <1>3, <1>4, <1>7, <4>1
    <3>2. QED
      BY <3>1
  <2>5. SearchAt(m + 1)'
    BY <1>1, <2>3, <2>4 DEF SearchAt, card
  <2>6. QED
    BY <1>2, <2>1, <2>2, <2>5
<1>8. QED
  BY <1>5, <1>6, <1>7

LEMMA SearchStep == TypeInv /\ SearchInv /\ [Next]_vars => SearchInv'
<1> SUFFICES ASSUME TypeInv, SearchInv, [Next]_vars PROVE SearchInv'
  OBVIOUS
<1>1. CASE FAT_InitFiles
  <2>1. pc' \in {"lost", "main"}
    BY <1>1 DEF FAT_InitFiles
  <2>2. QED
    BY <2>1 DEF SearchInv, FindsBootFile
<1>2. CASE UseStored \/ \E r \in Requests : Read(r[1], r[2])
  <2>1. pc' \in {"ready", "seek"}
    BY <1>2 DEF UseStored, Read
  <2>2. QED
    BY <2>1 DEF SearchInv, FindsBootFile
<1>3. CASE Seek \/ ReadFirst \/ ReadSectors \/ ReadLast
  <2>1. pc' \in {"seek", "sectors", "done"}
    BY <1>3 DEF Seek, ReadFirst, ReadSectors, ReadLast
  <2>2. QED
    BY <2>1 DEF SearchInv, FindsBootFile
<1>4. CASE SearchStart \/ SearchTurn
  <2> SUFFICES ASSUME Understood', RootFound'
               PROVE  /\ pc' = "search" => \E m \in 0 .. Len(dir') : SearchAt(m)'
                      /\ FindsBootFile'
    BY DEF SearchInv
  <2>1. UNCHANGED <<card, disc>>
    BY <1>4 DEF SearchStart, SearchTurn
  <2>2. Understood /\ RootFound /\ dir' = dir /\ v' = v
    BY <2>1, SameKnown DEF RootFound
  <2>3. CASE SearchStart
    <3>1. pc' = "search" /\ SearchAt(0)'
      BY <2>2, <2>3, SearchBegins DEF SearchStart
    <3>2. 0 \in 0 .. Len(dir')
      BY <2>2, DirNotEmpty DEF TypeInv
    <3>3. QED
      BY <3>1, <3>2 DEF FindsBootFile
  <2>4. CASE SearchTurn
    <3>1. PICK m \in 0 .. Len(dir) : SearchAt(m)
      BY <2>2, <2>4 DEF SearchInv, SearchTurn
    <3>2. QED
      BY <2>2, <2>4, <3>1, SearchTurns DEF FindsBootFile
  <2>5. QED
    BY <1>4, <2>3, <2>4
<1>5. CASE UNCHANGED vars
  <2>1. UNCHANGED <<card, disc, pc, wrk>>
    BY <1>5 DEF vars, card
  <2>2. \A m : SearchAt(m)' <=> SearchAt(m)
    BY <2>1 DEF SearchAt, Place, card, RootStart, FatStart, SectorsPerFAT, ClusterStart, DataStart
  <2>3. QED
    BY <2>1, <2>2, SameKnown DEF SearchInv, FindsBootFile, RootFound
<1>6. QED
  BY <1>1, <1>2, <1>3, <1>4, <1>5 DEF Next, Loops

LEMMA SearchInit == Init => SearchInv
BY DEF Init, SearchInv, FindsBootFile

\* Wherever the root directory's sectors are and whatever it lists, the search
\* finds BOOT.NDS exactly if it is listed before the directory's end.
THEOREM FindsFile == Spec => []FindsBootFile
<1>1. SearchInv => FindsBootFile
  BY DEF SearchInv, FindsBootFile, RootFound
<1>2. QED
  BY <1>1, TypeInit, TypeStep, SearchInit, SearchStep, PTL DEF Spec
=============================================================================
