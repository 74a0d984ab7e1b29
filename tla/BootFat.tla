------------------------------ MODULE BootFat ------------------------------
(***************************************************************************)
(* The bootloader's FAT reader (fat.c): it finds the volume on the card,   *)
(* tells which kind of FAT it has, finds BOOT.NDS when hbmenu stored no    *)
(* cluster, and reads pieces of the file.                                  *)
(*                                                                         *)
(* The card is a volume, a file's cluster chain on it and its root         *)
(* directory.  A byte of the file is its position in the file, a byte of   *)
(* the FAT a number; the FAT is packed as the three kinds of FAT are.      *)
(***************************************************************************)
EXTENDS FatPacking, Sequences, FiniteSetsExt

CONSTANTS
  BYTES_PER_SECTOR,     \* 512
  DirPerSector,         \* BYTES_PER_SECTOR / sizeof(DIR_ENT), 16
  Limit12, Limit16,     \* clusters from which a volume is FAT16, FAT32: 4085, 65525
  Sector24,             \* sector numbers of three bytes, 2^24
  Volumes,              \* the volumes cards may have, see ProperVolume
  ChainLen,             \* clusters of the file
  Requests              \* <<startOffset, length>> of the reads

CLUSTER_FREE == 0
CLUSTER_FIRST == 2
CLUSTER_EOF == 268435455        \* 0x0FFFFFFF
FAT16_ROOT_DIR_CLUSTER == 0
Limit32 == 268435445            \* clusters a FAT32 volume may not have

VARIABLES
  v,            \* the volume
  chain,        \* the clusters of the file
  dir,          \* the entries of the root directory
  cluster,      \* storedFileCluster, then fileCluster and fileRead's cluster
  searched,     \* has getBootFileCluster been called?
  disc,         \* fat.c's disc... variables
  pc,           \* the step
  wrk,          \* getBootFileCluster's wrkDir... variables and firstSector
  rd,           \* fileRead's other variables
  buffer        \* its result

card == <<v, chain, dir>>
vars == <<v, chain, dir, cluster, searched, disc, pc, wrk, rd, buffer>>

-----------------------------------------------------------------------------
\* The card

\* A partition entry of the MBR: its flag, its type, its first sector
NoEntry == [active |-> FALSE, type |-> 0, start |-> 0]

Clusters(x) == CLUSTER_FIRST .. x.clusters + 1

\* fs: bits of a FAT entry; table: the MBR, <<>> on a card without; part: first
\* sector of the volume; mirrored, active: of the FATs
ProperVolume(x) ==
  /\ {x.clusters, x.part, x.rootEntries, x.active} \subseteq Nat
  /\ {x.sectorsPerCluster, x.reservedSectors, x.numFATs} \subseteq Nat \ {0}
  /\ x.fs \in {12, 16, 32} /\ x.mirrored \in BOOLEAN
  /\ \/ x.table = <<>> /\ x.part = 0
     \/ /\ DOMAIN x.table = 1 .. 4
        /\ \A i \in 1 .. 4 : x.table[i].active \in BOOLEAN /\ x.table[i].start \in Nat
        /\ \E i \in 1 .. 4 : x.table[i].start = x.part
  /\ x.active < x.numFATs
  /\ x.clusters < Limit12 <=> x.fs = 12
  /\ x.clusters < Limit16 <=> x.fs # 32
  /\ x.clusters < Limit32
  /\ x.rootEntries > 0 <=> x.fs # 32
  /\ x.rootEntries % DirPerSector = 0
  /\ x.rootChain \in Seq(Clusters(x))
  /\ \A i, j \in DOMAIN x.rootChain : i # j => x.rootChain[i] # x.rootChain[j]
  /\ x.rootChain # <<>> <=> x.fs = 32
  /\ x.mirrored => x.active = 0

ASSUME VolumesAssumption ==
  /\ BYTES_PER_SECTOR \in Nat \ {0} /\ BYTES_PER_SECTOR % 4 = 0
  /\ DirPerSector \in Nat \ {0} /\ ChainLen \in Nat \ {0} /\ Sector24 \in Nat \ {0}
  /\ Limit12 \in 1 .. 4085 /\ Limit16 \in Limit12 + 1 .. 65525
  /\ \A x \in Volumes : ProperVolume(x)

ASSUME RequestsAssumption == Requests \subseteq Nat \X Nat

SectorsPerFAT(x) == CeilDiv(CeilDiv((x.clusters + 2) * x.fs, 8), BYTES_PER_SECTOR)

\* Where the structures of volume x are
FatStart(x, k) == x.part + x.reservedSectors + k * SectorsPerFAT(x)
RootStart(x) == FatStart(x, x.numFATs)
DataStart(x) == RootStart(x) + x.rootEntries \div DirPerSector
NumSectors(x) == DataStart(x) - x.part + x.clusters * x.sectorsPerCluster
ClusterStart(x, c) == DataStart(x) + (c - CLUSTER_FIRST) * x.sectorsPerCluster

\* Entry c of the FAT in use
After(s, c, x) ==
  LET k == CHOOSE i \in DOMAIN s : s[i] = c
  IN  IF k < Len(s) THEN s[k + 1] ELSE EndMark(x.fs)
FatEntry(c) ==
  IF \E i \in DOMAIN chain : chain[i] = c THEN After(chain, c, v)
  ELSE IF \E i \in DOMAIN v.rootChain : v.rootChain[i] = c THEN After(v.rootChain, c, v)
  ELSE CLUSTER_FREE

\* Byte p of that FAT
FatByte(p) == PackedByte(v.fs, FatEntry, p)

\* Byte o of sector s, read as a part of the FAT.  A FAT that is not in use is
\* empty here, and so is any other sector.
SectorByte(s, o) ==
  LET copy == (s - FatStart(v, 0)) \div SectorsPerFAT(v)
  IN  IF copy \in 0 .. v.numFATs - 1 /\ (v.mirrored \/ copy = v.active)
      THEN FatByte((s - FatStart(v, copy)) * BYTES_PER_SECTOR + o)
      ELSE 0

\* Sector s, read as a part of the file: the position of its first byte
Junk == -1000
FilePosition(s) ==
  LET at == {i \in DOMAIN chain :
               s - ClusterStart(v, chain[i]) \in 0 .. v.sectorsPerCluster - 1}
  IN  IF at = {} THEN Junk
      ELSE LET i == CHOOSE i \in at : TRUE
           IN  BYTES_PER_SECTOR *
                 ((i - 1) * v.sectorsPerCluster + s - ClusterStart(v, chain[i]))
FileByte(s, o) == IF FilePosition(s) = Junk THEN Junk ELSE FilePosition(s) + o

\* Entry o of sector s, read as a part of the root directory
DirSectors(x) ==
  IF x.fs # 32 THEN [k \in 1 .. x.rootEntries \div DirPerSector |-> RootStart(x) + k - 1]
  ELSE [k \in 1 .. Len(x.rootChain) * x.sectorsPerCluster |->
          ClusterStart(x, x.rootChain[1 + (k - 1) \div x.sectorsPerCluster])
            + ((k - 1) % x.sectorsPerCluster)]
DirEntry(s, o) ==
  IF \E k \in DOMAIN DirSectors(v) : DirSectors(v)[k] = s
  THEN LET k == CHOOSE k \in DOMAIN DirSectors(v) : DirSectors(v)[k] = s
       IN  dir[(k - 1) * DirPerSector + o + 1]
  ELSE "other"

\* "label" has the name of "boot" but is a directory or a volume label; "last"
\* ends the directory, behind it may be old entries
Entries == {"boot", "label", "other", "last"}
Dirs(x) == [1 .. Len(DirSectors(x)) * DirPerSector -> Entries]

Chains(x) ==
  {s \in [1 .. ChainLen -> Clusters(x) \ {x.rootChain[i] : i \in DOMAIN x.rootChain}] :
     \A i, j \in 1 .. ChainLen : i # j => s[i] # s[j]}

-----------------------------------------------------------------------------
\* hbmenu stored the file's cluster, or none: then BOOT.NDS is searched.  In
\* the first case the directory, in the second the chain does not matter.
Init ==
  /\ v \in Volumes
  /\ chain \in Chains(v)
  /\ \/ /\ cluster = chain[1]
        /\ dir = [i \in 1 .. Len(DirSectors(v)) * DirPerSector |-> "other"]
     \/ /\ chain = CHOOSE s \in Chains(v) : TRUE
        /\ dir \in Dirs(v)
        /\ cluster \in {CLUSTER_FREE, CLUSTER_EOF}
  /\ searched = FALSE
  /\ pc = "init"
  /\ disc = [FileSystem |-> 0, FAT |-> 0, RootDir |-> 0, Data |-> 0, SecPerClus |-> 0,
             RootDirClus |-> 0]
  /\ wrk = [cluster |-> 0, first |-> 0, sector |-> 0, offset |-> 0, ended |-> FALSE]
  /\ rd = [start |-> 0, length |-> 0, chunks |-> 0, curSect |-> 0]
  /\ buffer = <<>>

\* Sector of the partition FAT_InitFiles goes to: the first active one, or else
\* the first with a type.  The top byte of its number is shifted, then masked
\* to nothing.
BootSector ==
  LET active == {i \in DOMAIN v.table : v.table[i].active}
      typed == {i \in DOMAIN v.table : v.table[i].type # 0}
      first == IF active # {} THEN Min(active) ELSE IF typed # {} THEN Min(typed) ELSE 0
  IN  IF first = 0 THEN 0 ELSE v.table[first].start % Sector24

\* Fault: a volume of exactly the limit counts as the smaller kind.
FileSystem_OffByOne(n) ==
  IF n <= Limit12 THEN 12 ELSE IF n <= Limit16 THEN 16 ELSE 32

\* discFileSystem, by the number of clusters
FileSystem(n) ==
  IF n < Limit12 THEN 12 ELSE IF n < Limit16 THEN 16 ELSE 32

\* FAT_InitFiles.  What it does with a sector that is no boot sector is left
\* open.  discNumSec counts from the volume's first sector, discData from the
\* card's.
FAT_InitFiles ==
  LET fat == BootSector + v.reservedSectors
      root == fat + v.numFATs * SectorsPerFAT(v)
      data == root + v.rootEntries \div DirPerSector
      fs == FileSystem((NumSectors(v) - data) \div v.sectorsPerCluster)
  IN  /\ pc = "init"
      /\ \/ /\ BootSector # v.part
            /\ pc' = "lost" /\ UNCHANGED disc
         \/ /\ BootSector = v.part
            /\ disc' = [FileSystem |-> fs, RootDir |-> root, Data |-> data,
                        FAT |-> IF fs = 32 /\ v.mirrored
                                THEN fat + SectorsPerFAT(v) * v.active ELSE fat,
                        SecPerClus |-> v.sectorsPerCluster,
                        RootDirClus |-> IF fs = 32 THEN v.rootChain[1]
                                        ELSE FAT16_ROOT_DIR_CLUSTER]
            /\ pc' = "main"
      /\ UNCHANGED <<card, cluster, searched, wrk, rd, buffer>>

FAT_ClustToSect(c) == (c - 2) * disc.SecPerClus + disc.Data
BytePerClus == BYTES_PER_SECTOR * disc.SecPerClus

\* Fault: the second byte of a 12-bit entry is taken from the first's sector.
FAT_NextCluster_OneSector(c) ==
  LET p == IF disc.FileSystem = 12 THEN (c * 3) \div 2 ELSE c * (disc.FileSystem \div 8)
      sector == disc.FAT + p \div BYTES_PER_SECTOR
      B(o) == SectorByte(sector, (p + o) % BYTES_PER_SECTOR)
      both == B(0) + 256 * B(1)
      quad == both + 65536 * (B(2) + 256 * (B(3) % 16))
  IN  IF disc.FileSystem = 12 THEN IF c % 2 = 1 THEN both \div 16 ELSE both % 4096
      ELSE IF disc.FileSystem = 16 THEN IF both >= 65527 THEN CLUSTER_EOF ELSE both
      ELSE IF quad >= 268435447 THEN CLUSTER_EOF ELSE quad

\* The end mark of a FAT12 chain is returned as it is
FAT_NextCluster(c) ==
  LET p == IF disc.FileSystem = 12 THEN (c * 3) \div 2 ELSE c * (disc.FileSystem \div 8)
      B(o) == SectorByte(disc.FAT + (p + o) \div BYTES_PER_SECTOR, (p + o) % BYTES_PER_SECTOR)
      both == B(0) + 256 * B(1)
      quad == both + 65536 * (B(2) + 256 * (B(3) % 16))
  IN  IF disc.FileSystem = 12 THEN IF c % 2 = 1 THEN both \div 16 ELSE both % 4096
      ELSE IF disc.FileSystem = 16 THEN IF both >= 65527 THEN CLUSTER_EOF ELSE both
      ELSE IF quad >= 268435447 THEN CLUSTER_EOF ELSE quad

-----------------------------------------------------------------------------
\* main: a stored cluster is used, otherwise getBootFileCluster starts
UseStored ==
  /\ pc = "main"
  /\ cluster >= CLUSTER_FIRST /\ cluster < CLUSTER_EOF
  /\ pc' = "ready"
  /\ UNCHANGED <<card, cluster, searched, disc, wrk, rd, buffer>>

SearchStart ==
  /\ pc = "main"
  /\ cluster < CLUSTER_FIRST \/ cluster >= CLUSTER_EOF
  /\ searched' = TRUE
  /\ wrk' = [cluster |-> disc.RootDirClus, first |-> disc.RootDir, sector |-> 0,
             offset |-> 0, ended |-> FALSE]
  /\ pc' = "search"
  /\ UNCHANGED <<card, cluster, disc, rd, buffer>>

\* The entry after the one wrk stands at: the next sector when this one is
\* used up, and its cluster's successor, or the end of a fixed root directory
NextEntry ==
  LET sector == wrk.sector + 1
      next == FAT_NextCluster(wrk.cluster)
      fixed == wrk.cluster = FAT16_ROOT_DIR_CLUSTER
  IN  IF wrk.offset + 1 < DirPerSector THEN [wrk EXCEPT !.offset = @ + 1]
      ELSE IF sector = disc.SecPerClus /\ ~fixed
      THEN [cluster |-> next, first |-> FAT_ClustToSect(next), sector |-> 0,
            offset |-> 0, ended |-> next = CLUSTER_EOF]
      ELSE [wrk EXCEPT !.sector = sector, !.offset = 0,
                       !.ended = fixed /\ sector = disc.Data - disc.RootDir]

Entry == DirEntry(wrk.first + wrk.sector, wrk.offset)

\* Fault: directories and labels are not told from files.
SearchTurn_AnyEntry ==
  /\ pc = "search"
  /\ LET notFound == wrk.ended \/ Entry = "last"
     IN  \/ /\ notFound
            /\ cluster' = CLUSTER_FREE /\ pc' = "failed" /\ UNCHANGED wrk
         \/ /\ ~notFound /\ Entry \in {"boot", "label"}
            /\ cluster' = chain[1] /\ pc' = "found" /\ UNCHANGED wrk
         \/ /\ ~notFound /\ Entry = "other"
            /\ wrk' = NextEntry /\ UNCHANGED <<cluster, pc>>
  /\ UNCHANGED <<card, searched, disc, rd, buffer>>

\* One turn of getBootFileCluster's loop.  Without BOOT.NDS main gives up; with
\* it, it goes on as with a stored cluster, which is not repeated here.
SearchTurn ==
  /\ pc = "search"
  /\ LET notFound == wrk.ended \/ Entry = "last"
     IN  \/ /\ notFound
            /\ cluster' = CLUSTER_FREE /\ pc' = "failed" /\ UNCHANGED wrk
         \/ /\ ~notFound /\ Entry = "boot"
            /\ cluster' = chain[1] /\ pc' = "found" /\ UNCHANGED wrk
         \/ /\ ~notFound /\ Entry # "boot"
            /\ wrk' = NextEntry /\ UNCHANGED <<cluster, pc>>
  /\ UNCHANGED <<card, searched, disc, rd, buffer>>

-----------------------------------------------------------------------------
\* loadBinary_ARM7 calls fileRead for a piece of the file
Read(start, length) ==
  /\ pc = "ready"
  /\ start < ChainLen * BytePerClus /\ start + length <= ChainLen * BytePerClus
  /\ rd' = [start |-> start, length |-> length,
            chunks |-> start \div BytePerClus, curSect |-> 0]
  /\ pc' = "seek"
  /\ UNCHANGED <<card, cluster, searched, disc, wrk, buffer>>

\* Fault: the cluster count is not decremented.
Seek_Forever ==
  /\ pc = "seek" /\ rd.chunks > 0
  /\ cluster' = FAT_NextCluster(cluster)
  /\ UNCHANGED <<card, searched, disc, pc, wrk, rd, buffer>>

\* Follow the cluster list
Seek ==
  /\ pc = "seek" /\ rd.chunks > 0
  /\ cluster' = FAT_NextCluster(cluster)
  /\ rd' = [rd EXCEPT !.chunks = @ - 1]
  /\ UNCHANGED <<card, searched, disc, pc, wrk, buffer>>

\* Bytes from..to of n sectors from sector s on of cluster c
SectorBytes(c, s, from, to) ==
  [i \in 1 .. to - from |->
     FileByte(s + (from + i - 1) \div BYTES_PER_SECTOR + FAT_ClustToSect(c),
              (from + i - 1) % BYTES_PER_SECTOR)]

\* The part up to the first sector boundary
ReadFirst ==
  LET curSect == (rd.start % BytePerClus) \div BYTES_PER_SECTOR
      curByte == rd.start % BYTES_PER_SECTOR
      beginBytes == IF BYTES_PER_SECTOR < rd.length + curByte
                    THEN BYTES_PER_SECTOR - curByte ELSE rd.length
  IN  /\ pc = "seek" /\ rd.chunks = 0
      /\ buffer' = SectorBytes(cluster, curSect, curByte, curByte + beginBytes)
      /\ rd' = [rd EXCEPT !.curSect = curSect + 1,
                          !.chunks = (rd.length - beginBytes) \div BYTES_PER_SECTOR]
      /\ pc' = "sectors"
      /\ UNCHANGED <<card, cluster, searched, disc, wrk>>

\* The next sector to read: of this cluster, or the first of its successor
Following ==
  IF rd.curSect < disc.SecPerClus THEN [cluster |-> cluster, sector |-> rd.curSect]
  ELSE [cluster |-> FAT_NextCluster(cluster), sector |-> 0]

\* Fault: a request is not cut where its sectors end.
ReadSectors_Whole ==
  /\ pc = "sectors" /\ rd.chunks > 0
  /\ \E at \in {Following} :
       LET n == disc.SecPerClus - at.sector
       IN  /\ cluster' = at.cluster
           /\ buffer' = buffer \o SectorBytes(at.cluster, at.sector, 0, n * BYTES_PER_SECTOR)
           /\ rd' = [rd EXCEPT !.curSect = at.sector + n, !.chunks = @ - n]
  /\ UNCHANGED <<card, searched, disc, pc, wrk>>

\* Fault: the successor is looked up as soon as a cluster is used up.
ReadSectors_Ahead ==
  /\ pc = "sectors" /\ rd.chunks > 0
  /\ \E at \in {Following} :
       LET n == Min({disc.SecPerClus - at.sector, rd.chunks})
           over == at.sector + n = disc.SecPerClus
       IN  /\ cluster' = IF over THEN FAT_NextCluster(at.cluster) ELSE at.cluster
           /\ buffer' = buffer \o SectorBytes(at.cluster, at.sector, 0, n * BYTES_PER_SECTOR)
           /\ rd' = [rd EXCEPT !.curSect = IF over THEN 0 ELSE at.sector + n,
                               !.chunks = @ - n]
  /\ UNCHANGED <<card, searched, disc, pc, wrk>>

\* The whole sectors of one cluster, in one command to the card
ReadSectors ==
  /\ pc = "sectors" /\ rd.chunks > 0
  /\ \E at \in {Following} :
       LET n == Min({disc.SecPerClus - at.sector, rd.chunks})
       IN  /\ cluster' = at.cluster
           /\ buffer' = buffer \o SectorBytes(at.cluster, at.sector, 0, n * BYTES_PER_SECTOR)
           /\ rd' = [rd EXCEPT !.curSect = at.sector + n, !.chunks = @ - n]
  /\ UNCHANGED <<card, searched, disc, pc, wrk>>

\* Bytes left over
ReadLast ==
  /\ pc = "sectors" /\ rd.chunks = 0
  /\ LET rest == rd.length - Len(buffer)
     IN  \/ /\ rest > 0
            /\ \E at \in {Following} :
                 /\ cluster' = at.cluster
                 /\ buffer' = buffer \o SectorBytes(at.cluster, at.sector, 0, rest)
         \/ rest = 0 /\ UNCHANGED <<cluster, buffer>>
  /\ pc' = "done"
  /\ UNCHANGED <<card, searched, disc, wrk, rd>>

-----------------------------------------------------------------------------
Loops == SearchTurn \/ Seek \/ ReadFirst \/ ReadSectors \/ ReadLast

Next ==
  \/ FAT_InitFiles
  \/ UseStored
  \/ SearchStart
  \/ \E r \in Requests : Read(r[1], r[2])
  \/ Loops

\* The ARM7 runs
Spec == Init /\ [][Next]_vars /\ WF_vars(Loops)

-----------------------------------------------------------------------------
\* Has the kind of FAT been recognised, and is the FAT that is followed the one
\* in use?  Only then do the steps after it mean anything.
KindKnown == disc.FileSystem = v.fs
Understood == KindKnown /\ disc.FAT = FatStart(v, v.active)

\* Every variable holds a value of its type; no count of sectors or clusters
\* falls below 0 (fat.c:508-592).
TypeOK ==
  /\ v \in Volumes /\ chain \in Seq(Nat) /\ dir \in Seq(Entries)
  /\ cluster \in Nat /\ searched \in BOOLEAN
  /\ disc \in [FileSystem : {0, 12, 16, 32}, FAT : Nat, RootDir : Nat, Data : Nat,
              SecPerClus : Nat, RootDirClus : Nat]
  /\ pc \in {"init", "lost", "main", "search", "found", "failed", "ready", "seek",
             "sectors", "done"}
  /\ wrk \in [cluster : Nat, first : Int, sector : Nat, offset : 0 .. DirPerSector - 1,
             ended : BOOLEAN]
  /\ rd \in [start : Nat, length : Nat, chunks : Nat, curSect : Nat]
  /\ Len(buffer) <= rd.length

\* Is the volume's partition the first active one, or else the first with a type?
FirstPartition ==
  v.table # <<>> =>
    \E i \in 1 .. 4 :
      /\ v.table[i].start = v.part
      /\ \/ v.table[i].active /\ \A k \in 1 .. i - 1 : ~v.table[k].active
         \/ /\ \A k \in 1 .. 4 : ~v.table[k].active
            /\ v.table[i].type # 0 /\ \A k \in 1 .. i - 1 : v.table[k].type = 0

\* FAT_InitFiles goes to the volume's boot sector and finds out the kind of its
\* FAT.  It takes the volume for smaller than it is by the sectors before it
\* (fat.c:383-387), so that much must be to spare above the limit; and the
\* partition must start below sector 2^24 (fat.c:346).
Recognised ==
  LET seen == v.clusters - CeilDiv(v.part, v.sectorsPerCluster)
      limit == IF v.fs = 12 THEN seen ELSE IF v.fs = 16 THEN Limit12 ELSE Limit16
  IN  pc # "init" /\ FirstPartition /\ v.part < Sector24 /\ seen >= limit =>
        pc # "lost" /\ KindKnown

\* Whatever the chain's order, the kind of FAT and the request's alignment, what
\* has been read so far are the bytes of the file from startOffset on, and in the
\* end it is as much as was asked for (fat.c:508-592).
BufferIsFile ==
  Understood =>
    /\ \A i \in DOMAIN buffer : buffer[i] = rd.start + i - 1
    /\ pc = "done" => Len(buffer) = rd.length

\* No request for bytes of the file follows its chain beyond the last cluster:
\* fileRead does not test what FAT_NextCluster returns.
StaysInChain ==
  Understood /\ pc \in {"seek", "sectors", "done"} => cluster \in {chain[i] : i \in DOMAIN chain}

\* getBootFileCluster finds BOOT.NDS exactly if the root directory lists it
\* before its end.  It starts at the sector after the FATs, so a FAT32 root
\* directory has to start in cluster 2 (fat.c:446).
FindsBootFile ==
  LET listed == \E i \in DOMAIN dir : dir[i] = "boot" /\ \A j \in 1 .. i : dir[j] # "last"
  IN  Understood /\ (v.fs = 32 => v.rootChain[1] = CLUSTER_FIRST) =>
        /\ pc = "found" => listed
        /\ pc = "failed" => ~listed

\* The search and every read come to an end.
Ends == [](pc \in {"search", "seek"} => <>(pc \in {"found", "failed", "done"}))
=============================================================================
