------------------------------- MODULE FatFs -------------------------------
(***************************************************************************)
(* FatFs (ff.c) as the GBA loader builds it: read only, one volume, short  *)
(* names, no relative paths.  f_mount looks for a FAT volume, f_open       *)
(* follows a path from the root directory, f_read reads the open file.     *)
(* Each turn of their loops is an action; any command to the card may      *)
(* fail.                                                                   *)
(*                                                                         *)
(* The window fs->win is two things: the sector its tag names and the      *)
(* sector its bytes are from.  After a failed command they may differ.     *)
(***************************************************************************)
EXTENDS FatPacking, Sequences, FiniteSetsExt

CONSTANTS
  SS,                   \* FF_MIN_SS = FF_MAX_SS, 512
  DirPerSector,         \* SS / SZDIRE, 16
  MAX_DIR,              \* entries of a directory, 65536
  MAX_FAT12, MAX_FAT16, \* most clusters of a volume of that kind
  MinSectors,           \* fewest sectors of a volume, 128
  BufSize,              \* sizeof(filebuf), 0x20000
  Cards,                \* see ProperCard
  MaxErrors             \* bound on the commands that fail

MAX_FAT32 == 268435445          \* 0x0FFFFFF5

VARIABLES
  card,         \* the card, see ProperCard
  status,       \* diskio.c's status
  win,          \* fs->winsect, and the sector the bytes of fs->win are from
  fs,           \* the other fields of FATFS
  dp,           \* f_open's DIR and the rest of its path
  fil,          \* the FIL
  rd,           \* f_read's btr and *br
  buf,          \* the caller's buffer
  op,           \* the loop that runs
  res,          \* the last call's FRESULT
  ioErrors      \* commands that failed

fatVars == <<card, status, win, fs, dp, fil, rd, buf, op, res, ioErrors>>

-----------------------------------------------------------------------------
\* Boot sectors

NoBpb == [jmp |-> FALSE, sig |-> FALSE, fat32 |-> FALSE, ss |-> 0, csize |-> 0,
          nrsv |-> 0, fats |-> 0, rootent |-> 0, tot |-> 0, fatsz |-> 0, rootclus |-> 0]

PowerOf2(n) == n \in {1, 2, 4, 8, 16, 32, 64, 128}

\* What check_fs takes for a volume's boot sector
IsFatBoot(b) ==
  /\ b.jmp
  /\ \/ b.sig /\ b.fat32
     \/ /\ b.ss = SS /\ PowerOf2(b.csize) /\ b.nrsv # 0 /\ b.fats \in {1, 2}
        /\ b.rootent # 0 /\ b.tot >= MinSectors /\ b.fatsz # 0

\* mount_volume: the sectors in front of the clusters, the clusters, the kind of FAT
sysect(b) == b.nrsv + b.fats * b.fatsz + b.rootent \div DirPerSector
nclst(b) == IF b.csize = 0 \/ b.tot < sysect(b) THEN 0 ELSE (b.tot - sysect(b)) \div b.csize
KindOf(n) ==
  IF n <= MAX_FAT12 THEN 12
  ELSE IF n <= MAX_FAT16 THEN 16
  ELSE IF n <= MAX_FAT32 THEN 32 ELSE 0

\* ... and its tests
IsVolume(b) ==
  LET kind == KindOf(nclst(b))
  IN  /\ b.ss = SS /\ b.fats \in {1, 2} /\ PowerOf2(b.csize)
      /\ b.rootent % DirPerSector = 0 /\ b.nrsv # 0 /\ nclst(b) # 0
      /\ kind # 0 /\ (kind = 32 <=> b.rootent = 0)
      /\ b.fatsz >= CeilDiv(CeilDiv((nclst(b) + 2) * kind, 8), SS)

-----------------------------------------------------------------------------
\* The card

Last == [name |-> "last", attr |-> "none", obj |-> "none"]

\* An empty entry, a label, or an object of card c
ProperEntry(c, e) ==
  \/ e = Last
  \/ /\ e \in [name : STRING, attr : {"file", "dir", "label"}, obj : STRING]
     /\ e.name # "last"
     /\ e.attr = "file" => e.obj \in DOMAIN c.size
     /\ e.attr = "dir" => e.obj \in DOMAIN c.dirs \ {"root"} /\ c.chains[e.obj] # <<>>

\* Does FatFs take card c for the volume it is?
Mountable(c) == IsFatBoot(c.bpb) /\ IsVolume(c.bpb) /\ KindOf(nclst(c.bpb)) = c.kind

\* Entries the sectors of directory d have room for
Room(c, d) ==
  IF d = "root" /\ c.kind # 32 THEN c.bpb.rootent
  ELSE Len(c.chains[d]) * (c.bpb.csize * DirPerSector)

InVolume(c, x) == \A i \in DOMAIN c.chains[x] : c.chains[x][i] <= nclst(c.bpb) + 1

\* table: the partitions' first sectors; part: the volume's first sector; bpb: its
\* boot sector; kind: the bits of its FAT entries; chains: the clusters of every
\* object on it, no cluster in two places; dirs: the entries of its directories;
\* size: of its files; branch: do they begin with a branch?  proper: is it a volume
\* of the FAT specification, and none at the limits, where FatFs takes another kind?
\* Directories are sound also where it is not.
ProperCard(c) ==
  /\ c.table \in [1 .. 4 -> Nat] /\ c.part \in Nat
  /\ c.kind \in {12, 16, 32} /\ c.branch \in BOOLEAN /\ c.proper \in BOOLEAN
  /\ {c.bpb.jmp, c.bpb.sig, c.bpb.fat32} \subseteq BOOLEAN
  /\ {c.bpb.ss, c.bpb.csize, c.bpb.nrsv, c.bpb.fats, c.bpb.rootent, c.bpb.tot, c.bpb.fatsz,
      c.bpb.rootclus} \subseteq Nat
  /\ \A x \in DOMAIN c.chains : c.chains[x] \in Seq(2 .. EndMark(c.kind) - 1)
  /\ \A x, y \in DOMAIN c.chains : \A i \in DOMAIN c.chains[x], j \in DOMAIN c.chains[y] :
       c.chains[x][i] = c.chains[y][j] => x = y /\ i = j
  /\ "root" \in DOMAIN c.dirs /\ DOMAIN c.dirs \cup DOMAIN c.size \subseteq DOMAIN c.chains
  /\ DOMAIN c.size \cap ({"root", "none"} \cup DOMAIN c.dirs) = {}
  /\ \A x \in DOMAIN c.size : x \in STRING /\ c.size[x] \in Nat
  /\ \A d \in DOMAIN c.dirs :
       Len(c.dirs[d]) \in Nat /\ DOMAIN c.dirs[d] = 1 .. Len(c.dirs[d])
         /\ \A i \in DOMAIN c.dirs[d] : ProperEntry(c, c.dirs[d][i])
  /\ Mountable(c) =>
       /\ \A d \in DOMAIN c.dirs : InVolume(c, d) /\ Len(c.dirs[d]) <= Room(c, d)
       /\ c.kind = 32 => c.chains["root"] # <<>> /\ c.bpb.rootclus = c.chains["root"][1]
  /\ c.proper =>
       /\ Mountable(c) /\ (c.part = 0 \/ \E i \in 1 .. 4 : c.table[i] = c.part)
       /\ \A x \in DOMAIN c.size :
            InVolume(c, x) /\ c.size[x] <= Len(c.chains[x]) * (c.bpb.csize * SS)

ASSUME FatFsAssumption ==
  /\ {SS, DirPerSector, MAX_DIR, BufSize} \subseteq Nat \ {0}
  /\ SS % 4 = 0 /\ BufSize % SS = 0 /\ MinSectors \in Nat /\ MaxErrors \in Nat
  /\ MAX_FAT12 \in 0 .. 4085 /\ MAX_FAT16 \in MAX_FAT12 .. 65525

ASSUME CardsAssumption == \A c \in Cards : ProperCard(c)

NoSector == -1          \* (LBA_t)0 - 1
Junk == -1
Invalid == [sect |-> NoSector, data |-> Junk]

\* What check_fs and mount_volume read of a sector
Boot(s) ==
  IF s = card.part THEN card.bpb ELSE IF s = 0 THEN [NoBpb EXCEPT !.sig = TRUE] ELSE NoBpb

\* Where the volume's structures are
FatStart == card.part + card.bpb.nrsv
RootStart == FatStart + card.bpb.fats * card.bpb.fatsz
ClusterStart(c) == RootStart + card.bpb.rootent \div DirPerSector + (c - 2) * card.bpb.csize

\* Entry c of the FAT
FatEntry(c) ==
  LET holders == {x \in DOMAIN card.chains :
                    \E i \in DOMAIN card.chains[x] : card.chains[x][i] = c}
  IN  IF holders = {} THEN 0
      ELSE LET s == card.chains[CHOOSE x \in holders : TRUE]
               i == CHOOSE i \in DOMAIN s : s[i] = c
           IN  IF i < Len(s) THEN s[i + 1] ELSE EndMark(card.kind)

\* Byte o of sector s, read as a part of a FAT
FatByte(s, o) ==
  IF s - FatStart \in 0 .. card.bpb.fats * card.bpb.fatsz - 1
  THEN PackedByte(card.kind, FatEntry, ((s - FatStart) % card.bpb.fatsz) * SS + o)
  ELSE 0

\* The sectors of object x, in its order
SectorsOf(x) ==
  IF x = "root" /\ card.kind # 32
  THEN [k \in 1 .. card.bpb.rootent \div DirPerSector |-> RootStart + k - 1]
  ELSE [k \in 1 .. Len(card.chains[x]) * card.bpb.csize |->
          ClusterStart(card.chains[x][1 + (k - 1) \div card.bpb.csize])
            + ((k - 1) % card.bpb.csize)]
Holds(x, s) == \E k \in DOMAIN SectorsOf(x) : SectorsOf(x)[k] = s
Place(x, s) == (CHOOSE k \in DOMAIN SectorsOf(x) : SectorsOf(x)[k] = s) - 1

\* Entry o of sector s, read as a part of a directory.  A directory is filled up
\* with zeros.
EntryAt(s, o) ==
  LET holders == {d \in DOMAIN card.dirs : Holds(d, s)}
  IN  IF holders = {} THEN Last
      ELSE LET d == CHOOSE d \in holders : TRUE
               k == Place(d, s) * DirPerSector + o + 1
           IN  IF k \in DOMAIN card.dirs[d] THEN card.dirs[d][k] ELSE Last

\* Byte o of sector s, read as a part of a file: which file, and where in it
NoByte == <<"none", 0>>
FileByte(s, o) ==
  LET holders == {x \in DOMAIN card.size : Holds(x, s)}
  IN  IF holders = {} THEN NoByte
      ELSE LET x == CHOOSE x \in holders : TRUE
           IN  <<x, Place(x, s) * SS + o>>

-----------------------------------------------------------------------------
\* A command to the card may fail
MayFail == ioErrors < MaxErrors
Count(failed) == ioErrors' = ioErrors + (IF failed THEN 1 ELSE 0)

\* Fault: a window whose command failed keeps its new tag.
move_window_Tagged(w, s) ==
  IF s = w.sect THEN {w}
  ELSE {[sect |-> s, data |-> s]} \cup
       (IF MayFail THEN {[sect |-> s, data |-> Junk]} ELSE {})

\* The windows after move_window; it failed if the tag is not s
move_window(w, s) ==
  IF s = w.sect THEN {w}
  ELSE {[sect |-> s, data |-> s]} \cup (IF MayFail THEN {Invalid} ELSE {})

clst2sect(c) == IF c - 2 \in 0 .. fs.n_fatent - 3 THEN fs.database + fs.csize * (c - 2) ELSE 0

DiskError == 2147483647         \* 0xFFFFFFFF

\* Fault: both bytes of a 12-bit entry are taken from the first byte's sector.
get_fat_OneSector(w, c) ==
  LET p == IF fs.fs_type = 12 THEN c + c \div 2 ELSE c * (fs.fs_type \div 8)
      sect == fs.fatbase + p \div SS
      Value(x) ==
        LET B(k) == FatByte(x.data, (p + k) % SS)
            wc == B(0) + 256 * B(1)
        IN  IF fs.fs_type = 12 THEN IF c % 2 = 1 THEN wc \div 16 ELSE wc % 4096
            ELSE IF fs.fs_type = 16 THEN wc
            ELSE wc + 65536 * (B(2) + 256 * (B(3) % 16))
  IN  IF c < 2 \/ c >= fs.n_fatent THEN {[val |-> 1, win |-> w]}
      ELSE {[val |-> IF x.sect = sect THEN Value(x) ELSE DiskError, win |-> x] :
              x \in move_window(w, sect)}

\* The results of get_fat, each with the window it leaves.  A 12-bit entry may lie
\* in two sectors.
get_fat(w, c) ==
  LET p == IF fs.fs_type = 12 THEN c + c \div 2 ELSE c * (fs.fs_type \div 8)
      Sect(k) == fs.fatbase + (p + k) \div SS
      Wide(x) ==
        LET B(k) == FatByte(x.data, (p + k) % SS)
        IN  B(0) + 256 * B(1)
              + (IF fs.fs_type = 32 THEN 65536 * (B(2) + 256 * (B(3) % 16)) ELSE 0)
      Packed(x, y) ==
        LET wc == FatByte(x.data, p % SS) + 256 * FatByte(y.data, (p + 1) % SS)
        IN  IF c % 2 = 1 THEN wc \div 16 ELSE wc % 4096
      Failed(x) == [val |-> DiskError, win |-> x]
  IN  IF c < 2 \/ c >= fs.n_fatent THEN {[val |-> 1, win |-> w]}
      ELSE UNION {IF x.sect # Sect(0) THEN {Failed(x)}
                  ELSE IF fs.fs_type # 12 THEN {[val |-> Wide(x), win |-> x]}
                  ELSE {IF y.sect = Sect(1) THEN [val |-> Packed(x, y), win |-> y]
                                            ELSE Failed(y) : y \in move_window(x, Sect(1))} :
                  x \in move_window(w, Sect(0))}

-----------------------------------------------------------------------------
\* f_mount

NoVolume == [fs_type |-> 0, probe |-> 0, csize |-> 0, n_rootdir |-> 0, n_fatent |-> 0,
             fatbase |-> 0, dirbase |-> 0, database |-> 0]
NoDir == [sclust |-> 0, clust |-> 0, sect |-> 0, dptr |-> 0, path |-> <<>>]
NoFile == [obj |-> "none", sclust |-> 0, objsize |-> 0, fptr |-> 0, clust |-> 0, sect |-> 0,
           err |-> "ok"]

FatInit ==
  /\ card \in Cards
  /\ status = "noinit"
  /\ win = Invalid /\ fs = NoVolume /\ dp = NoDir /\ fil = NoFile
  /\ rd = [btr |-> 0, br |-> 0]
  /\ buf = [i \in 1 .. BufSize |-> NoByte]
  /\ op = "idle" /\ res = "none" /\ ioErrors = 0

Return(r) == op' = "idle" /\ res' = r

\* startup and isInserted are the driver's.  A card that is not there does not
\* end f_mount: only STA_NOINIT does.
disk_initialize(started) ==
  status' \in IF started THEN {"ready", "nodisk"} ELSE {"noinit"}

f_mount(started) ==
  /\ op = "idle"
  /\ disk_initialize(started)
  /\ IF started THEN op' = "check" /\ res' = res ELSE Return("not_ready")
  /\ fs' = NoVolume /\ win' = Invalid
  /\ UNCHANGED <<card, dp, fil, rd, buf, ioErrors>>

\* 0: a FAT boot sector, 2 and 3: another sector, 4: error
check_fs(w, s) ==
  IF w.sect # s THEN 4
  ELSE IF IsFatBoot(Boot(w.data)) THEN 0
  ELSE IF Boot(w.data).sig THEN 2 ELSE 3

\* One turn of find_volume: sector 0, then the partitions.  A partition whose
\* boot sector cannot be read is passed over like one without a FAT.
find_volume ==
  /\ op = "check"
  /\ \E s \in {IF fs.probe = 0 THEN 0 ELSE card.table[fs.probe]} :
     \E w \in IF fs.probe > 0 /\ s = 0 THEN {win} ELSE move_window(Invalid, s) :
     \E fmt \in {IF fs.probe > 0 /\ s = 0 THEN 3 ELSE check_fs(w, s)} :
       /\ win' = w /\ Count(fmt = 4)
       /\ \E next \in {fmt # 0 /\ (IF fs.probe = 0 THEN fmt = 2 ELSE fs.probe < 4)} :
          \/ /\ fmt = 0
             /\ op' = "geometry" /\ UNCHANGED <<fs, res>>
          \/ /\ next
             /\ fs' = [fs EXCEPT !.probe = @ + 1] /\ UNCHANGED <<op, res>>
          \/ /\ fmt # 0 /\ ~next
             /\ Return(IF fmt = 4 THEN "disk_err" ELSE "no_filesystem") /\ UNCHANGED fs
  /\ UNCHANGED <<card, status, dp, fil, rd, buf>>

\* mount_volume, once the boot sector is in the window
mount_volume ==
  /\ op = "geometry"
  /\ LET b == Boot(win.data)
     IN  \/ /\ IsVolume(b)
            /\ fs' = [fs EXCEPT !.fs_type = KindOf(nclst(b)), !.csize = b.csize,
                        !.n_rootdir = b.rootent, !.n_fatent = nclst(b) + 2,
                        !.fatbase = win.sect + b.nrsv, !.database = win.sect + sysect(b),
                        !.dirbase = IF b.rootent = 0 THEN b.rootclus
                                    ELSE win.sect + b.nrsv + b.fats * b.fatsz]
            /\ Return("ok")
         \/ ~IsVolume(b) /\ Return("no_filesystem") /\ UNCHANGED fs
  /\ UNCHANGED <<card, status, win, dp, fil, rd, buf, ioErrors>>

-----------------------------------------------------------------------------
\* f_open.  create_name cuts the next segment off a path; here a path is the
\* sequence of its segments.

\* dir_sdi(dp, 0) at the directory that starts in cluster c
dir_sdi(c, path) ==
  LET clst == IF c = 0 /\ fs.fs_type = 32 THEN fs.dirbase ELSE c
  IN  [sclust |-> c, clust |-> clst, dptr |-> 0, path |-> path,
       sect |-> IF clst = 0 THEN fs.dirbase ELSE clst2sect(clst)]

\* Start dir_find in the directory of cluster c
StartFind(c, path) ==
  LET d == dir_sdi(c, path)
  IN  /\ dp' = d
      /\ IF d.sect = 0 THEN Return("int_err") ELSE op' = "find" /\ res' = res

f_open(path) ==
  /\ op = "idle" /\ fs.fs_type # 0 /\ status # "noinit"
  /\ fil' = NoFile
  /\ StartFind(0, path)
  /\ UNCHANGED <<card, status, win, fs, rd, buf, ioErrors>>

NotFound == IF Len(dp.path) = 1 THEN "no_file" ELSE "no_path"

\* Does entry e end the search?
Matches(e) == e.name # "last" /\ e.attr # "label" /\ e.name = Head(dp.path)

ld_clust(e) == IF card.chains[e.obj] = <<>> THEN 0 ELSE card.chains[e.obj][1]

\* The sector of the entry cannot be read, or the directory ends here
FindFails ==
  /\ op = "find"
  /\ \E w \in move_window(win, dp.sect) :
       LET failed == w.sect # dp.sect
       IN  /\ failed \/ EntryAt(w.data, dp.dptr % DirPerSector).name = "last"
           /\ win' = w /\ Count(failed)
           /\ Return(IF failed THEN "disk_err" ELSE NotFound)
  /\ UNCHANGED <<card, status, fs, dp, fil, rd, buf>>

\* follow_path: a segment before the last one has to be a directory
EnterDir ==
  /\ op = "find" /\ Len(dp.path) > 1
  /\ \E w \in move_window(win, dp.sect) :
       LET e == EntryAt(w.data, dp.dptr % DirPerSector)
       IN  /\ w.sect = dp.sect /\ Matches(e)
           /\ win' = w
           /\ \/ e.attr = "dir" /\ StartFind(ld_clust(e), Tail(dp.path))
              \/ e.attr # "dir" /\ Return("no_path") /\ UNCHANGED dp
  /\ UNCHANGED <<card, status, fs, fil, rd, buf, ioErrors>>

\* f_open, once the last segment is found
OpenFile ==
  /\ op = "find" /\ Len(dp.path) = 1
  /\ \E w \in move_window(win, dp.sect) :
       LET e == EntryAt(w.data, dp.dptr % DirPerSector)
       IN  /\ w.sect = dp.sect /\ Matches(e)
           /\ win' = w
           /\ \/ /\ e.attr = "file"
                 /\ fil' = [NoFile EXCEPT !.obj = e.obj, !.sclust = ld_clust(e),
                                          !.objsize = card.size[e.obj]]
                 /\ Return("ok")
              \/ e.attr = "dir" /\ Return("no_file") /\ UNCHANGED fil
  /\ UNCHANGED <<card, status, fs, dp, rd, buf, ioErrors>>

\* The results of dir_next with window w: a value of dp, the window, the FRESULT
dir_next(w) ==
  LET ofs == dp.dptr + 1
      ended == [dp |-> [dp EXCEPT !.sect = 0], win |-> w, res |-> "no_file"]
      At(sect, clust, x) ==
        [dp |-> [dp EXCEPT !.dptr = ofs, !.sect = sect, !.clust = clust], win |-> x, res |-> "ok"]
      After(g) ==
        IF g.val <= 1 THEN [dp |-> dp, win |-> g.win, res |-> "int_err"]
        ELSE IF g.val = DiskError THEN [dp |-> dp, win |-> g.win, res |-> "disk_err"]
        ELSE IF g.val >= fs.n_fatent THEN [ended EXCEPT !.win = g.win]
        ELSE At(clst2sect(g.val), g.val, g.win)
  IN  IF ofs >= MAX_DIR THEN {ended}
      ELSE IF ofs % DirPerSector # 0 THEN {At(dp.sect, dp.clust, w)}
      ELSE IF dp.clust = 0
      THEN {IF ofs >= fs.n_rootdir THEN ended ELSE At(dp.sect + 1, 0, w)}
      ELSE IF (ofs \div DirPerSector) % fs.csize = 0
      THEN {After(g) : g \in get_fat(w, dp.clust)}
      ELSE {At(dp.sect + 1, dp.clust, w)}

\* Any other entry: on to the next
FindNext ==
  /\ op = "find"
  /\ \E w \in move_window(win, dp.sect) :
       LET e == EntryAt(w.data, dp.dptr % DirPerSector)
       IN  /\ w.sect = dp.sect /\ e.name # "last" /\ ~Matches(e)
           /\ \E n \in dir_next(w) :
                /\ dp' = n.dp /\ win' = n.win /\ Count(n.res = "disk_err")
                /\ IF n.res = "ok" THEN UNCHANGED <<op, res>>
                   ELSE Return(IF n.res = "no_file" THEN NotFound ELSE n.res)
  /\ UNCHANGED <<card, status, fs, fil, rd, buf>>

-----------------------------------------------------------------------------
\* f_read

\* Fault: the request is not cut at the end of the file.
f_read_Beyond(btr) ==
  /\ op = "idle" /\ fil.obj # "none" /\ fil.err = "ok" /\ status # "noinit"
  /\ rd' = [btr |-> btr, br |-> 0]
  /\ op' = "read"
  /\ UNCHANGED <<card, status, win, fs, dp, fil, buf, res, ioErrors>>

f_read(btr) ==
  /\ op = "idle" /\ fil.obj # "none" /\ fil.err = "ok" /\ status # "noinit"
  /\ rd' = [btr |-> Min({btr, fil.objsize - fil.fptr}), br |-> 0]
  /\ op' = "read"
  /\ UNCHANGED <<card, status, win, fs, dp, fil, buf, res, ioErrors>>

ReadEnds ==
  /\ op = "read" /\ rd.btr = 0
  /\ Return("ok")
  /\ UNCHANGED <<card, status, win, fs, dp, fil, rd, buf, ioErrors>>

csect == (fil.fptr \div SS) % fs.csize

\* The cluster of the file pointer: the first, the next on the FAT, or the present
Following ==
  IF fil.fptr % SS # 0 \/ csect # 0 THEN {[val |-> fil.clust, win |-> win]}
  ELSE IF fil.fptr = 0 THEN {[val |-> fil.sclust, win |-> win]}
  ELSE get_fat(win, fil.clust)

\* rcnt bytes from byte `from' of sector s on reach the buffer
Transfer(s, from, rcnt) ==
  /\ buf' = [i \in 1 .. BufSize |->
               IF i - 1 \in rd.br .. rd.br + rcnt - 1
               THEN FileByte(s + (from + i - 1 - rd.br) \div SS, (from + i - 1 - rd.br) % SS)
               ELSE buf[i]]
  /\ rd' = [btr |-> rd.btr - rcnt, br |-> rd.br + rcnt]

\* Fault: a request is not clipped at the end of the cluster.
Whole_Unclipped == rd.btr \div SS

\* Sectors that are read into the buffer at once
Whole == Min({rd.btr \div SS, fs.csize - csect})

\* Whole sectors go to the buffer, the end of the file through the sector cache
ReadTurn ==
  /\ op = "read" /\ rd.btr > 0
  /\ \E g \in Following :
     \E first \in {clst2sect(g.val)} :
     \E n \in {IF fil.fptr % SS = 0 THEN Whole ELSE 0} :
     \E rcnt \in {IF n > 0 THEN n * SS ELSE Min({SS - (fil.fptr % SS), rd.btr})} :
       /\ g.val >= 2 /\ g.val # DiskError /\ first # 0
       /\ win' = g.win
       /\ Transfer(first + csect, fil.fptr % SS, rcnt)
       /\ fil' = [fil EXCEPT !.clust = g.val, !.fptr = @ + rcnt,
                             !.sect = IF n > 0 THEN @ ELSE first + csect]
  /\ UNCHANGED <<card, status, fs, dp, op, res, ioErrors>>

\* The chain ends before the file or a command fails: ABORT keeps the error in the
\* file, and the caller's count stays what it was
Abort(r) == fil' = [fil EXCEPT !.err = r] /\ Return(r) /\ Count(r = "disk_err")

ReadFails ==
  /\ op = "read" /\ rd.btr > 0
  /\ \E g \in Following :
       LET broken == g.val < 2 \/ (g.val # DiskError /\ clst2sect(g.val) = 0)
           cached == fil.fptr % SS # 0
       IN  /\ win' = g.win
           /\ \/ broken /\ Abort("int_err")
              \/ g.val = DiskError /\ Abort("disk_err")
              \/ ~broken /\ g.val # DiskError /\ ~cached /\ MayFail /\ Abort("disk_err")
  /\ UNCHANGED <<card, status, fs, dp, rd, buf>>

FatStep ==
  \/ find_volume \/ mount_volume
  \/ FindFails \/ EnterDir \/ OpenFile \/ FindNext
  \/ ReadEnds \/ ReadTurn \/ ReadFails
=============================================================================
