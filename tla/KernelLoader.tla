---------------------------- MODULE KernelLoader ----------------------------
(***************************************************************************)
(* The GBA side of the firmware (SCFW_Stage2_GBA/source/main.c): it patches *)
(* its card driver, mounts the card, opens the first kernel.gba it finds,  *)
(* copies it block by block into the SDRAM that appears as the cartridge,  *)
(* verifying each block, and restarts into it.                             *)
(***************************************************************************)
EXTENDS FatFs

CONSTANTS
  Paths,                \* the kernel's three places, as segments
  MaxKernel,            \* 0x02000000
  SdramSize,            \* bytes of SDRAM the model keeps
  Boards                \* see ProperBoard

VARIABLES
  board,        \* the SuperCard, see ProperBoard
  driver,       \* the driver in _io_dldi_stub
  mode,         \* what the card's mode register enables
  pc,           \* main's step
  path,         \* the path f_open is called with
  total,        \* total_bytes
  sdram,        \* GBA_ROM while the SDRAM is mapped there
  screen,       \* the colour main stopped with
  hit           \* paths whose f_open met a failing command

mainVars == <<board, driver, mode, pc, path, total, sdram, screen, hit>>
vars == <<fatVars, mainVars>>

\* params: where the parameter block is, -1 if nowhere; status: what the mode
\* detection reads; cf: does the compact flash register answer?  wants: the
\* driver the card needs; fits: has the stub room for it?  bad: words of SDRAM
\* that do not keep what is written
ProperBoard(b) ==
  /\ b.params \in {-1, 0, 262144}
  /\ b.status \in 0 .. 65535
  /\ b.cf \in BOOLEAN /\ b.fits \in BOOLEAN
  /\ b.bad \subseteq 0 .. (SdramSize \div 4) - 1

ASSUME LoaderAssumption ==
  /\ BufSize % 4 = 0 /\ MaxKernel \in Nat /\ MaxKernel % 4 = 0
  /\ SdramSize \in Nat /\ SdramSize >= MaxKernel
  /\ Paths \in Seq(Seq(STRING)) /\ Paths # <<>> /\ \A i \in DOMAIN Paths : Len(Paths[i]) \in {1, 2}
  /\ \A c \in Cards : DOMAIN c.size \cap {"old", "broken"} = {}
  /\ \A b \in Boards : ProperBoard(b)

\* What SDRAM holds before, and what a bad word holds
Old == <<"old", 0>>
Broken == <<"broken", 0>>

Init ==
  /\ FatInit
  /\ board \in Boards
  /\ driver = "stub" /\ mode = {} /\ pc = "start" /\ path = 1
  /\ total = 0
  /\ sdram = [p \in 0 .. SdramSize - 1 |-> Old]
  /\ screen = "black" /\ hit = {}

Stop(colour) == pc' = "stopped" /\ screen' = colour

\* sc_commands.h's SUPERCARD_TYPE; bit 0 is SC_LITE
SC_SD == 0
SC_LITE == 1
SC_CF == 2
SC_RUMBLE == 17
UNK == -18

detect_supercard_type ==
  LET val == board.status - (board.status % 8192) + ((board.status \div 256) % 4) * 256
  IN  IF val = 40960 THEN SC_LITE
      ELSE IF val = 49152 THEN SC_RUMBLE
      ELSE IF val = 57344 THEN SC_SD
      ELSE IF board.cf THEN SC_CF ELSE UNK

\* The driver of that type
Detected ==
  IF detect_supercard_type % 2 = SC_LITE THEN "sc_lite"
  ELSE IF detect_supercard_type = SC_CF THEN "sccf" ELSE "scsd"

\* loadDldi.  Detection leaves the card in its flash mode; a driver that is too
\* large is not installed, and nobody is told.
LoadDldi ==
  /\ pc = "start" /\ board.params # -1
  /\ driver' = IF board.fits THEN Detected ELSE "stub"
  /\ mode' = {"flash"} /\ pc' = "mount"
  /\ UNCHANGED <<fatVars, board, path, total, sdram, screen, hit>>

NoParameters ==
  /\ pc = "start" /\ board.params = -1
  /\ Stop("black")
  /\ UNCHANGED <<fatVars, board, driver, mode, path, total, sdram, hit>>

\* The driver enables the card
Mount ==
  /\ pc = "mount"
  /\ \E started \in {driver = board.wants} :
       f_mount(started) /\ mode' = IF started THEN {"sdram", "sdcard"} ELSE mode
  /\ pc' = "mounting"
  /\ UNCHANGED <<board, driver, path, total, sdram, screen, hit>>

\* A driver whose card is not enabled gets no answer
Fat ==
  /\ "sdcard" \in mode /\ pc \in {"mounting", "opening", "reading"}
  /\ FatStep
  /\ hit' = IF pc = "opening" /\ ioErrors' # ioErrors THEN hit \cup {path} ELSE hit
  /\ UNCHANGED <<board, driver, mode, pc, path, total, sdram, screen>>

Mounted ==
  /\ pc = "mounting" /\ op = "idle"
  /\ IF res = "ok" THEN pc' = "open" /\ UNCHANGED screen ELSE Stop("green")
  /\ UNCHANGED <<fatVars, board, driver, mode, path, total, sdram, hit>>

Open ==
  /\ pc = "open"
  /\ f_open(Paths[path])
  /\ pc' = "opening"
  /\ UNCHANGED <<board, driver, mode, path, total, sdram, screen, hit>>

\* Any error sends main on to the next path
Opened ==
  /\ pc = "opening" /\ op = "idle"
  /\ \/ res = "ok" /\ pc' = "size" /\ UNCHANGED <<path, screen>>
     \/ res # "ok" /\ path < Len(Paths) /\ path' = path + 1 /\ pc' = "open" /\ UNCHANGED screen
     \/ res # "ok" /\ path = Len(Paths) /\ Stop("cyan") /\ UNCHANGED path
  /\ UNCHANGED <<fatVars, board, driver, mode, total, sdram, hit>>

CheckSize ==
  /\ pc = "size"
  /\ IF fil.objsize > MaxKernel THEN Stop("magenta") ELSE pc' = "read" /\ UNCHANGED screen
  /\ UNCHANGED <<fatVars, board, driver, mode, path, total, sdram, hit>>

Read ==
  /\ pc = "read"
  /\ f_read(BufSize)
  /\ pc' = "reading"
  /\ UNCHANGED <<board, driver, mode, path, total, sdram, screen, hit>>

\* A block goes to the SDRAM, if it is writable
CopyBlock ==
  /\ pc = "reading" /\ op = "idle" /\ res = "ok" /\ rd.br > 0
  /\ mode' = {"sdram", "write"}
  /\ sdram' = [p \in DOMAIN sdram |->
                 IF p - total \notin 0 .. rd.br - 1 THEN sdram[p]
                 ELSE IF p \div 4 \in board.bad THEN Broken
                 ELSE buf[p - total + 1]]
  /\ pc' = "verify"
  /\ UNCHANGED <<fatVars, board, driver, path, total, screen, hit>>

NoBlock ==
  /\ pc = "reading" /\ op = "idle"
  /\ \/ res # "ok" /\ Stop("yellow")
     \/ res = "ok" /\ rd.br = 0 /\ pc' = "total" /\ UNCHANGED screen
  /\ UNCHANGED <<fatVars, board, driver, mode, path, total, sdram, hit>>

\* Four bytes of SDRAM compared with four others: what was there before may equal
\* anything
Compared(p, bytes) ==
  LET same(i) == sdram[p + i - 1] = bytes[i]
      unknown(i) == sdram[p + i - 1] = Old
  IN  {eq \in BOOLEAN :
         /\ eq => \A i \in 1 .. 4 : same(i) \/ unknown(i)
         /\ ~eq => \E i \in 1 .. 4 : ~same(i)}

\* Fault: the card is left in the mode for writing.
Verify_Mode ==
  /\ pc = "verify"
  /\ \E equal \in Compared(total, SubSeq(buf, 1, 4)) :
       IF equal
       THEN /\ total' = total + rd.br /\ pc' = "read" /\ UNCHANGED <<mode, screen>>
       ELSE Stop("grey") /\ UNCHANGED <<mode, total>>
  /\ UNCHANGED <<fatVars, board, driver, path, sdram, hit>>

\* Fault: the first block is compared again.
Verify_First ==
  /\ pc = "verify"
  /\ \E equal \in Compared(0, SubSeq([i \in 1 .. BufSize |-> <<fil.obj, i - 1>>], 1, 4)) :
       IF equal
       THEN /\ mode' = {"sdram", "sdcard"} /\ total' = total + rd.br
            /\ pc' = "read" /\ UNCHANGED screen
       ELSE Stop("grey") /\ UNCHANGED <<mode, total>>
  /\ UNCHANGED <<fatVars, board, driver, path, sdram, hit>>

\* The first word of the block is compared with the buffer's
Verify ==
  /\ pc = "verify"
  /\ \E equal \in Compared(total, SubSeq(buf, 1, 4)) :
       IF equal
       THEN /\ mode' = {"sdram", "sdcard"} /\ total' = total + rd.br
            /\ pc' = "read" /\ UNCHANGED screen
       ELSE Stop("grey") /\ UNCHANGED <<mode, total>>
  /\ UNCHANGED <<fatVars, board, driver, path, sdram, hit>>

\* The top byte of the first word is a branch's
Branches ==
  IF sdram[3] \in {Old, Broken} THEN BOOLEAN ELSE {card.branch}

CheckTotal ==
  /\ pc = "total"
  /\ IF total # fil.objsize THEN Stop("blue") /\ UNCHANGED mode
     ELSE IF fil.err # "ok" THEN Stop("red") /\ UNCHANGED mode
     ELSE /\ mode' = {"sdram"}
          /\ \E branch \in Branches :
               IF branch THEN pc' = "started" /\ UNCHANGED screen ELSE Stop("olive")
  /\ UNCHANGED <<fatVars, board, driver, path, total, sdram, hit>>

MainStep ==
  \/ LoadDldi \/ NoParameters \/ Mount \/ Mounted \/ Open \/ Opened \/ CheckSize
  \/ Read \/ CopyBlock \/ NoBlock \/ Verify \/ CheckTotal

Next == MainStep \/ Fat

\* The console runs
Spec == Init /\ [][Next]_vars /\ WF_vars(Next)

-----------------------------------------------------------------------------
\* What the directories on the card say: labels are no names, a directory ends at
\* its first empty entry and after MAX_DIR entries.
Named(d, name) ==
  LET at == {i \in DOMAIN card.dirs[d] :
               /\ card.dirs[d][i].name = name /\ card.dirs[d][i].attr # "label"
               /\ i <= MAX_DIR
               /\ \A j \in 1 .. i : card.dirs[d][j].name # "last"}
  IN  IF at = {} THEN Last ELSE card.dirs[d][Min(at)]
FileIn(d, name) == IF Named(d, name).attr = "file" THEN Named(d, name).obj ELSE "none"

\* The file a path of one or two segments leads to, or "none"
Lookup(p) ==
  IF Len(p) = 1 THEN FileIn("root", p[1])
  ELSE IF Named("root", p[1]).attr = "dir" THEN FileIn(Named("root", p[1]).obj, p[2])
  ELSE "none"

Present == {i \in DOMAIN Paths : Lookup(Paths[i]) # "none"}

\* Is the mounted volume taken for what it is?
Mistaken == fs.fs_type \notin {0, card.kind}

\* Every variable holds a value of its type.
TypeOK ==
  /\ card \in Cards /\ board \in Boards
  /\ status \in {"noinit", "ready", "nodisk"}
  /\ win \in [sect : Int, data : Int]
  /\ op \in {"idle", "check", "geometry", "find", "read"}
  /\ rd.btr \in 0 .. BufSize /\ rd.br \in 0 .. BufSize /\ Len(buf) = BufSize
  /\ ioErrors \in 0 .. MaxErrors
  /\ fil.fptr \in 0 .. fil.objsize
  /\ pc \in {"start", "mount", "mounting", "open", "opening", "size", "read", "reading",
             "verify", "total", "started", "stopped"}
  /\ path \in DOMAIN Paths /\ total \in 0 .. fil.fptr
  /\ mode \subseteq {"flash", "sdram", "sdcard", "write"}
  /\ hit \subseteq DOMAIN Paths

\* Whatever the order of the file's clusters and of the FAT's bytes in sectors,
\* what f_read has put into the buffer are the file's bytes from the last call's
\* position on (ff.c:3937-4001).
ReadsTheFile ==
  ~Mistaken /\ pc = "reading" =>
    \A i \in 1 .. rd.br : buf[i] = <<fil.obj, total + i - 1>>

\* The kernel opened is the first one of the three paths, and a failing command
\* costs only the path it met: what the window held then is never taken for what
\* the card holds (ff.c:1089, main.c:94-100).
OpensFirst ==
  LET reachable == Present \ hit
  IN  ~Mistaken =>
        /\ pc = "size" => path \in Present /\ \A i \in reachable : path <= i
        /\ pc = "size" => fil.obj = Lookup(Paths[path])
        /\ screen = "cyan" => reachable = {}

\* What is started is all of that kernel, but for bad words the verification does
\* not look at: it compares the first word of each block (main.c:118).
StartsWholeKernel ==
  ~Mistaken /\ pc = "started" =>
    \A p \in 0 .. fil.objsize - 1 :
      \/ sdram[p] = <<fil.obj, p>>
      \/ p \div 4 \in board.bad /\ p % BufSize >= 4

\* Can the board and the card start a kernel, if no command fails?  What the mode
\* detection reads is true of the card.  The last
\* block must not be shorter than the word that is compared.
Startable ==
  /\ board.params # -1 /\ board.fits /\ board.bad = {} /\ board.wants = Detected
  /\ card.proper
  /\ Present # {}
  /\ LET size == card.size[Lookup(Paths[Min(Present)])]
     IN  size \in 4 .. MaxKernel /\ size % BufSize \notin 1 .. 3
  /\ card.branch

\* A kernel that can be started is never refused (main.c:89-141).
NeverRefused == Startable /\ ioErrors = 0 /\ ~Mistaken => pc # "stopped"

\* main ends with the kernel or with a coloured screen.
StartsOrStops == <>(pc \in {"started", "stopped"})
=============================================================================
