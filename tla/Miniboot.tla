------------------------------ MODULE Miniboot ------------------------------
(***************************************************************************)
(* The two ways into miniboot, and miniboot itself.                        *)
(*                                                                         *)
(* From the cartridge, the ARM7 runs the firmware's first instructions     *)
(* while the ARM9 waits in a loop of the console for an entry point.  On a *)
(* GBA the only CPU runs them.  From a program that returns to the menu,   *)
(* the ARM9 runs the bootstub miniboot left in memory, which has the ARM7  *)
(* reset itself through the program's FIFO handler and agrees with it on   *)
(* the moment by a handshake over IPCSYNC.                                 *)
(***************************************************************************)
EXTENDS MinibootIpc

CONSTANTS
  Leftovers             \* nibbles a returning program may leave in IPCSYNC

ASSUME LeftoverAssumption == Leftovers \subseteq Nibble

Chunk == \h4000                         \* memory is looked at in pieces of 16 KiB
ResetCmd == 12                          \* FIFO command that resets the other CPU
ChunkOf(offset) == offset \div Chunk     \* of an offset from 0x02000000
Code9 == ChunkOf(\h9000)
Mirror == ChunkOf(\h9000 + \h40000)
Code7 == ChunkOf(\h1800000)
GbaRam == 16                            \* chunks of a GBA's main RAM

VARIABLES
  from,         \* what starts miniboot: "cart", "rumble", "program"
  console,      \* "nds" or "gba"
  cpu9,         \* where the ARM9 is before miniboot, or "miniboot"
  cpu7,         \* where the ARM7 is before miniboot, or "miniboot"
  entry9,       \* is the ARM9's entry point in the header?
  ram,          \* main RAM as the firmware or the program left it, by chunks
  backup        \* what the start of SuperCard RAM holds

start == <<from, console, cpu9, cpu7, entry9, ram, backup>>
all == <<vars, start>>

Secure == {"card", "zero"}
NoBackup == [magic |-> FALSE, area |-> "none"]

FirmwareInit ==
  /\ from \in {"cart", "rumble"} /\ console \in {"nds", "gba"}
  /\ out9 = 0 /\ out7 = 0
  /\ cpu9 = "loop" /\ cpu7 = IF from = "cart" THEN "entry" ELSE "mirror"
  /\ \E area \in {<<"card", "zero">>, <<"zero", "card">>, <<"zero", "zero">>} :
       ram = [c \in {0, 1, Code9, Mirror, Code7} |->
                IF c \in {0, 1} THEN area[c + 1] ELSE "zero"]

ProgramInit ==
  /\ from = "program" /\ console = "nds"
  /\ out9 \in Leftovers /\ out7 \in Leftovers
  /\ cpu9 = "program" /\ cpu7 = "program"
  /\ ram = [c \in {0, 1, Code9, Mirror, Code7} |-> "program"]

MinibootInit ==
  /\ FirmwareInit \/ ProgramInit
  /\ entry9 = FALSE /\ backup = NoBackup
  /\ fifo \in {<<>>, <<4>>}
  /\ slow \in BOOLEAN
  /\ step9 = "crt0" /\ call = "no" /\ i = 0 /\ last = 0
  /\ header \in Headers
  /\ pc7 = "start" /\ r7 = 0 /\ r12 = 0 /\ args = <<>>
  /\ mem = [a \in Memory |-> <<"old", a>>]

-----------------------------------------------------------------------------
\* The cartridge's entry point, run by the ARM7 of an NDS or a GBA's CPU

Goto(from7, to7) == cpu7 = from7 /\ cpu7' = to7

\* On a GBA main RAM repeats after 256 KiB
Wrapped(c) == IF console = "gba" /\ c < Code7 THEN c % GbaRam ELSE c

\* sc_mode_flash_rw is copied to main RAM and run there
SwitchMode ==
  /\ Goto("entry", "mirror")
  /\ ram' = [ram EXCEPT ![Code9] = "switch"]
  /\ UNCHANGED <<vars, from, console, cpu9, entry9, backup>>

\* rumble_entrypoint writes 0, then 1 a mirror further up, and reads again
DetectConsole ==
  LET zeroed == [ram EXCEPT ![Code9] = "zero"] IN
  /\ cpu7 = "mirror"
  /\ ram' = [zeroed EXCEPT ![Wrapped(Mirror)] = "one"]
  /\ cpu7' = IF ram'[Code9] = "zero" THEN "load9" ELSE "gba"
  /\ UNCHANGED <<vars, from, console, cpu9, entry9, backup>>

\* load_gba copies the kernel loader to the start of main RAM and jumps there
LoadGba ==
  /\ Goto("gba", "loader")
  /\ ram' = [ram EXCEPT ![0] = "loader"]
  /\ UNCHANGED <<vars, from, console, cpu9, entry9, backup>>

\* Fault: miniboot is copied to the start of main RAM.
LoadMiniboot9_Low ==
  /\ Goto("load9", "load7")
  /\ ram' = [ram EXCEPT ![0] = "miniboot9", ![Code9] = "miniboot9"]
  /\ UNCHANGED <<vars, from, console, cpu9, entry9, backup>>

\* nds_code copies miniboot's two binaries, away from the secure area
LoadMiniboot9 ==
  /\ Goto("load9", "load7")
  /\ ram' = [ram EXCEPT ![Code9] = "miniboot9"]
  /\ UNCHANGED <<vars, from, console, cpu9, entry9, backup>>

LoadMiniboot7 ==
  /\ Goto("load7", "reset9")
  /\ ram' = [ram EXCEPT ![Code7] = "miniboot7"]
  /\ UNCHANGED <<vars, from, console, cpu9, entry9, backup>>

\* The ARM9's entry point is stored and the ARM7 jumps to its own
ResetArm9 ==
  /\ Goto("reset9", "miniboot")
  /\ entry9' = TRUE
  /\ UNCHANGED <<vars, from, console, cpu9, ram, backup>>

CartEntry ==
  SwitchMode \/ DetectConsole \/ LoadGba \/ LoadMiniboot9 \/ LoadMiniboot7 \/ ResetArm9

\* The console's loop finds the entry point
Arm9Enters ==
  /\ cpu9 = "loop" /\ entry9 /\ cpu9' = "miniboot"
  /\ UNCHANGED <<vars, from, console, cpu7, entry9, ram, backup>>

-----------------------------------------------------------------------------
\* The return of a program through the bootstub

\* The entry points are stored and the reset command is sent
StubSend ==
  /\ cpu9 = "program" /\ cpu9' = "wait1"
  /\ entry9' = TRUE
  /\ fifo' = Append(fifo, ResetCmd)
  /\ UNCHANGED <<vars9, vars7, mem, slow, from, console, cpu7, ram, backup>>

StubWait1 ==
  /\ cpu9 = "wait1" /\ out7 = 1
  /\ out9' = 1 /\ cpu9' = "wait0"
  /\ UNCHANGED <<out7, fifo, step9, call, i, last, header, pc7, r7, r12, args, mem, slow>>
  /\ UNCHANGED <<from, console, cpu7, entry9, ram, backup>>

\* Fault: the bootstub does not wait for the other CPU's 0.
StubWait0_No ==
  /\ cpu9 = "wait0"
  /\ out9' = 0 /\ cpu9' = "miniboot"
  /\ UNCHANGED <<out7, fifo, step9, call, i, last, header, pc7, r7, r12, args, mem, slow>>
  /\ UNCHANGED <<from, console, cpu7, entry9, ram, backup>>

\* The other CPU's 0 is answered with 0; the BIOS resets the ARM9
StubWait0 ==
  /\ cpu9 = "wait0" /\ out7 = 0
  /\ out9' = 0 /\ cpu9' = "miniboot"
  /\ UNCHANGED <<out7, fifo, step9, call, i, last, header, pc7, r7, r12, args, mem, slow>>
  /\ UNCHANGED <<from, console, cpu7, entry9, ram, backup>>

\* The program's handler on the ARM7 takes words until the reset command, and
\* answers as the bootstub expects it: 1, on 1 then 0, on 0 then the reset
PeerTakes ==
  /\ cpu7 = "program" /\ fifo # <<>>
  /\ fifo' = Tail(fifo)
  /\ IF Head(fifo) = ResetCmd THEN out7' = 1 /\ cpu7' = "wait1"
                              ELSE UNCHANGED <<out7, cpu7>>
  /\ UNCHANGED <<vars9, pc7, r7, r12, args, mem, slow, from, console, cpu9, entry9, ram, backup>>

PeerWait1 ==
  /\ Goto("wait1", "wait0") /\ out9 = 1
  /\ out7' = 0
  /\ UNCHANGED <<vars9, fifo, pc7, r7, r12, args, mem, slow, from, console, cpu9, entry9, ram, backup>>

PeerWait0 ==
  /\ Goto("wait0", "miniboot") /\ out9 = 0
  /\ UNCHANGED <<vars, from, console, cpu9, entry9, ram, backup>>

Bootstub == StubSend \/ StubWait1 \/ StubWait0
Peer == PeerTakes \/ PeerWait1 \/ PeerWait0

-----------------------------------------------------------------------------
\* miniboot

\* backupDecryptedHeaderAndSecureAreaAndHeaderToSCRam: the secure area is where
\* the first word is not 0; without one the magic is wiped
BackupArea ==
  CASE ram[0] # "zero" -> [magic |-> TRUE, area |-> ram[0]]
    [] ram[0] = "zero" /\ ram[1] # "zero" -> [magic |-> TRUE, area |-> ram[1]]
    [] OTHER -> [magic |-> FALSE, area |-> ram[0]]

\* In a slow behaviour the BIOS's reset and the move to ITCM take the ARM9
\* longer than the ARM7 needs to see that it may reset, too
Arm9Runs ==
  /\ cpu9 = "miniboot" /\ Arm9
  /\ slow /\ step9 = "crt0" => cpu7 = "miniboot"
  /\ backup' = IF step9 = "backup" THEN BackupArea ELSE backup
  /\ UNCHANGED <<from, console, cpu9, cpu7, entry9, ram>>

Arm7Runs == cpu7 = "miniboot" /\ Arm7 /\ UNCHANGED start

Arm9Next == Arm9Enters \/ Bootstub \/ Arm9Runs
Arm7Next == CartEntry \/ Peer \/ Arm7Runs

\* Both CPUs run, each at its own speed
MinibootSpec ==
  MinibootInit /\ [][Arm9Next \/ Arm7Next]_all /\ WF_all(Arm9Next) /\ WF_all(Arm7Next)

-----------------------------------------------------------------------------
\* A CPU enters miniboot, or the GBA's loader, only when its code is there; when
\* a program returns, the ARM9 enters it only when the ARM7 has left the program
\* and both nibbles are clear, whatever the program left in them.
EntersMiniboot ==
  /\ cpu9 = "miniboot" /\ step9 = "crt0" =>
       IF from = "program"
       THEN cpu7 \in {"wait0", "miniboot"} /\ out9 = 0 /\ out7 = 0 /\ fifo = <<>>
       ELSE ram[Code9] = "miniboot9"
  /\ cpu7 = "miniboot" /\ from # "program" => ram[Code7] = "miniboot7"
  /\ cpu7 = "loader" => console = "gba" /\ ram[0] = "loader"
  /\ cpu7 \in {"load9", "load7", "reset9", "miniboot"} => console = "nds"

\* When the console started the cartridge with a card inserted, SuperCard RAM
\* holds that card's secure area under the magic once it is backed up; without
\* a card there is no magic.
SecureAreaSaved ==
  from # "program" /\ step9 \notin {"crt0", "sync", "backup"} =>
    LET card == \E c \in {0, 1} : ram[c] = "card" IN
      (backup.magic <=> card) /\ (card => backup.area = "card")

\* With an ARM9 whose long jobs outlast the ARM7's answers no handshake locks
\* up: main reaches the program's entry point or one of its error stops, on a
\* GBA the kernel loader starts.  Excepted are a program whose ARM9 leaves the
\* nibble 1, as the ARM7 may then answer before the bootstub has seen its 1, and
\* the headers that get main lost (Astray).
BootCompletes ==
  slow /\ ~(from = "program" /\ out9 = 1) /\ ~Astray => <>(Finished \/ cpu7 = "loader")
=============================================================================
