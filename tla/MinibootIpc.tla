---------------------------- MODULE MinibootIpc ----------------------------
(***************************************************************************)
(* miniboot: the ARM9 loads the NDS binaries, the ARM7 follows its         *)
(* commands.                                                               *)
(*                                                                         *)
(* Each CPU writes a nibble of its IPCSYNC register that the other reads.  *)
(* The ARM9 writes a command and waits for the ARM7's nibble to change;    *)
(* the ARM7 polls for the command it expects and answers by bumping its    *)
(* counter.  No nibble says which command an answer belongs to, so the     *)
(* protocol stands on the two CPUs staying in step.  An ARM7 binary that   *)
(* belongs in ARM7 RAM is staged at the start of main RAM, where the ARM9  *)
(* binary may be loaded afterwards.  Addresses are bytes, the memories and *)
(* the address space are smaller; a header says where each binary belongs  *)
(* and how long it is, in words that wrap around at the address space's    *)
(* end.  The ARM9 binary may keep room for a card driver, which main       *)
(* patches in.                                                             *)
(***************************************************************************)
EXTENDS Integers, Sequences

CONSTANTS
  AddressSpace, \* addresses and sizes are 0 .. AddressSpace - 1
  MainEnd,      \* main RAM for binaries: addresses 0 .. MainEnd - 1
  Arm7Base,     \* ARM7 RAM: addresses Arm7Base .. Arm7End - 1
  Arm7End,
  DriverSize,   \* the card driver's size
  Headers,      \* headers an NDS image may have
  StartNibbles  \* what the program before may leave in the IPCSYNC registers

Nibble == 0 .. 15
Word == 0 .. AddressSpace - 1

\* What main goes by: the NDS header, and where in the ARM9 binary its room for
\* a driver is, and how large (0 if there is none)
Header == [start7: Word, size7: Word, entry7: Word, start9: Word, size9: Word, entry9: Word,
           dldi9: Word, space9: Word]
MainRam == 0 .. MainEnd - 1
Arm7Ram == Arm7Base .. Arm7End - 1
Memory == MainRam \cup Arm7Ram
Bytes == {"old", "arm7", "arm9", "driver"} \X Nat

ASSUME MemoryAssumption ==
  /\ MainEnd \in Nat /\ Arm7Base \in Nat /\ Arm7End \in Nat
  /\ MainEnd < Arm7Base /\ Arm7End - Arm7Base <= MainEnd
  /\ AddressSpace \in Nat /\ MainEnd + Arm7End < AddressSpace
  /\ DriverSize \in Nat \ {0}
\* A room for a driver is linked into its binary
ASSUME HeaderAssumption ==
  /\ Headers \subseteq Header
  /\ \A h \in Headers : h.space9 > 0 => h.dldi9 + h.space9 <= h.size9
ASSUME StartAssumption == StartNibbles \subseteq Nibble

VARIABLES
  out9,         \* nibble the ARM9 writes and the ARM7 reads
  out7,         \* nibble the ARM7 writes and the ARM9 reads
  fifo,         \* words from the ARM9 to the ARM7
  step9,        \* what main is doing
  call,         \* where main is in ipc_arm7_cmd: "no", "read", "write", "wait"
  i,            \* counter of main's running loop
  last,         \* ipc_arm7_cmd's last_sync
  header,       \* the image's header
  pc7,          \* the ARM7's step
  r7,           \* command the ARM7's sync loop waits for
  r12,          \* the ARM7's counter
  args,         \* r0, r2, r1: the words taken from the FIFO, the copy's registers
  mem,          \* contents of main RAM and ARM7 RAM, byte by byte
  slow          \* do the ARM9's long jobs outlast the ARM7's answers?

vars9 == <<out9, step9, call, i, last, header>>
vars7 == <<out7, pc7, r7, r12, args>>
vars == <<out9, out7, fifo, step9, call, i, last, header, pc7, r7, r12,
          args, mem, slow>>

Init ==
  /\ out9 \in StartNibbles /\ out7 \in StartNibbles
  /\ fifo \in {<<>>, <<4>>}             \* a word of the program before may be left
  /\ slow \in BOOLEAN
  /\ step9 = "crt0" /\ call = "no" /\ i = 0 /\ last = 0
  /\ header \in Headers
  /\ pc7 = "start" /\ r7 = 0 /\ r12 = 0 /\ args = <<>>
  /\ mem = [a \in Memory |-> <<"old", a>>]

-----------------------------------------------------------------------------
\* The header and the memory

InMainRam(start) == start \in MainRam          \* in_main_ram
InArm7Ram == header.start7 \in Arm7Ram         \* in_arm7_ram

\* uint32_t sums and differences
Uint32(n) == n % AddressSpace

\* main accepts the ARM7 binary's place
Arm7Fits ==
  /\ header.size7 > 0
  /\ Uint32(header.entry7 - header.start7) < header.size7
  /\ \/ InArm7Ram /\ Uint32(header.start7 + header.size7) \in Arm7Base + 1 .. Arm7End
     \/ InMainRam(header.start7) /\ Uint32(header.start7 + header.size7) \in 1 .. MainEnd

\* main accepts the ARM9 binary's place
Arm9Fits ==
  /\ header.size9 > 0
  /\ Uint32(header.entry9 - header.start9) < header.size9
  /\ InMainRam(header.start9) /\ Uint32(header.start9 + header.size9) \in 1 .. MainEnd

\* Where main reads the ARM7 binary to
Dest7 == IF InArm7Ram THEN 0 ELSE header.start7

\* readNds copies a binary from the flash to main RAM; word k of it is at
\* dest + 4 * k
readNds(binary, dest, size, k) ==
  [a \in Memory |-> IF a \in MainRam /\ a - dest \in 4 * k .. 4 * k + 3 /\ a - dest < size
                    THEN <<binary, a - dest>> ELSE mem[a]]
LastWord(size, k) == 4 * (k + 1) >= size
Overruns(dest, size, k) == dest + size > MainEnd /\ dest + 4 * k + 4 > MainEnd

\* What the driver takes of the ARM9 binary: its room but for the magic word
Room == header.start9 + header.dldi9 + 4 .. header.start9 + header.dldi9 + header.space9 - 1

\* dldi_patch_relocate copies as much as the room takes, relocated
Patched ==
  [a \in Memory |-> IF a \in Room THEN <<"driver", a - header.start9 - header.dldi9>> ELSE mem[a]]

\* One ldr and str of the ARM7
CopyWord(src, dst) ==
  [a \in Memory |-> IF a - dst \in 0 .. 3 /\ a - dst + src \in Memory
                    THEN mem[a - dst + src] ELSE mem[a]]

-----------------------------------------------------------------------------
\* The ARM9

\* The nibble of the command main sends at a step
Command ==
  CASE step9 = "sync" -> i % 16
    [] step9 = "copy" -> 1
    [] step9 = "release" -> 0
    [] step9 = "reset" -> 2

\* Fault: crt0 leaves the FIFO as it was.
Crt0_NoFlush ==
  /\ step9 = "crt0" /\ step9' = "sync"
  /\ out9' = 0 /\ i' = 1 /\ call' = "read"
  /\ UNCHANGED <<vars7, mem, fifo, last, header, slow>>

\* crt0 clears IPCSYNC and flushes its FIFO, main enters the sync loop
Crt0 ==
  /\ step9 = "crt0" /\ step9' = "sync"
  /\ out9' = 0 /\ fifo' = <<>>
  /\ i' = 1 /\ call' = "read"
  /\ UNCHANGED <<vars7, mem, last, header, slow>>

\* Fault: the nibble to compare with is kept from the call before.
CallRead_Stale ==
  /\ call = "read" /\ call' = "write"
  /\ last' = IF step9 = "sync" THEN out7 ELSE last
  /\ UNCHANGED <<vars7, mem, fifo, out9, step9, i, header, slow>>

\* ipc_arm7_cmd reads the ARM7's nibble, then writes the command
CallRead ==
  /\ call = "read" /\ call' = "write"
  /\ last' = out7
  /\ UNCHANGED <<vars7, mem, fifo, out9, step9, i, header, slow>>

CallWrite ==
  /\ call = "write" /\ call' = "wait"
  /\ out9' = Command
  /\ UNCHANGED <<vars7, mem, fifo, step9, i, last, header, slow>>

\* What main does after a command
After == [sync |-> "backup", copy |-> "check9", release |-> "load", reset |-> "done"]

\* ipc_arm7_cmd sees another nibble and returns
CallReturn ==
  /\ call = "wait" /\ out7 # last
  /\ \/ /\ step9 = "sync" /\ i < 16
        /\ i' = i + 1 /\ call' = "read"
        /\ UNCHANGED step9
     \/ /\ ~(step9 = "sync" /\ i < 16)
        /\ i' = 0 /\ call' = "no"
        /\ step9' = After[step9]
  /\ UNCHANGED <<vars7, mem, fifo, out9, last, header, slow>>

\* Secure area backup, bootstub, DLDI, header.  In a slow behaviour this takes
\* longer than the ARM7 needs to answer the last sync command.
Backup ==
  /\ step9 = "backup"
  /\ slow => pc7 = "poll"
  /\ step9' = IF Arm7Fits THEN "stage" ELSE "halt7"
  /\ UNCHANGED <<vars7, mem, fifo, out9, call, i, last, header, slow>>

\* The ARM7 binary is read, one word a step, to the start of main RAM or, when
\* it belongs in main RAM, to its own place.  Once the ARM9 overwrites what lies
\* behind main RAM main is lost, and nothing more is said of it.
Stage ==
  /\ step9 = "stage"
  /\ mem' = readNds("arm7", Dest7, header.size7, i)
  /\ IF ~LastWord(header.size7, i) /\ ~Overruns(Dest7, header.size7, i)
     THEN i' = i + 1 /\ step9' = step9
     ELSE i' = 0 /\ step9' = IF Overruns(Dest7, header.size7, i) THEN "lost7"
                             ELSE IF InArm7Ram THEN "send" ELSE "check9"
  /\ UNCHANGED <<vars7, fifo, out9, call, last, header, slow>>

\* Size, source and destination go into the FIFO, then the copy command
Send ==
  /\ step9 = "send"
  /\ fifo' = Append(fifo, <<header.size7, 0, header.start7>>[i + 1])
  /\ IF i < 2
     THEN i' = i + 1 /\ UNCHANGED <<step9, call>>
     ELSE i' = 0 /\ step9' = "copy" /\ call' = "read"
  /\ UNCHANGED <<vars7, mem, out9, last, header, slow>>

\* Fault: the copy command is not released before the binary is read.
Check9_NoRelease ==
  /\ step9 = "check9"
  /\ step9' = IF Arm9Fits THEN "load" ELSE "halt9"
  /\ UNCHANGED <<vars7, mem, fifo, out9, call, i, last, header, slow>>

\* The ARM9 binary's location is checked; an outstanding copy command is
\* released with IPC_ARM7_NONE before the binary is read
Check9 ==
  /\ step9 = "check9"
  /\ \/ ~Arm9Fits /\ step9' = "halt9" /\ UNCHANGED call
     \/ Arm9Fits /\ InArm7Ram /\ step9' = "release" /\ call' = "read"
     \/ Arm9Fits /\ ~InArm7Ram /\ step9' = "load" /\ UNCHANGED call
  /\ UNCHANGED <<vars7, mem, fifo, out9, i, last, header, slow>>

\* The ARM9 binary is read, perhaps over the staged ARM7 binary
Load ==
  /\ step9 = "load"
  /\ mem' = readNds("arm9", header.start9, header.size9, i)
  /\ IF ~LastWord(header.size9, i) /\ ~Overruns(header.start9, header.size9, i)
     THEN i' = i + 1 /\ step9' = step9
     ELSE i' = 0 /\ step9' = IF Overruns(header.start9, header.size9, i) THEN "lost9" ELSE "patch"
  /\ UNCHANGED <<vars7, fifo, out9, call, last, header, slow>>

\* The driver is patched into the ARM9 binary, or main stops when its room is
\* too small.  Without a room the search ends where the size left reaches 0,
\* which one that is no multiple of 4 never does.
Patch ==
  /\ step9 = "patch"
  /\ \/ /\ header.space9 >= DriverSize
        /\ mem' = Patched /\ step9' = "reset" /\ call' = "read"
     \/ /\ header.space9 \in 1 .. DriverSize - 1
        /\ step9' = "halt9" /\ UNCHANGED <<mem, call>>
     \/ /\ header.space9 = 0 /\ header.size9 % 4 = 0
        /\ step9' = "reset" /\ call' = "read" /\ UNCHANGED mem
     \/ /\ header.space9 = 0 /\ header.size9 % 4 # 0
        /\ step9' = "lost9" /\ UNCHANGED <<mem, call>>
  /\ UNCHANGED <<vars7, fifo, out9, i, last, header, slow>>

Arm9 ==
  \/ Crt0 \/ CallRead \/ CallWrite \/ CallReturn
  \/ Backup \/ Stage \/ Send \/ Check9 \/ Load \/ Patch

-----------------------------------------------------------------------------
\* The ARM7

Goto7(from, to) == pc7 = from /\ pc7' = to

\* _start clears IPCSYNC, enables the FIFO, clears IPCSYNC again
Start7 ==
  /\ Goto7("start", "sync")
  /\ out7' = 0 /\ r12' = 0 /\ r7' = 1
  /\ UNCHANGED <<vars9, mem, fifo, args, slow>>

\* Fault: after a command the ARM7 does not wait for its release.
Receive_NoRelease ==
  /\ \/ Goto7("sync", "ack") /\ out9 = r7
     \/ Goto7("release", "acked")
  /\ UNCHANGED <<vars9, mem, fifo, out7, r7, r12, args, slow>>

\* _stage2_wait_recv_r7 reads the nibble it waits for, in the sync loop and
\* after each command
Receive ==
  /\ \/ Goto7("sync", "ack") /\ out9 = r7
     \/ Goto7("release", "acked") /\ out9 = 0
  /\ UNCHANGED <<vars9, mem, fifo, out7, r7, r12, args, slow>>

\* Fault: the counter is masked only in the register, not in r12.
Bump_Unmasked ==
  /\ r12' = r12 + 1
  /\ out7' = r12' % 16
  /\ \/ /\ Goto7("ack", IF r7 = 15 THEN "next" ELSE "sync")
        /\ r7' = (r7 + 1) % 16
     \/ /\ \/ Goto7("next", "release")
           \/ Goto7("acked", "poll")
           \/ Goto7("cmd2", "reset")
        /\ UNCHANGED r7
  /\ UNCHANGED <<vars9, mem, fifo, args, slow>>

\* _stage2_bump_counter; after the sync loop's last turn, and after each
\* command, the next bump follows at once
Bump ==
  /\ r12' = (r12 + 1) % 16
  /\ out7' = r12'
  /\ \/ /\ Goto7("ack", IF r7 = 15 THEN "next" ELSE "sync")
        /\ r7' = (r7 + 1) % 16
     \/ /\ \/ Goto7("next", "release")
           \/ Goto7("acked", "poll")
           \/ Goto7("cmd2", "reset")
        /\ UNCHANGED r7
  /\ UNCHANGED <<vars9, mem, fifo, args, slow>>

\* _stage2_wait_cmd: 0xF synchronises, 2 jumps to the entry point, 1 copies
Poll ==
  /\ \/ Goto7("poll", "next") /\ out9 = 15
     \/ Goto7("poll", "cmd2") /\ out9 = 2
     \/ Goto7("poll", "args") /\ out9 = 1
  /\ args' = <<>>
  /\ UNCHANGED <<vars9, mem, fifo, out7, r7, r12, slow>>

\* One word from the FIFO; an empty FIFO reads as 0
TakeArg ==
  /\ Goto7("args", IF Len(args) = 2 THEN "copy" ELSE "args")
  /\ args' = Append(args, IF fifo = <<>> THEN 0 ELSE Head(fifo))
  /\ fifo' = IF fifo = <<>> THEN fifo ELSE Tail(fifo)
  /\ UNCHANGED <<vars9, mem, out7, r7, r12, slow>>

\* Fault: the loop's test comes after the copy.
Copy_OneMore ==
  /\ Goto7("copy", IF args[1] >= 4 THEN "copy" ELSE "next")
  /\ mem' = IF args[1] >= 0 THEN CopyWord(args[2], args[3]) ELSE mem
  /\ args' = <<args[1] - 4, args[2] + 4, args[3] + 4>>
  /\ UNCHANGED <<vars9, fifo, out7, r7, r12, slow>>

\* One turn of _stage2_copy: subtract, copy a word unless less than a word was
\* left, go on while something is left
Copy ==
  /\ Goto7("copy", IF args[1] > 4 THEN "copy" ELSE "next")
  /\ IF args[1] >= 4
     THEN /\ mem' = CopyWord(args[2], args[3])
          /\ args' = <<args[1] - 4, args[2] + 4, args[3] + 4>>
     ELSE /\ args' = <<args[1] - 4, args[2], args[3]>>
          /\ UNCHANGED mem
  /\ UNCHANGED <<vars9, fifo, out7, r7, r12, slow>>

Arm7 == Start7 \/ Receive \/ Bump \/ Poll \/ TakeArg \/ Copy

-----------------------------------------------------------------------------
\* The headers that lead main behind its memories: an end that wraps around
\* passes the location checks, and the search for a driver's room passes the end
Astray ==
  \/ header.start7 + header.size7 >= AddressSpace
  \/ header.start9 + header.size9 >= AddressSpace
  \/ header.space9 = 0 /\ header.size9 % 4 # 0

Finished == step9 \in {"done", "halt7", "halt9"}

Next == Arm9 \/ Arm7

\* miniboot from two cleared CPUs; Miniboot adds how they get there, and fairness
Spec == Init /\ [][Next]_vars

-----------------------------------------------------------------------------
\* Every variable holds a value of its type.
TypeOK ==
  /\ out9 \in Nibble /\ out7 \in Nibble /\ last \in Nibble
  /\ r7 \in Nibble /\ r12 \in Nibble
  /\ step9 \in {"crt0", "sync", "backup", "stage", "send", "copy", "check9",
                "release", "load", "patch", "reset", "done", "halt7", "halt9", "lost7", "lost9"}
  /\ call \in {"no", "read", "write", "wait"}
  /\ pc7 \in {"start", "sync", "ack", "next", "release", "acked", "poll", "args",
              "copy", "cmd2", "reset"}
  /\ i \in Nat /\ fifo \in Seq(Nat) /\ args \in Seq(Int)
  /\ header \in Headers /\ slow \in BOOLEAN
  /\ mem \in [Memory -> Bytes]

\* The bytes of the ARM7 binary the copy command moves: its whole words
WholeWords == header.size7 - (header.size7 % 4)

\* The ARM7 binary has arrived where it belongs
Arm7Placed ==
  IF InArm7Ram
  THEN \A k \in 0 .. WholeWords - 1 :
         header.start7 + k \in Memory /\ mem[header.start7 + k] = <<"arm7", k>>
  ELSE step9 \in {"check9", "release", "load", "patch", "reset", "done", "halt9", "lost9"}

\* The ARM9 reads its binary, which may lie over the staging area, only when
\* the ARM7 has copied every word of its own binary out of it, however the two
\* CPUs' speeds relate: an answer to an earlier command must not pass for the
\* copy's.
CopiedBeforeLoad == step9 \in {"load", "patch", "reset", "done"} => Arm7Placed

\* Neither CPU enters the program before both binaries are in place.
Program == INSTANCE ProgramStart WITH
  Parts <- {"arm9", "arm7"},
  placed <- (IF step9 \in {"reset", "done"} THEN {"arm9"} ELSE {}) \cup
            (IF Arm7Placed THEN {"arm7"} ELSE {}),
  running <- (IF step9 = "done" THEN {"arm9"} ELSE {}) \cup
             (IF pc7 = "reset" THEN {"arm7"} ELSE {})

ImplementsStart == Program!Spec

\* Do the binaries of the header lie apart?
Apart ==
  \/ header.start7 + header.size7 <= header.start9
  \/ header.start9 + header.size9 <= header.start7

\* When the ARM9 leaves miniboot, memory holds both binaries byte for byte, with
\* the driver in the ARM9 binary's room and the ARM7's binary up to its last
\* whole word when it had to be copied (crt0.s:91 promises all of it, 99-102 drop the
\* rest), and nothing was written beyond them but the staging area.  The
\* location checks look at each binary alone, so that this is said of binaries
\* that lie apart.
BinariesIntact ==
  step9 = "done" /\ Apart =>
    LET start7 == header.start7   start9 == header.start9
        size7 == IF InArm7Ram THEN WholeWords ELSE header.size7
    IN \A a \in Memory :
         mem[a] = IF a \in Room THEN <<"driver", a - start9 - header.dldi9>>
                  ELSE IF a - start9 \in 0 .. header.size9 - 1 THEN <<"arm9", a - start9>>
                  ELSE IF a - start7 \in 0 .. size7 - 1 THEN <<"arm7", a - start7>>
                  ELSE IF InArm7Ram /\ a < header.size7 THEN <<"arm7", a>>
                  ELSE <<"old", a>>

\* The ARM9 leaves miniboot only when the ARM7 has taken the reset command,
\* provided the ARM7 had answered the last sync command before the transfer.
LeaveTogether ==
  slow /\ step9 = "done" => pc7 = "reset"

\* main.c:239 and :265: "Invalid ARM7 binary location.", "Invalid ARM9 binary
\* location."  A binary that is read lies in the memory it is meant for.
LocationsValid ==
  /\ step9 = "stage" =>
       header.start7 + header.size7 <= IF InArm7Ram THEN Arm7End ELSE MainEnd
  /\ step9 = "load" => header.start9 + header.size9 <= MainEnd
=============================================================================
