---------------------------- MODULE BootHandoff ----------------------------
(***************************************************************************)
(* hbmenu starts a program: runNds hands the console to the bootloader,    *)
(* which runs on the ARM7 and leads the ARM9 by the hand.                  *)
(*                                                                         *)
(* The ARM9 spins in a "passme" loop, an instruction that jumps to the     *)
(* address in the ARM9 entry word of the header area (0x02FFFE24).  The    *)
(* ARM7 copies a function to TEMP_MEM and stores TEMP_MEM's address in     *)
(* that word; the ARM9 runs the function, stores the loop's address there  *)
(* again and returns to the loop.  Twice the ARM7 waits for that; the      *)
(* third function, startBinary_ARM9, waits for ARM9_START_FLAG and then    *)
(* jumps to whatever the word holds.                                       *)
(*                                                                         *)
(* The two CPUs run unsynchronised.  Two steps of the ARM7 are correct     *)
(* only because the ARM9 gets a few instructions done in the meantime;     *)
(* they are guarded by Arm9Prompt and Arm9Waits below.                     *)
(***************************************************************************)
EXTENDS Naturals

CONSTANT CodeLen        \* words of a function copied to TEMP_MEM

ASSUME CodeLenAssumption == CodeLen \in Nat /\ CodeLen >= 3

Functions == {"resetMemory2", "mpu_reset", "startBinary"}
CodeIdx == 0 .. CodeLen - 1
Parts == {"arm9", "arm7", "header", "dldi", "argv"}

VARIABLES
  entry,        \* the ARM9 entry word: where the passme loop jumps
  startFlag,    \* ARM9_START_FLAG
  temp,         \* TEMP_MEM: the function each of its words belongs to
  at9,          \* what the ARM9 executes
  fn9,          \* the function it entered in TEMP_MEM
  ip9,          \* the word of TEMP_MEM it executes
  pc7,          \* the ARM7's step
  fn7,          \* the function it installs
  k7,           \* words of it already copied
  placed,       \* parts of the program in place
  wantPatch     \* wantToPatchDLDI

vars9 == <<at9, fn9, ip9>>
vars7 == <<pc7, fn7, k7, placed>>
vars == <<entry, startFlag, temp, at9, fn9, ip9, pc7, fn7, k7, placed, wantPatch>>

\* ARM9_START_FLAG still holds what the program before left there
Init ==
  /\ entry = "other" /\ startFlag \in {0, 1}
  /\ temp = [k \in CodeIdx |-> "other"]
  /\ at9 = "menu" /\ fn9 = "none" /\ ip9 = 0
  /\ pc7 = "menu" /\ fn7 = "resetMemory2" /\ k7 = 0
  /\ wantPatch \in BOOLEAN
  /\ placed = IF wantPatch THEN {} ELSE {"dldi"}

-----------------------------------------------------------------------------
\* The ARM9

\* Continue at the address in the entry word
JumpToEntry ==
  CASE entry = "loop" -> at9' = "loop" /\ UNCHANGED <<fn9, ip9>>
    [] entry = "temp" -> at9' = "temp" /\ fn9' = temp[0] /\ ip9' = 0
    [] entry = "arm9 entry" -> at9' = "program" /\ UNCHANGED <<fn9, ip9>>
    [] OTHER -> at9' = "lost" /\ UNCHANGED <<fn9, ip9>>

\* runNds points the entry word at the loop, then starts the ARM7
SetVector ==
  /\ at9 = "menu" /\ at9' = "vector set"
  /\ entry' = "loop"
  /\ UNCHANGED <<vars7, startFlag, temp, fn9, ip9, wantPatch>>

ResetArm7 ==
  /\ at9 = "vector set" /\ at9' = "reset"
  /\ pc7' = "init"
  /\ UNCHANGED <<entry, startFlag, temp, fn9, ip9, fn7, k7, placed, wantPatch>>

\* swiSoftReset, and every turn of the passme loop, follow the entry word
FollowEntry ==
  /\ \/ at9 = "reset"
     \/ at9 = "loop" /\ entry # "loop"
  /\ JumpToEntry
  /\ UNCHANGED <<vars7, entry, startFlag, temp, wantPatch>>

\* Fault: the function returns to the loop without storing its address.
ResetWord_NoStore ==
  /\ at9 = "temp" /\ temp[ip9] \in {"resetMemory2", "mpu_reset"}
  /\ IF ip9 = CodeLen - 1
     THEN at9' = "loop" /\ UNCHANGED ip9
     ELSE ip9' = ip9 + 1 /\ UNCHANGED at9
  /\ UNCHANGED <<vars7, entry, startFlag, temp, fn9, wantPatch>>

\* resetMemory2_ARM9 and mpu_reset end by storing the loop's address in the
\* entry word and branching to the loop
ResetWord ==
  /\ at9 = "temp" /\ temp[ip9] \in {"resetMemory2", "mpu_reset"}
  /\ IF ip9 = CodeLen - 1
     THEN at9' = "loop" /\ UNCHANGED <<entry, ip9>>
     ELSE /\ ip9' = ip9 + 1 /\ UNCHANGED at9
          /\ entry' = IF ip9 = CodeLen - 2 THEN "loop" ELSE entry
  /\ UNCHANGED <<vars7, startFlag, temp, fn9, wantPatch>>

\* startBinary_ARM9 clears the flag, waits for the end of the frame and for
\* the flag, and jumps to the entry word
StartWord ==
  /\ at9 = "temp" /\ temp[ip9] = "startBinary"
  /\ ip9 = CodeLen - 2 => startFlag = 1
  /\ IF ip9 = CodeLen - 1
     THEN JumpToEntry
     ELSE ip9' = ip9 + 1 /\ UNCHANGED <<at9, fn9>>
  /\ startFlag' = IF ip9 = 0 THEN 0 ELSE startFlag
  /\ UNCHANGED <<vars7, entry, temp, wantPatch>>

Arm9 == SetVector \/ ResetArm7 \/ FollowEntry \/ ResetWord \/ StartWord

-----------------------------------------------------------------------------
\* The ARM7

Goto7(from, to) == pc7 = from /\ pc7' = to

\* The ARM9's last instruction in TEMP_MEM, the branch after it has stored the
\* loop's address, is over when the ARM7 has seen the store and copied one word
Arm9Prompt == at9 # "temp"

\* Reading two binaries from the card outlasts the ARM9's way to its wait
Arm9Waits == at9 = "temp" /\ ip9 = CodeLen - 2

\* FAT_InitFiles and the search for the file; when they fail main returns and
\* load_crt0 starts the bootloader again
InitFiles ==
  /\ \/ Goto7("init", "copy")
     \/ Goto7("init", "restart")
     \/ Goto7("restart", "init")
  /\ UNCHANGED <<vars9, entry, startFlag, temp, fn7, k7, placed, wantPatch>>

\* Fault: the loop copies one word too many.
CopyWord_Late ==
  /\ Goto7("copy", IF k7 < CodeLen THEN "copy" ELSE "point")
  /\ k7 > 0 => Arm9Prompt
  /\ temp' = [temp EXCEPT ![k7] = fn7]
  /\ k7' = IF k7 < CodeLen THEN k7 + 1 ELSE 0
  /\ UNCHANGED <<vars9, entry, startFlag, fn7, placed, wantPatch>>

\* One word of copyLoop to TEMP_MEM
CopyWord ==
  /\ Goto7("copy", IF k7 + 1 < CodeLen THEN "copy" ELSE "point")
  /\ k7 > 0 => Arm9Prompt
  /\ temp' = [temp EXCEPT ![k7] = fn7]
  /\ k7' = IF k7 + 1 < CodeLen THEN k7 + 1 ELSE 0
  /\ UNCHANGED <<vars9, entry, startFlag, fn7, placed, wantPatch>>

\* The ARM9 is pointed to TEMP_MEM
Point ==
  /\ Goto7("point", IF fn7 = "startBinary" THEN "load" ELSE "wait")
  /\ entry' = "temp"
  /\ UNCHANGED <<vars9, startFlag, temp, fn7, k7, placed, wantPatch>>

\* Fault: the ARM7 does not wait for the ARM9 to leave the function.
Await_Not ==
  /\ \/ Goto7("wait", "copy") /\ fn7 = "resetMemory2" /\ fn7' = "mpu_reset"
     \/ Goto7("wait", "resetMemory") /\ fn7 = "mpu_reset" /\ UNCHANGED fn7
  /\ UNCHANGED <<vars9, entry, startFlag, temp, k7, placed, wantPatch>>

\* The ARM7 sees another address in the entry word
Await ==
  /\ entry # "temp"
  /\ \/ Goto7("wait", "copy") /\ fn7 = "resetMemory2" /\ fn7' = "mpu_reset"
     \/ Goto7("wait", "resetMemory") /\ fn7 = "mpu_reset" /\ UNCHANGED fn7
  /\ UNCHANGED <<vars9, entry, startFlag, temp, k7, placed, wantPatch>>

\* resetMemory_ARM7 clears RAM up to the bootstub, below TEMP_MEM
ResetMemory ==
  /\ Goto7("resetMemory", "copy")
  /\ fn7' = "startBinary"
  /\ UNCHANGED <<vars9, entry, startFlag, temp, k7, placed, wantPatch>>

\* loadBinary_ARM7 reads the ARM9 binary, then the ARM7 binary
LoadBinary ==
  /\ \/ Goto7("load", "load7") /\ placed' = placed \cup {"arm9"}
     \/ Goto7("load7", "header") /\ placed' = placed \cup {"arm7"}
  /\ UNCHANGED <<vars9, entry, startFlag, temp, fn7, k7, wantPatch>>

\* and copies the header, with 0 for the ARM9 entry
LoadHeader ==
  /\ Goto7("header", "patch")
  /\ Arm9Waits
  /\ entry' = "zero"
  /\ placed' = placed \cup {"header"}
  /\ UNCHANGED <<vars9, startFlag, temp, fn7, k7, wantPatch>>

\* Fault: wantToPatchDLDI is tested the wrong way round.
PatchAndArgs_Inverted ==
  /\ \/ /\ Goto7("patch", "args")
        /\ placed' = IF ~wantPatch THEN placed \cup {"dldi"} ELSE placed
     \/ Goto7("args", "start") /\ placed' = placed \cup {"argv"}
  /\ UNCHANGED <<vars9, entry, startFlag, temp, fn7, k7, wantPatch>>

\* dldiPatchBinary, then passArgs_ARM7
PatchAndArgs ==
  /\ \/ /\ Goto7("patch", "args")
        /\ placed' = IF wantPatch THEN placed \cup {"dldi"} ELSE placed
     \/ Goto7("args", "start") /\ placed' = placed \cup {"argv"}
  /\ UNCHANGED <<vars9, entry, startFlag, temp, fn7, k7, wantPatch>>

\* Fault: the flag is set before the ARM9's entry is stored.
StartBinary7_Swapped ==
  /\ \/ Goto7("start", "flag") /\ startFlag' = 1 /\ UNCHANGED entry
     \/ Goto7("flag", "jump") /\ entry' = "arm9 entry" /\ UNCHANGED startFlag
     \/ Goto7("jump", "program") /\ UNCHANGED <<entry, startFlag>>
  /\ UNCHANGED <<vars9, temp, fn7, k7, placed, wantPatch>>

\* startBinary_ARM7: the ARM9's entry, the flag, the jump
StartBinary7 ==
  /\ \/ Goto7("start", "flag") /\ entry' = "arm9 entry" /\ UNCHANGED startFlag
     \/ Goto7("flag", "jump") /\ startFlag' = 1 /\ UNCHANGED entry
     \/ Goto7("jump", "program") /\ UNCHANGED <<entry, startFlag>>
  /\ UNCHANGED <<vars9, temp, fn7, k7, placed, wantPatch>>

Arm7 ==
  \/ InitFiles \/ CopyWord \/ Point \/ Await \/ ResetMemory
  \/ LoadBinary \/ LoadHeader \/ PatchAndArgs \/ StartBinary7

-----------------------------------------------------------------------------
Next == Arm9 \/ Arm7

\* Both CPUs run, each at its own speed
Spec == Init /\ [][Next]_vars /\ WF_vars(Arm9) /\ WF_vars(Arm7)

Started == at9 = "program" /\ pc7 = "program"

-----------------------------------------------------------------------------
\* Every variable holds a value of its type.
TypeOK ==
  /\ entry \in {"other", "loop", "temp", "zero", "arm9 entry"}
  /\ startFlag \in {0, 1}
  /\ temp \in [CodeIdx -> Functions \cup {"other"}]
  /\ at9 \in {"menu", "vector set", "reset", "loop", "temp", "program", "lost"}
  /\ fn9 \in Functions \cup {"none", "other"} /\ ip9 \in CodeIdx
  /\ pc7 \in {"menu", "init", "restart", "copy", "point", "wait", "resetMemory",
              "load", "load7", "header", "patch", "args", "start", "flag", "jump",
              "program"}
  /\ fn7 \in Functions /\ k7 \in CodeIdx
  /\ placed \subseteq Parts
  /\ wantPatch \in BOOLEAN

\* Between the ARM9's jump to TEMP_MEM and its return every word it executes
\* belongs to the function it entered: the ARM7 never overwrites the code that
\* runs, nor points the ARM9 at a half-copied function (boot.c:315-335).
ExecutesOneFunction == at9 = "temp" => temp[ip9] = fn9 /\ fn9 \in Functions

\* The ARM9 never follows the entry word while it holds the header's 0 or a
\* leftover: it is parked in startBinary_ARM9 by then (boot.c:248-253).
NeverLost == at9 # "lost"

\* No CPU enters the program before all its parts are in place, even when the
\* start flag is left over from the program before.
Program == INSTANCE ProgramStart WITH
  running <- (IF at9 = "program" THEN {"arm9"} ELSE {}) \cup
             (IF pc7 = "program" THEN {"arm7"} ELSE {})

ImplementsStart == Program!Spec

\* Once the file is found both CPUs end up in the program.
BothStart == pc7 = "copy" ~> Started
=============================================================================
