--------------------------- MODULE MinibootProofs ---------------------------
(***************************************************************************)
(* miniboot together with the ways into it.  Once the ARM9 runs miniboot,  *)
(* or no program is there to return from, MinibootIpcProofs' table holds;  *)
(* before that the nibbles and the FIFO belong to the bootstub and its     *)
(* peer, whose handshake is a table of its own.                            *)
(***************************************************************************)
EXTENDS Miniboot, MinibootIpcProofs

\* miniboot has not begun.
Idle == step9 = "crt0" /\ call = "no" /\ pc7 = "start" /\ r12 = 0

\* The bootstub's handshake: who waits for what, what the nibbles and the FIFO
\* hold.  The third line is the lock-up of a program that left its nibble 1.
Handshake ==
  \/ cpu9 = "program" /\ cpu7 = "program" /\ fifo \in {<<>>, <<4>>}
  \/ cpu9 = "wait1" /\ cpu7 = "wait1" /\ out7 = 1 /\ fifo = <<>>
  \/ cpu9 = "wait1" /\ cpu7 = "wait0" /\ out7 = 0 /\ out9 = 1 /\ fifo = <<>>
  \/ cpu9 = "wait1" /\ cpu7 = "program" /\ fifo \in {<<ResetCmd>>, <<4, ResetCmd>>}
  \/ /\ cpu9 = "wait0" /\ out7 = 1 /\ out9 = 1
     /\ \/ cpu7 = "program" /\ fifo \in {<<ResetCmd>>, <<4, ResetCmd>>}
        \/ cpu7 = "wait1" /\ fifo = <<>>
  \/ cpu9 = "wait0" /\ cpu7 = "wait0" /\ out7 = 0 /\ out9 = 1 /\ fifo = <<>>

Returning == from = "program" /\ console = "nds" /\ TypeOK /\ Idle /\ Handshake

\* miniboot has been entered from the bootstub.
Returned ==
  /\ from = "program" /\ console = "nds" /\ Inv
  /\ cpu9 = "miniboot" /\ cpu7 \in {"wait0", "miniboot"}
  /\ step9 = "crt0" => fifo = <<>>

Areas == {0, 1, Code9, Mirror, Code7}

\* How far the cartridge's entry is, and what it has left in main RAM
Started ==
  /\ from \in {"cart", "rumble"} /\ console \in {"nds", "gba"} /\ Inv
  /\ DOMAIN ram = Areas
  /\ cpu7 \in {"entry", "mirror", "load9", "load7", "reset9", "miniboot", "gba", "loader"}
  /\ cpu7 \in {"load9", "load7", "reset9", "miniboot"} => console = "nds"
  /\ cpu7 \in {"gba", "loader"} => console = "gba"
  /\ cpu7 \in {"load7", "reset9", "miniboot"} => ram[Code9] = "miniboot9"
  /\ cpu7 \in {"reset9", "miniboot"} => ram[Code7] = "miniboot7"
  /\ cpu7 = "loader" => ram[0] = "loader"
  /\ cpu9 \in {"loop", "miniboot"} /\ (entry9 \/ cpu9 = "miniboot" => cpu7 = "miniboot")
  /\ cpu9 = "loop" => step9 = "crt0"

\* The secure area lies where the console put it, and is backed up once.
AreaKept ==
  /\ cpu7 # "loader" =>
       \/ ram[0] = "card" /\ ram[1] = "zero"
       \/ ram[0] = "zero" /\ ram[1] \in {"card", "zero"}
  /\ step9 \notin {"crt0", "sync", "backup"} =>
       /\ backup.magic <=> (ram[0] = "card" \/ ram[1] = "card")
       /\ backup.magic => backup.area = "card"

BootInv == Returning \/ Returned \/ (Started /\ AreaKept)

\* In a slow behaviour the ARM7's answer to the last sync command is there
\* before main sends another: from then on every wait is for the command's own
\* answer.
SlowInv ==
  slow =>
    /\ step9 \in {"stage", "send"} => At7("poll", 1)
    /\ step9 = "copy" =>
         \/ call = "read" /\ At7("poll", 1)
         \/ call = "write" /\ At7("poll", 1) /\ last = 1
         \/ call = "wait" /\ last = 1
    /\ step9 = "check9" => IF InArm7Ram THEN At7("release", 2) ELSE At7("poll", 1)
    /\ step9 = "release" =>
         \/ call = "read" /\ At7("release", 2)
         \/ call \in {"write", "wait"} /\ last = 2
    /\ step9 \in {"load", "patch"} => At7("poll", IF InArm7Ram THEN 3 ELSE 1)
    /\ step9 = "reset" =>
         /\ call \in {"write", "wait"} => last = (IF InArm7Ram THEN 3 ELSE 1)
         /\ call \in {"read", "write"} => At7("poll", IF InArm7Ram THEN 3 ELSE 1)
         /\ call = "wait" => \/ At7("poll", last) \/ At7("cmd2", last)
                             \/ At7("reset", last + 1)
    /\ step9 = "done" => pc7 = "reset"

-----------------------------------------------------------------------------
\* Facts about addresses

\* The places the cartridge's entry writes to are different ones.
LEMMA Places9 == Code9 = 2 /\ Mirror = 18 /\ Code7 = 1536
BY DEF Code9, Mirror, Code7, ChunkOf, Chunk

\* A GBA's main RAM shows the same word at both of DetectConsole's addresses.
LEMMA Mirrored == Wrapped(Mirror) = IF console = "gba" THEN Code9 ELSE Mirror
BY Places9 DEF Wrapped, GbaRam

\* Words of the FIFO before the reset command and with it
LEMMA Words12 ==
  /\ Append(<<>>, ResetCmd) = <<ResetCmd>>
  /\ Append(<<4>>, ResetCmd) = <<4, ResetCmd>>
  /\ Head(<<4>>) = 4 /\ Tail(<<4>>) = <<>>
  /\ Head(<<ResetCmd>>) = ResetCmd /\ Tail(<<ResetCmd>>) = <<>>
  /\ Head(<<4, ResetCmd>>) = 4 /\ Tail(<<4, ResetCmd>>) = <<ResetCmd>>
  /\ <<>> \in Seq(Nat) /\ <<4>> \in Seq(Nat)
  /\ <<ResetCmd>> \in Seq(Nat) /\ <<4, ResetCmd>> \in Seq(Nat)
<1>1. ResetCmd \in Nat /\ ResetCmd # 4
  BY DEF ResetCmd
<1>2. <<>> \in Seq(Nat) /\ <<4>> \in Seq(Nat) /\ <<ResetCmd>> \in Seq(Nat) /\ <<4, ResetCmd>> \in Seq(Nat)
  BY <1>1
<1>3. Append(<<4>>, ResetCmd) = <<4, ResetCmd>>
  BY <1>1, AppendToOne
<1>4. Append(<<>>, ResetCmd) = <<ResetCmd>>
  <2>1. /\ Append(<<>>, ResetCmd) \in Seq(Nat) /\ Len(Append(<<>>, ResetCmd)) = 1
        /\ Append(<<>>, ResetCmd)[1] = ResetCmd
    BY <1>1, <1>2
  <2>2. Len(<<ResetCmd>>) = 1 /\ <<ResetCmd>>[1] = ResetCmd
    BY <1>1
  <2>3. QED
    BY <2>1, <2>2, <1>2, SeqEqual
<1>5. Tail(<<4>>) = <<>> /\ Tail(<<ResetCmd>>) = <<>> /\ Head(<<4>>) = 4 /\ Head(<<ResetCmd>>) = ResetCmd
  BY <1>1, <1>2
<1>6. Tail(<<4, ResetCmd>>) = <<ResetCmd>>
  <2>1. /\ Tail(<<4, ResetCmd>>) \in Seq(Nat) /\ Len(Tail(<<4, ResetCmd>>)) = 1
        /\ Tail(<<4, ResetCmd>>)[1] = ResetCmd
    BY <1>1, <1>2
  <2>2. Len(<<ResetCmd>>) = 1 /\ <<ResetCmd>>[1] = ResetCmd
    BY <1>1
  <2>3. QED
    BY <2>1, <2>2, <1>2, SeqEqual
<1>7. Head(<<4, ResetCmd>>) = 4
  BY <1>1, <1>2
<1>8. QED
  BY <1>2, <1>3, <1>4, <1>5, <1>6, <1>7

\* An idle miniboot with cleared nibbles is in the table.
LEMMA IdleInTable ==
  ASSUME TypeOK, Idle, out9 = 0, out7 = 0 PROVE Inv
BY DEF Idle, Inv, Crt0Inv, Syncing, SyncInv, IdleInv, StageInv, StagedInv, CopyInv, Check9Inv,
  ReleaseInv, LeaveInv, FitsInv

-----------------------------------------------------------------------------
\* The invariant

\* Every start is in the invariant.
LEMMA InitBoot == ASSUME MinibootInit PROVE BootInv
<1>1. fifo \in Seq(Nat) /\ args \in Seq(Int)
  <2>1. fifo \in {<<>>, <<4>>} /\ args = <<>>
    BY DEF MinibootInit
  <2>2. <<>> \in Seq(Int)
    OBVIOUS
  <2>3. QED
    BY <2>1, <2>2, Words12
<1>2. mem \in [Memory -> Bytes]
  <2>1. \A a \in Memory : a \in Nat
    BY MemoryAssumption DEF Memory, MainRam, Arm7Ram
  <2>2. QED
    BY <2>1 DEF MinibootInit, Bytes
<1>3. out9 \in Nibble /\ out7 \in Nibble
  <2>1. 0 \in Nibble
    BY DEF Nibble
  <2>2. QED
    BY <2>1, LeftoverAssumption DEF MinibootInit, FirmwareInit, ProgramInit
<1>4. TypeOK
  BY <1>1, <1>2, <1>3 DEF MinibootInit, TypeOK, Nibble
<1>5. Idle
  BY DEF MinibootInit, Idle
<1>6. CASE ProgramInit
  BY <1>4, <1>5, <1>6 DEF ProgramInit, BootInv, Returning, Handshake, MinibootInit
<1>7. CASE FirmwareInit
  <2>1. Inv
    BY <1>4, <1>5, <1>7, IdleInTable DEF FirmwareInit
  <2>2. Started
    BY <1>7, <2>1, <1>5 DEF FirmwareInit, MinibootInit, Started, Areas, Idle
  <2>3. AreaKept
    <3>1. PICK area \in {<<"card", "zero">>, <<"zero", "card">>, <<"zero", "zero">>} :
            ram = [c \in Areas |-> IF c \in {0, 1} THEN area[c + 1] ELSE "zero"]
      BY <1>7 DEF FirmwareInit, Areas
    <3>2. ram[0] = area[1] /\ ram[1] = area[2]
      BY <3>1 DEF Areas
    <3>3. \/ area[1] = "card" /\ area[2] = "zero"
          \/ area[1] = "zero" /\ area[2] \in {"card", "zero"}
      BY <3>1
    <3>4. QED
      BY <3>2, <3>3, <1>5 DEF AreaKept, Idle
  <2>4. QED
    BY <2>2, <2>3 DEF BootInv
<1>8. QED
  BY <1>6, <1>7 DEF MinibootInit

\* The handshake keeps its table, up to the ARM9's entry into miniboot.
LEMMA HandshakeStep ==
  ASSUME Returning, Bootstub \/ Peer PROVE BootInv'
<1>1. CASE StubSend
  BY <1>1, Words12 DEF Returning, Handshake, Idle, TypeOK, StubSend, BootInv, vars9, vars7
<1>2. CASE StubWait1
  BY <1>2 DEF Returning, Handshake, Idle, TypeOK, StubWait1, BootInv, Nibble
<1>3. CASE StubWait0
  <2>1. TypeOK' /\ Idle' /\ out9' = 0 /\ out7' = 0 /\ fifo' = <<>> /\ cpu7' = "wait0"
    BY <1>3 DEF Returning, Handshake, Idle, TypeOK, StubWait0, Nibble
  <2>2. Inv'
    BY <2>1 DEF Idle, Inv, Crt0Inv, Syncing, SyncInv, IdleInv, StageInv, StagedInv, CopyInv,
      Check9Inv, ReleaseInv, LeaveInv, FitsInv
  <2>3. QED
    BY <1>3, <2>1, <2>2 DEF Returning, StubWait0, BootInv, Returned
<1>4. CASE PeerTakes
  <2>1. /\ fifo' = Tail(fifo) /\ fifo # <<>> /\ cpu9' = cpu9 /\ out9' = out9
        /\ cpu7 = "program" /\ from' = from /\ console' = console /\ Idle'
    BY <1>4 DEF Returning, Idle, PeerTakes, vars9
  <2>2. CASE Head(fifo) = ResetCmd
    <3>1. out7' = 1 /\ cpu7' = "wait1"
      BY <1>4, <2>2 DEF PeerTakes
    <3>2. cpu9 \in {"wait1", "wait0"} /\ fifo = <<ResetCmd>> /\ (cpu9 = "wait0" => out9 = 1)
      BY <2>1, <2>2, Words12 DEF Returning, Handshake, ResetCmd
    <3>3. fifo' = <<>>
      BY <2>1, <3>2, Words12
    <3>4. TypeOK'
      BY <1>4, <3>1, <3>3, Words12 DEF Returning, TypeOK, PeerTakes, vars9, Nibble
    <3>5. QED
      BY <2>1, <3>1, <3>2, <3>3, <3>4 DEF Returning, Handshake, BootInv
  <2>3. CASE Head(fifo) # ResetCmd
    <3>1. out7' = out7 /\ cpu7' = cpu7
      BY <1>4, <2>3 DEF PeerTakes
    <3>2. fifo \in {<<4>>, <<4, ResetCmd>>}
      BY <2>1, <2>3, Words12 DEF Returning, Handshake
    <3>3. fifo' \in {<<>>, <<ResetCmd>>} /\ (fifo = <<4>> => fifo' = <<>>)
          /\ (fifo = <<4, ResetCmd>> => fifo' = <<ResetCmd>>)
      BY <2>1, <3>2, Words12
    <3>4. TypeOK'
      BY <1>4, <3>1, <3>3, Words12 DEF Returning, TypeOK, PeerTakes, vars9
    <3>5. <<4>> # <<ResetCmd>> /\ <<4>> # <<4, ResetCmd>> /\ <<4, ResetCmd>> # <<>> /\ <<4>> # <<>>
      BY Words12 DEF ResetCmd
    <3>6. Handshake'
      BY <2>1, <3>1, <3>2, <3>3, <3>5 DEF Returning, Handshake
    <3>7. QED
      BY <2>1, <3>4, <3>6 DEF Returning, BootInv
  <2>4. QED
    BY <2>2, <2>3
<1>5. CASE PeerWait1
  BY <1>5 DEF Returning, Handshake, Idle, TypeOK, PeerWait1, BootInv, vars9, Goto, Nibble
<1>6. CASE PeerWait0
  BY <1>6 DEF Returning, Handshake, PeerWait0, Goto
<1>7. QED
  BY <1>1, <1>2, <1>3, <1>4, <1>5, <1>6 DEF Bootstub, Peer

\* The ARM9 backs the area up behind the sync loop, once.
LEMMA Arm9Order ==
  ASSUME Inv, Arm9
  PROVE  /\ step9' # "crt0"
         /\ step9 \in {"crt0", "sync"} => step9' \in {"sync", "backup"}
         /\ step9 \notin {"crt0", "sync", "backup"} => step9' \notin {"sync", "backup"}
<1>1. CASE Crt0
  BY <1>1 DEF Crt0
<1>2. CASE CallRead \/ CallWrite
  <2>1. step9' = step9 /\ call # "no"
    BY <1>2 DEF CallRead, CallWrite
  <2>2. QED
    BY <2>1 DEF Inv, Crt0Inv
<1>3. CASE CallReturn
  <2>1. step9 # "crt0"
    BY <1>3 DEF CallReturn, Inv, Crt0Inv
  <2>2. step9 \in {"sync", "copy", "release", "reset"}
    BY <1>3, <2>1 DEF CallReturn, Inv, TypeOK, IdleInv, Check9Inv, LeaveInv
  <2>3. /\ After["sync"] = "backup" /\ After["copy"] = "check9"
        /\ After["release"] = "load" /\ After["reset"] = "done"
    BY DEF After
  <2>4. (step9' = step9 /\ step9 = "sync") \/ step9' = After[step9]
    BY <1>3 DEF CallReturn
  <2>5. QED
    BY <2>2, <2>3, <2>4
<1>4. CASE Backup
  BY <1>4 DEF Backup
<1>5. CASE Stage \/ Send \/ Check9 \/ Load \/ Patch
  BY <1>5 DEF Stage, Send, Check9, Load, Patch
<1>6. QED
  BY <1>1, <1>2, <1>3, <1>4, <1>5 DEF Arm9

\* The ARM7 does not touch the ARM9's step, nor the FIFO before crt0 has flushed
\* it.
LEMMA Arm7Order ==
  ASSUME Inv, Arm7
  PROVE  step9' = step9 /\ (step9 = "crt0" => fifo' = fifo)
<1>1. step9' = step9
  BY DEF Arm7, Start7, Receive, Bump, Poll, TakeArg, Copy, vars9
<1>2. step9 = "crt0" => ~TakeArg
  BY DEF Inv, Crt0Inv, Syncing, TakeArg, Goto7
<1>3. step9 = "crt0" => fifo' = fifo
  BY <1>2 DEF Arm7, Start7, Receive, Bump, Poll, Copy
<1>4. QED
  BY <1>1, <1>3

\* What the backup holds, from what main RAM holds
LEMMA BackedUp ==
  ASSUME \/ ram[0] = "card" /\ ram[1] = "zero"
         \/ ram[0] = "zero" /\ ram[1] \in {"card", "zero"}
  PROVE  /\ BackupArea.magic <=> (ram[0] = "card" \/ ram[1] = "card")
         /\ BackupArea.magic => BackupArea.area = "card"
<1>1. CASE ram[0] = "card"
  <2>1. BackupArea = [magic |-> TRUE, area |-> "card"]
    BY <1>1, ZenonT(30) DEF BackupArea
  <2>2. QED
    BY <2>1, <1>1
<1>2. CASE ram[0] = "zero" /\ ram[1] = "card"
  <2>1. BackupArea = [magic |-> TRUE, area |-> "card"]
    BY <1>2, ZenonT(30) DEF BackupArea
  <2>2. QED
    BY <2>1, <1>2
<1>3. CASE ram[0] = "zero" /\ ram[1] = "zero"
  <2>1. BackupArea = [magic |-> FALSE, area |-> "zero"]
    BY <1>3, ZenonT(30) DEF BackupArea
  <2>2. QED
    BY <2>1, <1>3
<1>4. QED
  BY <1>1, <1>2, <1>3

\* miniboot's own steps
LEMMA RunsStep ==
  ASSUME BootInv, Arm9Runs \/ Arm7Runs PROVE BootInv'
<1>1. ~Returning
  BY DEF Returning, Handshake, Arm9Runs, Arm7Runs
<1>2. Inv /\ (Arm9 \/ Arm7)
  BY <1>1 DEF BootInv, Returned, Started, Arm9Runs, Arm7Runs
<1>3. Inv'
  BY <1>2, NextInv DEF Next
<1>4. UNCHANGED <<from, console, cpu9, cpu7, entry9, ram>>
  BY DEF Arm9Runs, Arm7Runs, start
<1>5. CASE Returned
  <2>1. step9' = "crt0" => fifo' = <<>>
    BY <1>2, <1>5, Arm9Order, Arm7Order DEF Returned
  <2>2. QED
    BY <1>3, <1>4, <1>5, <2>1 DEF Returned, BootInv
<1>6. CASE Started /\ AreaKept
  <2>1. CASE Arm9Runs
    <3>1. cpu9 = "miniboot" /\ Arm9 /\ backup' = IF step9 = "backup" THEN BackupArea ELSE backup
      BY <2>1 DEF Arm9Runs
    <3>2. cpu7 = "miniboot"
      BY <1>6, <3>1 DEF Started
    <3>3. Started'
      BY <1>3, <1>4, <1>6, <3>1 DEF Started
    <3>4. CASE step9 = "backup"
      <4>1. /\ \/ ram[0] = "card" /\ ram[1] = "zero"
               \/ ram[0] = "zero" /\ ram[1] \in {"card", "zero"}
            /\ ram' = ram /\ backup' = BackupArea
        BY <1>4, <1>6, <3>1, <3>2, <3>4 DEF AreaKept
      <4>2. /\ backup'.magic <=> (ram'[0] = "card" \/ ram'[1] = "card")
            /\ backup'.magic => backup'.area = "card"
        BY <4>1, BackedUp, Zenon
      <4>3. AreaKept'
        BY <4>1, <4>2 DEF AreaKept
      <4>4. QED
        BY <3>3, <4>3 DEF BootInv
    <3>5. CASE step9 # "backup"
      <4>1. backup' = backup
        BY <3>1, <3>5
      <4>2. step9' \notin {"crt0", "sync", "backup"} => step9 \notin {"crt0", "sync", "backup"}
        BY <1>2, <3>1, <3>5, Arm9Order
      <4>3. cpu7' = cpu7 /\ ram' = ram
        BY <1>4
      <4>4. AreaKept'
        BY <1>6, <4>1, <4>2, <4>3 DEF AreaKept
      <4>5. QED
        BY <3>3, <4>4 DEF BootInv
    <3>6. QED
      BY <3>3, <3>4, <3>5, <1>4, <1>6, <3>2 DEF BootInv
  <2>2. CASE Arm7Runs
    <3>1. Arm7 /\ backup' = backup
      BY <2>2 DEF Arm7Runs, start
    <3>2. step9' = step9
      BY <1>2, <3>1, Arm7Order
    <3>3. QED
      BY <1>3, <1>4, <1>6, <3>1, <3>2 DEF Started, AreaKept, BootInv
  <2>3. QED
    BY <2>1, <2>2
<1>7. QED
  BY <1>1, <1>5, <1>6 DEF BootInv

\* The cartridge's entry and the ARM9's way out of the console's loop
LEMMA EntryStep ==
  ASSUME BootInv, CartEntry \/ Arm9Enters PROVE BootInv'
<1>1. Started /\ AreaKept
  <2>1. cpu9 = "loop" \/ cpu7 \in {"entry", "mirror", "gba", "load9", "load7", "reset9"}
    BY DEF CartEntry, Arm9Enters, SwitchMode, DetectConsole, LoadGba, LoadMiniboot9,
      LoadMiniboot7, ResetArm9, Goto
  <2>2. QED
    BY <2>1 DEF BootInv, Returning, Handshake, Returned
<1>2. UNCHANGED <<vars, from, console, backup>>
  BY DEF CartEntry, Arm9Enters, SwitchMode, DetectConsole, LoadGba, LoadMiniboot9,
    LoadMiniboot7, ResetArm9
<1>3. Inv' /\ step9' = step9
  BY <1>1, <1>2, StutterStep DEF Started, vars
<1>4. CASE SwitchMode
  BY <1>1, <1>2, <1>3, <1>4, Places9 DEF SwitchMode, Goto, Started, AreaKept, BootInv, Areas
<1>5. CASE DetectConsole
  <2>1. /\ cpu7 = "mirror" /\ cpu9' = cpu9 /\ entry9' = entry9
        /\ ram' = [[ram EXCEPT ![Code9] = "zero"] EXCEPT ![Wrapped(Mirror)] = "one"]
        /\ cpu7' = IF ram'[Code9] = "zero" THEN "load9" ELSE "gba"
    BY <1>5 DEF DetectConsole
  <2>2. DOMAIN ram' = Areas /\ ram'[0] = ram[0] /\ ram'[1] = ram[1]
    BY <1>1, <2>1, Mirrored, Places9 DEF Started, Areas
  <2>3. ram'[Code9] = IF console = "gba" THEN "one" ELSE "zero"
    BY <1>1, <2>1, Mirrored, Places9 DEF Started, Areas
  <2>4. Started'
    BY <1>1, <1>2, <1>3, <2>1, <2>2, <2>3 DEF Started
  <2>5. AreaKept'
    BY <1>1, <1>2, <1>3, <2>1, <2>2 DEF AreaKept
  <2>6. QED
    BY <2>4, <2>5 DEF BootInv
<1>6. CASE LoadGba
  BY <1>1, <1>2, <1>3, <1>6, Places9 DEF LoadGba, Goto, Started, AreaKept, BootInv, Areas, Inv,
    Crt0Inv
<1>7. CASE LoadMiniboot9
  BY <1>1, <1>2, <1>3, <1>7, Places9 DEF LoadMiniboot9, Goto, Started, AreaKept, BootInv, Areas
<1>8. CASE LoadMiniboot7
  BY <1>1, <1>2, <1>3, <1>8, Places9 DEF LoadMiniboot7, Goto, Started, AreaKept, BootInv, Areas
<1>9. CASE ResetArm9
  BY <1>1, <1>2, <1>3, <1>9 DEF ResetArm9, Goto, Started, AreaKept, BootInv
<1>10. CASE Arm9Enters
  BY <1>1, <1>2, <1>3, <1>10 DEF Arm9Enters, Started, AreaKept, BootInv
<1>11. QED
  BY <1>4, <1>5, <1>6, <1>7, <1>8, <1>9, <1>10 DEF CartEntry

\* The bootstub and its peer, from the program's return until the ARM7 has reset
LEMMA ReturnStep ==
  ASSUME BootInv, Bootstub \/ Peer PROVE BootInv'
<1>1. CASE Returning
  BY <1>1, HandshakeStep
<1>2. CASE Returned
  <2>1. PeerWait0
    BY <1>2 DEF Returned, Bootstub, Peer, StubSend, StubWait1, StubWait0, PeerTakes, PeerWait1, Goto
  <2>2. Inv' /\ step9' = step9 /\ fifo' = fifo
    BY <1>2, <2>1, StutterStep DEF Returned, PeerWait0, vars
  <2>3. QED
    BY <1>2, <2>1, <2>2 DEF Returned, PeerWait0, Goto, BootInv
<1>3. ~Started
  BY DEF Started, Bootstub, Peer, StubSend, StubWait1, StubWait0, PeerTakes, PeerWait1, PeerWait0,
    Goto
<1>4. QED
  BY <1>1, <1>2, <1>3 DEF BootInv

\* A step that changes nothing keeps the invariant.
LEMMA BootStutter == BootInv /\ UNCHANGED all => BootInv'
<1> SUFFICES ASSUME BootInv, UNCHANGED all PROVE BootInv'
  OBVIOUS
<1>1. UNCHANGED vars /\ UNCHANGED start
  BY DEF all
<1>2. UNCHANGED <<from, console, cpu9, cpu7, entry9, ram, backup>>
  BY <1>1 DEF start
<1>3. /\ step9' = step9 /\ fifo' = fifo /\ call' = call /\ pc7' = pc7 /\ r12' = r12
      /\ out9' = out9 /\ out7' = out7
  BY <1>1 DEF vars
<1>4. TypeOK => TypeOK'
  BY <1>1 DEF TypeOK, vars
<1>5. Inv => Inv'
  BY <1>1, StutterStep
<1>6. Returning => Returning'
  BY <1>2, <1>3, <1>4 DEF Returning, Handshake, Idle
<1>7. Returned => Returned'
  BY <1>2, <1>3, <1>5 DEF Returned
<1>8. Started /\ AreaKept => Started' /\ AreaKept'
  BY <1>2, <1>3, <1>5 DEF Started, AreaKept
<1>9. QED
  BY <1>6, <1>7, <1>8 DEF BootInv

\* Every step keeps it.
LEMMA BootNext == BootInv /\ [Arm9Next \/ Arm7Next]_all => BootInv'
BY RunsStep, EntryStep, ReturnStep, BootStutter DEF Arm9Next, Arm7Next

\* It holds from every start on.
LEMMA BootInvariance == MinibootSpec => []BootInv
<1>1. MinibootInit => BootInv
  BY InitBoot
<1>2. QED
  BY <1>1, BootNext, PTL DEF MinibootSpec

-----------------------------------------------------------------------------
\* An answer is read when it is the last one.
LEMMA SlowCallRead == Inv /\ SlowInv /\ CallRead => SlowInv'
<1> SUFFICES ASSUME Inv, SlowInv, CallRead PROVE SlowInv'
  OBVIOUS
<1>1. InArm7Ram' = InArm7Ram
  BY DEF InArm7Ram, CallRead
<1>2. QED
  BY <1>1 DEF Inv, SlowInv, CallRead, vars7, At7, Waiting7, TypeOK, IdleInv, SyncInv, CopyInv, Check9Inv,
    ReleaseInv, LeaveInv, StagedInv, FitsInv, Copying, Done7, Ready7, Leaving7, After

\* A command is written behind the last answer.
LEMMA SlowCallWrite == Inv /\ SlowInv /\ CallWrite => SlowInv'
<1> SUFFICES ASSUME Inv, SlowInv, CallWrite PROVE SlowInv'
  OBVIOUS
<1>1. InArm7Ram' = InArm7Ram
  BY DEF InArm7Ram, CallWrite
<1>2. QED
  BY <1>1 DEF Inv, SlowInv, CallWrite, vars7, At7, Waiting7, TypeOK, IdleInv, SyncInv, CopyInv, Check9Inv,
    ReleaseInv, LeaveInv, StagedInv, FitsInv, Copying, Done7, Ready7, Leaving7, After

\* A wait ends on the command's own answer.
LEMMA SlowCallReturn == Inv /\ SlowInv /\ CallReturn => SlowInv'
<1> SUFFICES ASSUME Inv, SlowInv, CallReturn PROVE SlowInv'
  OBVIOUS
<1>1. /\ call = "wait" /\ out7 = r12 /\ r12 # last
      /\ UNCHANGED <<vars7, mem, last, header, slow>>
  BY DEF CallReturn, Inv
<1>2. InArm7Ram' = InArm7Ram
  BY <1>1 DEF InArm7Ram
<1>3. step9 \in {"sync", "copy", "release", "reset"}
  BY <1>1 DEF Inv, TypeOK, Crt0Inv, IdleInv, Check9Inv, LeaveInv
<1>4. /\ After["sync"] = "backup" /\ After["copy"] = "check9"
      /\ After["release"] = "load" /\ After["reset"] = "done"
  BY DEF After
<1>5. CASE step9 = "sync"
  <2>1. step9' \in {"sync", "backup"}
    BY <1>4, <1>5 DEF CallReturn
  <2>2. QED
    BY <2>1 DEF SlowInv
<1>6. CASE step9 = "copy"
  <2>1. step9' = "check9"
    BY <1>4, <1>6 DEF CallReturn
  <2>2. QED
    BY <1>1, <1>2, <1>6, <2>1 DEF Inv, SlowInv, CopyInv, StagedInv, Copying, At7, Waiting7, vars7
<1>7. CASE step9 = "release"
  <2>1. step9' = "load"
    BY <1>4, <1>7 DEF CallReturn
  <2>2. QED
    BY <1>1, <1>2, <1>7, <2>1 DEF Inv, SlowInv, ReleaseInv, StagedInv, Done7, At7, Waiting7, vars7
<1>8. CASE step9 = "reset"
  <2>1. step9' = "done"
    BY <1>4, <1>8 DEF CallReturn
  <2>2. QED
    BY <1>1, <1>2, <1>8, <2>1 DEF SlowInv, At7, vars7
<1>9. QED
  BY <1>3, <1>5, <1>6, <1>7, <1>8

\* After the backup the last sync command is answered.
LEMMA SlowBackup == Inv /\ SlowInv /\ Backup => SlowInv'
<1> SUFFICES ASSUME Inv, SlowInv, Backup PROVE SlowInv'
  OBVIOUS
<1>1. InArm7Ram' = InArm7Ram
  BY DEF InArm7Ram, Backup
<1>2. QED
  BY <1>1 DEF Inv, SlowInv, Backup, vars7, At7, Waiting7, TypeOK, IdleInv, SyncInv, CopyInv, Check9Inv,
    ReleaseInv, LeaveInv, StagedInv, FitsInv, Copying, Done7, Ready7, Leaving7, After

\* The copy's answer is there when the location is checked.
LEMMA SlowCheck9 == Inv /\ SlowInv /\ Check9 => SlowInv'
<1> SUFFICES ASSUME Inv, SlowInv, Check9 PROVE SlowInv'
  OBVIOUS
<1>1. InArm7Ram' = InArm7Ram
  BY DEF InArm7Ram, Check9
<1>2. QED
  BY <1>1 DEF Inv, SlowInv, Check9, vars7, At7, Waiting7, TypeOK, IdleInv, SyncInv, CopyInv, Check9Inv,
    ReleaseInv, LeaveInv, StagedInv, FitsInv, Copying, Done7, Ready7, Leaving7, After

\* crt0 comes before every command.
LEMMA SlowCrt0 == Inv /\ SlowInv /\ Crt0 => SlowInv'
<1> SUFFICES ASSUME Inv, SlowInv, Crt0 PROVE SlowInv'
  OBVIOUS
<1>1. InArm7Ram' = InArm7Ram
  BY DEF InArm7Ram, Crt0
<1>2. QED
  BY <1>1 DEF SlowInv, Crt0, vars7, At7

\* Staging waits for nobody.
LEMMA SlowStage == Inv /\ SlowInv /\ Stage => SlowInv'
<1> SUFFICES ASSUME Inv, SlowInv, Stage PROVE SlowInv'
  OBVIOUS
<1>1. InArm7Ram' = InArm7Ram
  BY DEF InArm7Ram, Stage
<1>2. QED
  BY <1>1 DEF SlowInv, Stage, vars7, At7

\* The words are sent behind the answer of the sync loop.
LEMMA SlowSend == Inv /\ SlowInv /\ Send => SlowInv'
<1> SUFFICES ASSUME Inv, SlowInv, Send PROVE SlowInv'
  OBVIOUS
<1>1. InArm7Ram' = InArm7Ram
  BY DEF InArm7Ram, Send
<1>2. QED
  BY <1>1 DEF SlowInv, Send, vars7, At7

\* The ARM9's binary is read behind the release's answer.
LEMMA SlowLoad == Inv /\ SlowInv /\ Load => SlowInv'
<1> SUFFICES ASSUME Inv, SlowInv, Load PROVE SlowInv'
  OBVIOUS
<1>1. InArm7Ram' = InArm7Ram
  BY DEF InArm7Ram, Load
<1>2. QED
  BY <1>1 DEF SlowInv, Load, vars7, At7

\* Patching waits for nobody.
LEMMA SlowPatch == Inv /\ SlowInv /\ Patch => SlowInv'
<1> SUFFICES ASSUME Inv, SlowInv, Patch PROVE SlowInv'
  OBVIOUS
<1>1. InArm7Ram' = InArm7Ram
  BY DEF InArm7Ram, Patch
<1>2. QED
  BY <1>1 DEF SlowInv, Patch, vars7, At7

\* The ARM7 starts before the first command is answered.
LEMMA SlowStart7 == Inv /\ SlowInv /\ Start7 => SlowInv'
<1> SUFFICES ASSUME Inv, SlowInv, Start7 PROVE SlowInv'
  OBVIOUS
<1>1. InArm7Ram' = InArm7Ram
  BY DEF InArm7Ram, Start7, vars9
<1>2. QED
  BY <1>1, Mod16Counter DEF Inv, SlowInv, Start7, Goto7, vars9, At7, Waiting7, TypeOK, IdleInv, SyncInv,
    CopyInv, Check9Inv, ReleaseInv, LeaveInv, StagedInv, Copying, Done7, Ready7, Leaving7

\* A released or sync command's reception is no answer.
LEMMA SlowReceive == Inv /\ SlowInv /\ Receive => SlowInv'
<1> SUFFICES ASSUME Inv, SlowInv, Receive PROVE SlowInv'
  OBVIOUS
<1>1. InArm7Ram' = InArm7Ram
  BY DEF InArm7Ram, Receive, vars9
<1>2. QED
  BY <1>1, Mod16Counter DEF Inv, SlowInv, Receive, Goto7, vars9, At7, Waiting7, TypeOK, IdleInv, SyncInv,
    CopyInv, Check9Inv, ReleaseInv, LeaveInv, StagedInv, Copying, Done7, Ready7, Leaving7

\* The ARM7 answers the command it has received.
LEMMA SlowBump == Inv /\ SlowInv /\ Bump => SlowInv'
<1> SUFFICES ASSUME Inv, SlowInv, Bump PROVE SlowInv'
  OBVIOUS
<1>1. InArm7Ram' = InArm7Ram
  BY DEF InArm7Ram, Bump, vars9
<1>2. QED
  BY <1>1, Mod16Counter DEF Inv, SlowInv, Bump, Goto7, vars9, At7, Waiting7, TypeOK, IdleInv, SyncInv,
    CopyInv, Check9Inv, ReleaseInv, LeaveInv, StagedInv, Copying, Done7, Ready7, Leaving7

\* The ARM7 takes up a command when it has answered the one before.
LEMMA SlowPoll == Inv /\ SlowInv /\ Poll => SlowInv'
<1> SUFFICES ASSUME Inv, SlowInv, Poll PROVE SlowInv'
  OBVIOUS
<1>1. InArm7Ram' = InArm7Ram
  BY DEF InArm7Ram, Poll, vars9
<1>2. QED
  BY <1>1, Mod16Counter DEF Inv, SlowInv, Poll, Goto7, vars9, At7, Waiting7, TypeOK, IdleInv, SyncInv,
    CopyInv, Check9Inv, ReleaseInv, LeaveInv, StagedInv, Copying, Done7, Ready7, Leaving7

\* A word is taken between a command and its answer.
LEMMA SlowTakeArg == Inv /\ SlowInv /\ TakeArg => SlowInv'
<1> SUFFICES ASSUME Inv, SlowInv, TakeArg PROVE SlowInv'
  OBVIOUS
<1>1. InArm7Ram' = InArm7Ram
  BY DEF InArm7Ram, TakeArg, vars9
<1>2. QED
  BY <1>1, Mod16Counter DEF Inv, SlowInv, TakeArg, Goto7, vars9, At7, Waiting7, TypeOK, IdleInv, SyncInv,
    CopyInv, Check9Inv, ReleaseInv, LeaveInv, StagedInv, Copying, Done7, Ready7, Leaving7

\* The copy's answer follows the copy.
LEMMA SlowCopy == Inv /\ SlowInv /\ Copy => SlowInv'
<1> SUFFICES ASSUME Inv, SlowInv, Copy PROVE SlowInv'
  OBVIOUS
<1>1. InArm7Ram' = InArm7Ram
  BY DEF InArm7Ram, Copy, vars9
<1>2. QED
  BY <1>1, Mod16Counter DEF Inv, SlowInv, Copy, Goto7, vars9, At7, Waiting7, TypeOK, IdleInv, SyncInv,
    CopyInv, Check9Inv, ReleaseInv, LeaveInv, StagedInv, Copying, Done7, Ready7, Leaving7

\* What leaves the protocol's variables alone keeps it.
LEMMA SlowStutter == SlowInv /\ UNCHANGED vars => SlowInv'
BY DEF SlowInv, vars, At7, InArm7Ram

\* Every step of miniboot and of the ways into it keeps it.
LEMMA SlowNext == BootInv /\ SlowInv /\ [Arm9Next \/ Arm7Next]_all => SlowInv'
<1> SUFFICES ASSUME BootInv, SlowInv, [Arm9Next \/ Arm7Next]_all PROVE SlowInv'
  OBVIOUS
<1>1. CASE Arm9Runs \/ Arm7Runs
  <2>1. ~Returning
    BY <1>1 DEF Returning, Handshake, Arm9Runs, Arm7Runs
  <2>2. Inv /\ (Arm9 \/ Arm7)
    BY <1>1, <2>1 DEF BootInv, Returned, Started, Arm9Runs, Arm7Runs
  <2>3. CASE Arm9
    BY <2>2, <2>3, SlowCrt0, SlowCallRead, SlowCallWrite, SlowCallReturn, SlowBackup, SlowStage,
      SlowSend, SlowCheck9, SlowLoad, SlowPatch DEF Arm9
  <2>4. CASE Arm7
    BY <2>2, <2>4, SlowStart7, SlowReceive, SlowBump, SlowPoll, SlowTakeArg, SlowCopy DEF Arm7
  <2>5. QED
    BY <2>2, <2>3, <2>4
<1>2. CASE CartEntry \/ Arm9Enters \/ UNCHANGED all
  <2>1. UNCHANGED vars
    BY <1>2 DEF CartEntry, SwitchMode, DetectConsole, LoadGba, LoadMiniboot9, LoadMiniboot7, ResetArm9,
      Arm9Enters, all
  <2>2. QED
    BY <2>1, SlowStutter
<1>3. CASE Bootstub \/ Peer
  <2>1. CASE PeerWait0
    BY <2>1, SlowStutter DEF PeerWait0
  <2>2. CASE ~PeerWait0
    <3>1. step9 = "crt0"
      BY <1>3, <2>2 DEF Bootstub, Peer, BootInv, Returning, Returned, Started, Idle, StubSend, StubWait1,
        StubWait0, PeerTakes, PeerWait1, Goto
    <3>2. step9' = step9
      BY <1>3 DEF Bootstub, Peer, StubSend, StubWait1, StubWait0, PeerTakes, PeerWait1, PeerWait0,
        vars, vars9
    <3>3. QED
      BY <3>1, <3>2 DEF SlowInv
  <2>3. QED
    BY <2>1, <2>2
<1>4. QED
  BY <1>1, <1>2, <1>3 DEF Arm9Next, Arm7Next

\* It holds from every start on.
LEMMA SlowInvariance == MinibootSpec => []SlowInv
<1>1. MinibootInit => SlowInv
  BY DEF MinibootInit, SlowInv
<1>2. QED
  BY <1>1, BootInvariance, SlowNext, PTL DEF MinibootSpec

-----------------------------------------------------------------------------
\* Every variable of the protocol keeps its type from every start on, whatever
\* the program before left in the registers.
THEOREM BootTypes == MinibootSpec => []TypeOK
<1>1. BootInv => TypeOK
  BY DEF BootInv, Returning, Returned, Started, Inv
<1>2. QED
  BY <1>1, BootInvariance, PTL

\* From every start on the ARM9 reads its binary only when the ARM7 has copied
\* its own out of the way.
THEOREM BootCopiedFirst == MinibootSpec => []CopiedBeforeLoad
<1>1. BootInv => CopiedBeforeLoad
  <2>1. Returning => CopiedBeforeLoad
    BY DEF Returning, Idle, CopiedBeforeLoad
  <2>2. QED
    BY <2>1, InvCopied DEF BootInv, Returned, Started
<1>2. QED
  BY <1>1, BootInvariance, PTL

\* Both CPUs enter miniboot when its code is in place, in step, and with clear
\* nibbles (scsfw.s:100-161, bootstub.s:50-84).
THEOREM Entered == MinibootSpec => []EntersMiniboot
<1>1. BootInv => EntersMiniboot
  <2>1. Returning => EntersMiniboot
    BY DEF Returning, Handshake, EntersMiniboot
  <2>2. Returned => EntersMiniboot
    BY DEF Returned, EntersMiniboot, Inv, Crt0Inv, Syncing
  <2>3. Started => EntersMiniboot
    BY DEF Started, EntersMiniboot
  <2>4. QED
    BY <2>1, <2>2, <2>3 DEF BootInv
<1>2. QED
  BY <1>1, BootInvariance, PTL

\* A card's secure area is never lost before it is backed up (scsfw.s:134-138,
\* main.c:99-133).
THEOREM AreaSaved == MinibootSpec => []SecureAreaSaved
<1>1. BootInv => SecureAreaSaved
  <2> SUFFICES ASSUME Started, AreaKept, step9 \notin {"crt0", "sync", "backup"}
               PROVE  SecureAreaSaved
    BY DEF BootInv, Returning, Returned, SecureAreaSaved
  <2>1. (\E c \in {0, 1} : ram[c] = "card") <=> (ram[0] = "card" \/ ram[1] = "card")
    OBVIOUS
  <2>2. QED
    BY <2>1 DEF AreaKept, SecureAreaSaved
<1>2. QED
  BY <1>1, BootInvariance, PTL

\* When the ARM9's long jobs outlast the ARM7's answers, the ARM9 enters the
\* program only when the ARM7 has taken the reset command (main.c:303).
THEOREM LeavesTogether == MinibootSpec => []LeaveTogether
<1>1. SlowInv => LeaveTogether
  BY DEF SlowInv, LeaveTogether
<1>2. QED
  BY <1>1, SlowInvariance, PTL

-----------------------------------------------------------------------------
\* The refinement of ProgramStart

\* The steps of main from which the ARM7 binary in main RAM counts as placed
\* lead only to each other.
LEMMA StepsOn ==
  ASSUME Inv, Arm9 \/ Arm7
  PROVE  /\ step9 \in {"check9", "release", "load", "patch", "reset", "done", "halt9", "lost9"} =>
              step9' \in {"check9", "release", "load", "patch", "reset", "done", "halt9", "lost9"}
         /\ step9 \in {"reset", "done"} => step9' \in {"reset", "done"}
<1>1. CASE CallReturn
  <2>1. /\ After["sync"] = "backup" /\ After["copy"] = "check9"
        /\ After["release"] = "load" /\ After["reset"] = "done"
    BY DEF After
  <2>2. step9 \in {"sync", "copy", "release", "reset"}
    BY <1>1 DEF CallReturn, Inv, TypeOK, Crt0Inv, IdleInv, Check9Inv, LeaveInv
  <2>3. QED
    BY <1>1, <2>1, <2>2 DEF CallReturn
<1>2. CASE Crt0 \/ CallRead \/ CallWrite \/ Backup \/ Stage \/ Send \/ Check9 \/ Load \/ Patch
  BY <1>2 DEF Crt0, CallRead, CallWrite, Backup, Stage, Send, Check9, Load, Patch
<1>3. CASE Arm7
  BY <1>3, Arm7Order
<1>4. QED
  BY <1>1, <1>2, <1>3 DEF Arm9

\* What of the ARM7 binary has arrived in ARM7 RAM is not overwritten: staging
\* and loading write to main RAM, the copy writes bytes of the binary itself.
LEMMA BytesStay ==
  ASSUME Inv, Arm9 \/ Arm7, InArm7Ram, NEW k \in Nat, k < header.size7,
         header.start7 + k \in Memory, mem[header.start7 + k] = <<"arm7", k>>
  PROVE  mem'[header.start7 + k] = <<"arm7", k>>
<1>1. header.start7 + k \notin MainRam
  BY HeaderAssumption, Numbers, MemoryAssumption DEF Inv, TypeOK, InArm7Ram, Arm7Ram, MainRam
<1>2. CASE Stage
  BY <1>1, <1>2 DEF Stage, readNds
<1>3. CASE Load
  BY <1>1, <1>3 DEF Load, readNds
<1>4. CASE Copy
  <2>1. MidCopy /\ Staged
    BY <1>4, CopyHolds DEF Copy, Goto7
  <2>2. mem[k] = <<"arm7", k>>
    BY <2>1 DEF Staged
  <2>3. CASE args[1] >= 4
    <3>1. k < args[2] \/ (k >= args[2] /\ k < args[2] + 4) \/ k >= args[2] + 4
      BY <2>1 DEF MidCopy
    <3>2. QED
      BY <1>4, <2>2, <2>3, <3>1, CopyMoves
  <2>4. CASE ~(args[1] >= 4)
    BY <1>4, <2>4 DEF Copy
  <2>5. QED
    BY <2>3, <2>4
<1>5. CASE Patch
  <2>1. \A a \in Room : a \in MainRam
    BY <1>5, RoomLies DEF Patch, Inv, FitsInv
  <2>2. mem' = mem \/ mem' = Patched
    BY <1>5 DEF Patch
  <2>3. QED
    BY <1>1, <2>1, <2>2 DEF Patched
<1>6. CASE mem' = mem
  BY <1>6
<1>7. QED
  BY <1>2, <1>3, <1>4, <1>5, <1>6 DEF Arm9, Arm7, Crt0, CallRead, CallWrite, CallReturn, Backup, Send,
    Check9, Start7, Receive, Bump, Poll, TakeArg

\* So a placed binary stays placed.
LEMMA PlacedStays ==
  ASSUME Inv, Arm9 \/ Arm7, Arm7Placed PROVE Arm7Placed'
<1>1. header' = header
  BY DEF Arm9, Arm7, Crt0, CallRead, CallWrite, CallReturn, Backup, Stage, Send, Check9, Load, Patch,
    Start7, Receive, Bump, Poll, TakeArg, Copy, vars9
<1>2. header.size7 \in Nat
  BY HeaderAssumption DEF Inv, TypeOK, Header, Word
<1>3. WholeWords \in 0 .. header.size7 /\ WholeWords' = WholeWords /\ InArm7Ram' = InArm7Ram
  BY <1>1, <1>2, Tail4 DEF WholeWords, InArm7Ram
<1>4. CASE InArm7Ram
  <2> SUFFICES ASSUME NEW k \in 0 .. WholeWords - 1
               PROVE  header.start7 + k \in Memory /\ mem'[header.start7 + k] = <<"arm7", k>>
    BY <1>1, <1>3, <1>4 DEF Arm7Placed
  <2>1. k \in Nat /\ k < header.size7
    BY <1>2, <1>3
  <2>2. header.start7 + k \in Memory /\ mem[header.start7 + k] = <<"arm7", k>>
    BY <1>4 DEF Arm7Placed
  <2>3. QED
    BY <1>4, <2>1, <2>2, BytesStay
<1>5. CASE ~InArm7Ram
  BY <1>3, <1>5, StepsOn DEF Arm7Placed
<1>6. QED
  BY <1>4, <1>5

\* A CPU enters the program for good, and not before main sends the reset
\* command.
LEMMA Entering ==
  ASSUME Inv, Arm9 \/ Arm7
  PROVE  /\ pc7 = "reset" => pc7' = "reset"
         /\ step9 = "done" => step9' = "done"
         /\ step9' = "done" \/ pc7' = "reset" => step9 \in {"reset", "done"}
         /\ step9' = step9 \/ pc7' = pc7
<1>1. pc7 = "reset" => pc7' = "reset"
  BY DEF Arm9, Arm7, Crt0, CallRead, CallWrite, CallReturn, Backup, Stage, Send, Check9, Load, Patch, vars7,
    Start7, Receive, Bump, Poll, TakeArg, Copy, Goto7
<1>2. step9' = "done" => step9 \in {"reset", "done"}
  <2>1. CASE CallReturn
    <3>1. /\ After["sync"] = "backup" /\ After["copy"] = "check9"
          /\ After["release"] = "load" /\ After["reset"] = "done"
      BY DEF After
    <3>2. step9 \in {"sync", "copy", "release", "reset"}
      BY <2>1 DEF CallReturn, Inv, TypeOK, Crt0Inv, IdleInv, Check9Inv, LeaveInv
    <3>3. QED
      BY <2>1, <3>1, <3>2 DEF CallReturn
  <2>2. CASE Crt0 \/ CallRead \/ CallWrite \/ Backup \/ Stage \/ Send \/ Check9 \/ Load \/ Patch
    BY <2>2 DEF Crt0, CallRead, CallWrite, Backup, Stage, Send, Check9, Load, Patch
  <2>3. CASE Arm7
    BY <2>3, Arm7Order
  <2>4. QED
    BY <2>1, <2>2, <2>3 DEF Arm9
<1>3. step9 = "done" => step9' = "done"
  <2>1. step9 = "done" => call = "no"
    BY DEF Inv, LeaveInv
  <2>2. QED
    BY <2>1, Arm7Order DEF Arm9, Crt0, CallRead, CallWrite, CallReturn, Backup, Stage, Send, Check9, Load, Patch
<1>4. pc7' = "reset" => step9 \in {"reset", "done"}
  <2>1. pc7' = "reset" => pc7 \in {"reset", "cmd2"}
    BY DEF Arm9, Arm7, Crt0, CallRead, CallWrite, CallReturn, Backup, Stage, Send, Check9, Load, Patch, vars7,
      Start7, Receive, Bump, Poll, TakeArg, Copy, Goto7
  <2>2. pc7 \in {"reset", "cmd2"} => step9 \in {"reset", "done"}
    BY DEF Inv, TypeOK, Crt0Inv, SyncInv, IdleInv, CopyInv, Check9Inv, ReleaseInv, LeaveInv, Syncing,
      Answered, Waiting7, Copying, Done7, Ready7, At7
  <2>3. QED
    BY <2>1, <2>2
<1>5. step9' = step9 \/ pc7' = pc7
  BY Arm7Order DEF Arm9, Crt0, CallRead, CallWrite, CallReturn, Backup, Stage, Send, Check9, Load, Patch, vars7
<1>6. QED
  BY <1>1, <1>2, <1>3, <1>4, <1>5

\* miniboot's steps place a part, enter the program, or change neither.
LEMMA StartStep ==
  ASSUME Inv, Arm9 \/ Arm7
  PROVE  [Program!Next]_(Program!vars)
<1> DEFINE parts == (IF step9 \in {"reset", "done"} THEN {"arm9"} ELSE {}) \cup
                    (IF Arm7Placed THEN {"arm7"} ELSE {})
           runs == (IF step9 = "done" THEN {"arm9"} ELSE {}) \cup
                   (IF pc7 = "reset" THEN {"arm7"} ELSE {})
<1>1. Arm7Placed => Arm7Placed'
  BY PlacedStays
<1>2. step9 \in {"reset", "done"} => Arm7Placed /\ step9' \in {"reset", "done"}
  BY InvCopied, StepsOn DEF CopiedBeforeLoad
<1>3. parts \subseteq parts' /\ parts' \subseteq {"arm9", "arm7"}
  BY <1>1, <1>2
<1>4. step9 \in {"reset", "done"} => parts = {"arm9", "arm7"} /\ parts' = parts
  BY <1>1, <1>2
<1>5. CASE runs' = {}
  <2>1. runs = {}
    BY <1>5, Entering
  <2>2. QED
    BY <1>3, <1>5, <2>1 DEF Program!Next, Program!Place
<1>6. CASE runs' # {}
  <2>1. step9 \in {"reset", "done"}
    BY <1>6, Entering
  <2>2. \/ runs' = runs
        \/ runs' = runs \cup {"arm9"}
        \/ runs' = runs \cup {"arm7"}
    BY Entering
  <2>3. QED
    BY <1>4, <2>1, <2>2 DEF Program!Next, Program!Enter, Program!CPUs, Program!vars
<1>7. QED
  BY <1>5, <1>6

\* Neither CPU enters a program before both binaries are in place, from every
\* start on: miniboot implements ProgramStart (main.c:234-320).
THEOREM BootRefined == MinibootSpec => ImplementsStart
<1>1. MinibootInit => Program!Init
  <2>1. MinibootInit => step9 = "crt0" /\ pc7 = "start"
    BY DEF MinibootInit
  <2>2. QED
    BY <2>1 DEF Program!Init
<1>2. BootInv /\ [Arm9Next \/ Arm7Next]_all => [Program!Next]_(Program!vars)
  <2> SUFFICES ASSUME BootInv, [Arm9Next \/ Arm7Next]_all PROVE [Program!Next]_(Program!vars)
    OBVIOUS
  <2>1. CASE Arm9Runs \/ Arm7Runs
    <3>1. ~Returning
      BY <2>1 DEF Returning, Handshake, Arm9Runs, Arm7Runs
    <3>2. Inv /\ (Arm9 \/ Arm7)
      BY <2>1, <3>1 DEF BootInv, Returned, Started, Arm9Runs, Arm7Runs
    <3>3. QED
      BY <3>2, StartStep
  <2>2. CASE CartEntry \/ Arm9Enters \/ Bootstub \/ Peer \/ UNCHANGED all
    <3>1. UNCHANGED <<step9, pc7, header, mem>>
      BY <2>2 DEF CartEntry, SwitchMode, DetectConsole, LoadGba, LoadMiniboot9, LoadMiniboot7,
        ResetArm9, Arm9Enters, Bootstub, Peer, StubSend, StubWait1, StubWait0, PeerTakes, PeerWait1,
        PeerWait0, all, vars, vars9, vars7
    <3>2. Arm7Placed' = Arm7Placed
      BY <3>1 DEF Arm7Placed, InArm7Ram, WholeWords
    <3>3. QED
      BY <3>1, <3>2 DEF Program!vars
  <2>3. QED
    BY <2>1, <2>2 DEF Arm9Next, Arm7Next
<1>3. QED
  BY <1>1, <1>2, BootInvariance, PTL DEF MinibootSpec, ImplementsStart, Program!Spec

-----------------------------------------------------------------------------
\* What miniboot leaves in memory, for every header and every size of the
\* memories.  Two things are followed: where every byte may come from, which says
\* that nothing is written beyond the binaries, and how far the binaries have
\* come.  That the ARM7's binary has arrived in ARM7 RAM is in MinibootIpcProofs'
\* table already.

\* What of the ARM7 binary belongs at its place when main has left.
Size7 == IF InArm7Ram THEN WholeWords ELSE header.size7

\* Does address a belong to the ARM9 binary?
In9(a) == a - header.start9 \in 0 .. header.size9 - 1

\* A byte is what it was, a binary's at that binary's place, a staged one, or the
\* driver's.
Origin(a) ==
  \/ mem[a] = <<"old", a>>
  \/ a - header.start7 \in 0 .. Size7 - 1 /\ mem[a] = <<"arm7", a - header.start7>>
  \/ InArm7Ram /\ a < header.size7 /\ mem[a] = <<"arm7", a>>
  \/ In9(a) /\ mem[a] = <<"arm9", a - header.start9>>
  \/ a \in Room /\ mem[a] = <<"driver", a - header.start9 - header.dldi9>>

OriginInv == \A a \in Memory : Origin(a)

\* How far main has read the ARM7 binary; reading the ARM9 binary may then
\* cover it.
Read7Inv ==
  /\ step9 = "stage" =>
       \A k \in Nat : k < 4 * i /\ k < header.size7 => mem[Dest7 + k] = <<"arm7", k>>
  /\ step9 \in {"send", "copy", "check9", "release"} =>
       \A k \in Nat : k < header.size7 => mem[Dest7 + k] = <<"arm7", k>>
  /\ step9 \in {"load", "patch", "reset", "done"} =>
       \A k \in Nat : k < header.size7 /\ ~In9(Dest7 + k) => mem[Dest7 + k] = <<"arm7", k>>

\* How far main has read the ARM9 binary; the driver then takes its room.
Read9Inv ==
  /\ step9 = "load" =>
       \A k \in Nat : k < 4 * i /\ k < header.size9 =>
         mem[header.start9 + k] = <<"arm9", k>>
  /\ step9 = "patch" =>
       \A k \in Nat : k < header.size9 => mem[header.start9 + k] = <<"arm9", k>>
  /\ step9 \in {"reset", "done"} =>
       /\ \A k \in Nat : k < header.size9 /\ header.start9 + k \notin Room =>
            mem[header.start9 + k] = <<"arm9", k>>
       /\ \A a \in Room : mem[a] = <<"driver", a - header.start9 - header.dldi9>>

\* main begins the ARM9 binary with its first word.
CounterInv == step9 = "check9" => i = 0

MemInv == OriginInv /\ Read7Inv /\ Read9Inv /\ CounterInv

-----------------------------------------------------------------------------
\* Facts about the operators

\* The header does not change, and neither does what is made of it.
LEMMA SameHeader ==
  ASSUME header' = header
  PROVE  /\ Size7' = Size7 /\ Dest7' = Dest7 /\ InArm7Ram' = InArm7Ram
         /\ Room' = Room /\ \A a : In9(a)' = In9(a)
BY Frame DEF Size7, Dest7, Room, In9, InArm7Ram

\* The table types the header and bounds what arrives.
LEMMA Sizes ==
  ASSUME Inv
  PROVE  /\ header.start7 \in Nat /\ header.size7 \in Nat
         /\ header.start9 \in Nat /\ header.size9 \in Nat
         /\ Size7 \in 0 .. header.size7 /\ Dest7 \in Nat /\ i \in Nat
<1>1. header \in Header /\ i \in Nat
  BY HeaderAssumption DEF Inv, TypeOK
<1>2. header.start7 \in Nat /\ header.size7 \in Nat /\ header.start9 \in Nat /\ header.size9 \in Nat
  BY <1>1, Numbers
<1>3. WholeWords \in 0 .. header.size7
  BY <1>2, Tail4 DEF WholeWords
<1>4. QED
  BY <1>1, <1>2, <1>3 DEF Size7, Dest7

\* Addresses are numbers.
LEMMA Addresses == \A a \in Memory : a \in Nat
BY MemoryAssumption DEF Memory, MainRam, Arm7Ram

\* An ARM7 binary that main has read lies in memory.
LEMMA Fits7 ==
  ASSUME Inv, Arm7Lies, NEW k \in Nat, k < header.size7
  PROVE  Dest7 + k \in Memory
BY Sizes, MemoryAssumption DEF Dest7, Arm7Lies, InArm7Ram, Memory, MainRam, Arm7Ram

\* The same of the ARM9 binary, which lies in main RAM.
LEMMA Fits9 ==
  ASSUME Inv, Arm9Lies, NEW k \in Nat, k < header.size9
  PROVE  header.start9 + k \in MainRam /\ header.start9 + k \in Memory
BY Sizes, MemoryAssumption DEF Arm9Lies, Memory, MainRam

-----------------------------------------------------------------------------
\* The steps of miniboot

\* A word of the ARM7 binary is read.
LEMMA StageMem == ASSUME Inv, MemInv, Stage PROVE MemInv'
<1>1. /\ step9 = "stage" /\ header' = header
      /\ mem' = readNds("arm7", Dest7, header.size7, i)
      /\ step9' # "stage" => i' = 0
  BY DEF Stage
<1>2. /\ step9' \in {"stage", "send", "check9", "lost7"}
      /\ step9' = "stage" => i' = i + 1
      /\ step9' \in {"send", "check9"} => LastWord(header.size7, i)
      /\ step9' # "lost7" =>
           \A k \in Nat : k < 4 * i + 4 /\ k < header.size7 => Dest7 + k \in MainRam
  BY StageReads DEF Inv
<1>3. /\ header.start7 \in Nat /\ header.size7 \in Nat /\ Size7 \in 0 .. header.size7
      /\ Dest7 \in Nat /\ i \in Nat
  BY Sizes
<1>4. /\ Size7' = Size7 /\ Dest7' = Dest7 /\ InArm7Ram' = InArm7Ram /\ Room' = Room
      /\ \A a : In9(a)' = In9(a)
  BY <1>1, SameHeader
<1>5. OriginInv'
  <2> SUFFICES ASSUME NEW a \in Memory PROVE Origin(a)'
    BY DEF OriginInv
  <2>1. a \in Nat /\ Origin(a)
    BY Addresses DEF MemInv, OriginInv
  <2>2. CASE a - Dest7 \in 4 * i .. 4 * i + 3 /\ a - Dest7 < header.size7
    <3>1. mem'[a] = mem[a] \/ mem'[a] = <<"arm7", a - Dest7>>
      BY <1>1 DEF readNds
    <3>2. CASE InArm7Ram
      <4>1. Dest7 = 0 /\ a - Dest7 = a
        BY <2>1, <3>2 DEF Dest7
      <4>2. QED
        BY <1>1, <1>4, <2>1, <2>2, <3>1, <3>2, <4>1 DEF Origin
    <3>3. CASE ~InArm7Ram
      <4>1. Dest7 = header.start7 /\ Size7 = header.size7
        BY <3>3 DEF Dest7, Size7
      <4>2. a - header.start7 \in 0 .. Size7 - 1
        BY <1>3, <2>1, <2>2, <4>1
      <4>3. QED
        BY <1>1, <1>4, <2>1, <3>1, <4>1, <4>2 DEF Origin
    <3>4. QED
      BY <3>2, <3>3
  <2>3. CASE ~(a - Dest7 \in 4 * i .. 4 * i + 3 /\ a - Dest7 < header.size7)
    <3>1. mem'[a] = mem[a]
      BY <1>1, <1>3, <2>3 DEF readNds
    <3>2. QED
      BY <1>1, <1>4, <2>1, <3>1 DEF Origin
  <2>4. QED
    BY <2>2, <2>3
<1>6. step9' # "lost7" =>
        \A k \in Nat : k < 4 * i + 4 /\ k < header.size7 => mem'[Dest7 + k] = <<"arm7", k>>
  <2> SUFFICES ASSUME step9' # "lost7", NEW k \in Nat, k < 4 * i + 4, k < header.size7
               PROVE  mem'[Dest7 + k] = <<"arm7", k>>
    OBVIOUS
  <2>1. Dest7 + k \in MainRam
    BY <1>2
  <2>2. PICK a \in Memory : a = Dest7 + k /\ a \in MainRam
    BY <2>1 DEF Memory
  <2>3. a - Dest7 = k
    BY <1>3, <2>2
  <2>4. CASE k < 4 * i
    <3>1. mem[a] = <<"arm7", k>>
      BY <1>1, <2>2, <2>4 DEF MemInv, Read7Inv
    <3>2. ~(a - Dest7 \in 4 * i .. 4 * i + 3)
      BY <1>3, <2>3, <2>4
    <3>3. mem'[a] = mem[a]
      BY <1>1, <1>3, <3>2 DEF readNds
    <3>4. QED
      BY <2>2, <3>1, <3>3
  <2>5. CASE k >= 4 * i
    <3>1. a - Dest7 \in 4 * i .. 4 * i + 3 /\ a - Dest7 < header.size7
      BY <1>3, <2>3, <2>5
    <3>2. mem'[a] = <<"arm7", a - Dest7>>
      BY <1>1, <1>3, <2>2, <3>1 DEF readNds
    <3>3. QED
      BY <2>2, <2>3, <3>2
  <2>6. QED
    BY <1>3, <2>4, <2>5
<1>7. Read7Inv'
  <2>1. CASE step9' = "stage"
    <3>1. 4 * i' = 4 * i + 4
      BY <1>3, <1>2, <2>1
    <3>2. QED
      BY <1>1, <1>4, <1>6, <2>1, <3>1 DEF Read7Inv
  <2>2. CASE step9' \in {"send", "check9"}
    <3>1. 4 * i + 4 >= header.size7
      BY <1>3, <1>2, <2>2 DEF LastWord
    <3>2. \A k \in Nat : k < header.size7 => k < 4 * i + 4
      BY <1>3, <3>1
    <3>3. \A k \in Nat : k < header.size7 => mem'[Dest7 + k] = <<"arm7", k>>
      BY <1>6, <2>2, <3>2
    <3>4. QED
      BY <1>1, <1>4, <2>2, <3>3 DEF Read7Inv
  <2>3. CASE step9' = "lost7"
    BY <2>3 DEF Read7Inv
  <2>4. QED
    BY <1>2, <2>1, <2>2, <2>3
<1>8. Read9Inv' /\ CounterInv'
  BY <1>1, <1>2 DEF Read9Inv, CounterInv
<1>9. QED
  BY <1>5, <1>7, <1>8 DEF MemInv

\* A word of the ARM9 binary is read.  In ARM7 RAM it touches nothing; what it
\* covers of the ARM7 binary in main RAM belongs to it.
LEMMA LoadMem == ASSUME Inv, MemInv, Load PROVE MemInv'
<1>1. /\ step9 = "load" /\ Arm7Lies /\ header' = header
      /\ mem' = readNds("arm9", header.start9, header.size9, i)
  BY DEF Load, Inv, FitsInv
<1>2. /\ step9' \in {"load", "patch", "lost9"}
      /\ step9' = "load" => i' = i + 1
      /\ step9' = "patch" => LastWord(header.size9, i)
      /\ step9' # "lost9" =>
           \A k \in Nat : k < 4 * i + 4 /\ k < header.size9 => header.start9 + k \in MainRam
  BY LoadReads DEF Inv
<1>3. /\ header.start9 \in Nat /\ header.size9 \in Nat /\ header.size7 \in Nat
      /\ Dest7 \in Nat /\ i \in Nat
  BY Sizes
<1>4. /\ Size7' = Size7 /\ Dest7' = Dest7 /\ InArm7Ram' = InArm7Ram /\ Room' = Room
      /\ \A a : In9(a)' = In9(a)
  BY <1>1, SameHeader
<1>5. \A a \in Memory : mem'[a] = mem[a] \/ (In9(a) /\ mem'[a] = <<"arm9", a - header.start9>>)
  <2> SUFFICES ASSUME NEW a \in Memory, mem'[a] # mem[a]
               PROVE  In9(a) /\ mem'[a] = <<"arm9", a - header.start9>>
    OBVIOUS
  <2>1. a - header.start9 \in 4 * i .. 4 * i + 3 /\ a - header.start9 < header.size9
    BY <1>1 DEF readNds
  <2>2. mem'[a] = <<"arm9", a - header.start9>>
    BY <1>1, <2>1 DEF readNds
  <2>3. In9(a)
    BY <1>3, <2>1, Addresses DEF In9
  <2>4. QED
    BY <2>2, <2>3
<1>6. OriginInv'
  <2> SUFFICES ASSUME NEW a \in Memory PROVE Origin(a)'
    BY DEF OriginInv
  <2>1. Origin(a)
    BY DEF MemInv, OriginInv
  <2>2. QED
    BY <1>1, <1>4, <1>5, <2>1 DEF Origin
<1>7. Read7Inv'
  <2>1. ASSUME NEW k \in Nat, k < header.size7, ~In9(Dest7 + k)
        PROVE  mem'[Dest7 + k] = <<"arm7", k>>
    <3>1. Dest7 + k \in Memory
      BY <1>1, <2>1, Fits7
    <3>2. mem[Dest7 + k] = <<"arm7", k>>
      BY <1>1, <2>1 DEF MemInv, Read7Inv
    <3>3. QED
      BY <1>5, <2>1, <3>1, <3>2
  <2>2. QED
    BY <1>1, <1>4, <1>2, <2>1 DEF Read7Inv
<1>8. step9' # "lost9" =>
        \A k \in Nat : k < 4 * i + 4 /\ k < header.size9 => mem'[header.start9 + k] = <<"arm9", k>>
  <2> SUFFICES ASSUME step9' # "lost9", NEW k \in Nat, k < 4 * i + 4, k < header.size9
               PROVE  mem'[header.start9 + k] = <<"arm9", k>>
    OBVIOUS
  <2>1. PICK a \in Memory : a = header.start9 + k /\ a \in MainRam
    BY <1>2 DEF Memory
  <2>2. a - header.start9 = k
    BY <1>3, <2>1
  <2>3. CASE k < 4 * i
    <3>1. mem[a] = <<"arm9", k>>
      BY <1>1, <2>1, <2>3 DEF MemInv, Read9Inv
    <3>2. QED
      BY <1>5, <2>1, <2>2, <3>1
  <2>4. CASE k >= 4 * i
    <3>1. a - header.start9 \in 4 * i .. 4 * i + 3 /\ a - header.start9 < header.size9
      BY <1>3, <2>2, <2>4
    <3>2. mem'[a] = <<"arm9", a - header.start9>>
      BY <1>1, <1>3, <2>1, <3>1 DEF readNds
    <3>3. QED
      BY <2>1, <2>2, <3>2
  <2>5. QED
    BY <1>3, <2>3, <2>4
<1>9. Read9Inv'
  <2>1. CASE step9' = "load"
    <3>1. 4 * i' = 4 * i + 4
      BY <1>3, <1>2, <2>1
    <3>2. QED
      BY <1>1, <1>8, <2>1, <3>1 DEF Read9Inv
  <2>2. CASE step9' = "patch"
    <3>1. \A k \in Nat : k < header.size9 => k < 4 * i + 4
      BY <1>3, <1>2, <2>2 DEF LastWord
    <3>2. QED
      BY <1>1, <1>8, <2>2, <3>1 DEF Read9Inv
  <2>3. CASE step9' = "lost9"
    BY <2>3 DEF Read9Inv
  <2>4. QED
    BY <1>2, <2>1, <2>2, <2>3
<1>10. CounterInv'
  BY <1>2 DEF CounterInv
<1>11. QED
  BY <1>6, <1>7, <1>9, <1>10 DEF MemInv

\* The driver takes its room, which belongs to the ARM9 binary.
LEMMA PatchMem == ASSUME Inv, MemInv, Patch PROVE MemInv'
<1>1. /\ step9 = "patch" /\ Arm9Lies /\ Arm7Lies /\ TypeOK /\ header' = header
      /\ mem' = mem \/ mem' = Patched
      /\ step9' \in {"reset", "halt9", "lost9"}
  BY DEF Patch, Inv, FitsInv
<1>2. /\ header.start9 \in Nat /\ header.size9 \in Nat /\ header.size7 \in Nat
      /\ header.space9 \in Nat /\ header.dldi9 \in Nat /\ Dest7 \in Nat
  BY <1>1, Sizes, HeaderAssumption, Numbers DEF TypeOK
<1>3. /\ Size7' = Size7 /\ Dest7' = Dest7 /\ InArm7Ram' = InArm7Ram /\ Room' = Room
      /\ \A a : In9(a)' = In9(a)
  BY <1>1, SameHeader
<1>4. \A a \in Room : a \in Memory /\ In9(a)
  BY <1>1, RoomLies DEF In9, Memory
<1>5. /\ \A a \in Memory : a \notin Room => mem'[a] = mem[a]
      /\ \A a \in Memory : mem'[a] = mem[a] \/
           (a \in Room /\ mem'[a] = <<"driver", a - header.start9 - header.dldi9>>)
      /\ step9' = "reset" =>
           \A a \in Room : mem'[a] = <<"driver", a - header.start9 - header.dldi9>>
  <2>1. CASE mem' = Patched
    BY <1>4, <2>1 DEF Patched
  <2>2. CASE mem' = mem
    <3>1. step9' = "reset" => Room = {} \/ mem' = Patched
      BY <1>2 DEF Patch, Room
    <3>2. QED
      BY <2>1, <2>2, <3>1
  <2>3. QED
    BY <1>1, <2>1, <2>2
<1>6. OriginInv'
  <2> SUFFICES ASSUME NEW a \in Memory PROVE Origin(a)'
    BY DEF OriginInv
  <2>1. Origin(a)
    BY DEF MemInv, OriginInv
  <2>2. QED
    BY <1>1, <1>3, <1>5, <2>1 DEF Origin
<1>7. Read7Inv'
  <2>1. ASSUME NEW k \in Nat, k < header.size7, ~In9(Dest7 + k)
        PROVE  mem'[Dest7 + k] = <<"arm7", k>>
    <3>1. Dest7 + k \in Memory /\ Dest7 + k \notin Room
      BY <1>1, <1>4, <2>1, Fits7
    <3>2. mem[Dest7 + k] = <<"arm7", k>>
      BY <1>1, <2>1 DEF MemInv, Read7Inv
    <3>3. QED
      BY <1>5, <3>1, <3>2
  <2>2. QED
    BY <1>1, <1>3, <2>1 DEF Read7Inv
<1>8. Read9Inv'
  <2>1. ASSUME NEW k \in Nat, k < header.size9, header.start9 + k \notin Room
        PROVE  mem'[header.start9 + k] = <<"arm9", k>>
    <3>1. header.start9 + k \in Memory
      BY <1>1, <2>1, Fits9
    <3>2. mem[header.start9 + k] = <<"arm9", k>>
      BY <1>1, <2>1 DEF MemInv, Read9Inv
    <3>3. QED
      BY <1>5, <2>1, <3>1, <3>2
  <2>2. QED
    BY <1>1, <1>3, <1>5, <2>1 DEF Read9Inv
<1>9. CounterInv'
  BY <1>1 DEF CounterInv
<1>10. QED
  BY <1>6, <1>7, <1>8, <1>9 DEF MemInv

\* The ARM7 copies a word: to ARM7 RAM, and what belongs there.
LEMMA CopyMem == ASSUME Inv, MemInv, Copy PROVE MemInv'
<1>1. /\ step9 \in {"copy", "check9", "release", "halt9"} /\ MidCopy /\ Arm7Fits /\ InArm7Ram
      /\ header \in Header
  BY CopyHolds DEF Copy, Goto7
<1>2. step9' = step9 /\ i' = i /\ header' = header
  BY DEF Copy, vars9
<1>3. /\ Size7' = Size7 /\ Dest7' = Dest7 /\ InArm7Ram' = InArm7Ram /\ Room' = Room
      /\ \A a : In9(a)' = In9(a)
  BY <1>2, SameHeader
<1>4. CASE mem' = mem
  BY <1>2, <1>3, <1>4 DEF MemInv, OriginInv, Origin, Read7Inv, Read9Inv, CounterInv
<1>5. CASE args[1] >= 4
  <2>1. Dest7 = 0 /\ Size7 = WholeWords /\ \A k \in Nat : 0 + k = k
    BY <1>1 DEF Dest7, Size7
  <2>2. /\ header.start7 \in Nat /\ header.size7 \in Nat /\ args[2] \in Nat
        /\ args[2] + 4 <= WholeWords /\ WholeWords <= header.size7
    <3>1. header.start7 \in Nat /\ header.size7 \in Nat /\ args[2] \in Nat
      BY <1>1, Sizes DEF MidCopy
    <3>2. PICK n \in Nat, q \in Nat : n = header.size7 /\ q = args[2]
      BY <3>1
    <3>3. q % 4 = 0 /\ q + 4 <= n
      BY <1>1, <1>5, <3>2 DEF MidCopy
    <3>4. q + 4 <= n - (n % 4) /\ n - (n % 4) <= n
      BY <3>2, <3>3
    <3>5. QED
      BY <3>1, <3>2, <3>4 DEF WholeWords
  <2>3. \A k \in Nat : k < header.size7 => mem'[k] = mem[k]
    BY <1>5, CopyMoves
  <2>4. \A a \in Memory :
           \/ mem'[a] = mem[a]
           \/ a - header.start7 \in 0 .. WholeWords - 1 /\ mem'[a] = <<"arm7", a - header.start7>>
    <3> SUFFICES ASSUME NEW a \in Memory, mem'[a] # mem[a]
                 PROVE  /\ a - header.start7 \in 0 .. WholeWords - 1
                        /\ mem'[a] = <<"arm7", a - header.start7>>
      OBVIOUS
    <3>1. mem' = CopyWord(args[2], args[3]) /\ args[3] = header.start7 + args[2]
      BY <1>1, <1>5 DEF Copy, MidCopy
    <3>2. a - args[3] \in 0 .. 3 /\ mem'[a] = mem[a - args[3] + args[2]]
      BY <3>1 DEF CopyWord
    <3>3. a \in Nat
      BY Addresses
    <3>4. PICK k \in Int : k = a - header.start7
      BY <2>2, <3>3
    <3>5. a - args[3] + args[2] = k /\ k \in args[2] .. args[2] + 3
      <4>1. PICK q \in Nat, s \in Nat : q = args[2] /\ s = header.start7
        BY <2>2
      <4>2. args[3] = s + q /\ a - (s + q) \in 0 .. 3 /\ k = a - s
        BY <3>1, <3>2, <3>4, <4>1
      <4>3. a - (s + q) + q = k /\ k \in q .. q + 3
        BY <3>3, <4>1, <4>2
      <4>4. QED
        BY <4>1, <4>2, <4>3
    <3>6. k \in Nat /\ k < header.size7 /\ k \in 0 .. WholeWords - 1
      <4>1. PICK q \in Nat, w \in Int : q = args[2] /\ w = WholeWords
        BY <2>2, <1>1, Tail4 DEF WholeWords
      <4>2. QED
        BY <2>2, <3>4, <3>5, <4>1
    <3>7. mem[k] = <<"arm7", k>>
      BY <1>1, <3>6, CopyHolds DEF Staged, Copy, Goto7
    <3>8. QED
      BY <3>2, <3>4, <3>5, <3>6, <3>7
  <2>5. OriginInv'
    <3> SUFFICES ASSUME NEW a \in Memory PROVE Origin(a)'
      BY DEF OriginInv
    <3>1. Origin(a)
      BY DEF MemInv, OriginInv
    <3>2. QED
      BY <1>2, <1>3, <2>1, <2>4, <3>1 DEF Origin
  <2>6. Read7Inv'
    <3>1. step9 # "halt9" => \A k \in Nat : k < header.size7 => mem[k] = <<"arm7", k>>
      BY <1>1, <2>1 DEF MemInv, Read7Inv
    <3>2. QED
      BY <1>1, <1>2, <1>3, <2>1, <2>3, <3>1 DEF Read7Inv
  <2>7. Read9Inv' /\ CounterInv'
    BY <1>1, <1>2 DEF MemInv, Read9Inv, CounterInv
  <2>8. QED
    BY <2>5, <2>6, <2>7 DEF MemInv
<1>6. QED
  BY <1>4, <1>5 DEF Copy

\* All other steps leave the memory alone; those of main follow one another.
LEMMA QuietMem ==
  ASSUME Inv, MemInv, Arm9 \/ Arm7, ~Stage, ~Load, ~Patch, ~Copy PROVE MemInv'
<1>1. mem' = mem /\ header' = header
  BY DEF Arm9, Arm7, Crt0, CallRead, CallWrite, CallReturn, Backup, Send, Check9,
    Start7, Receive, Bump, Poll, TakeArg, vars9
<1>2. /\ Size7' = Size7 /\ Dest7' = Dest7 /\ InArm7Ram' = InArm7Ram /\ Room' = Room
      /\ \A a : In9(a)' = In9(a)
  BY <1>1, SameHeader
<1>3. OriginInv'
  BY <1>1, <1>2 DEF MemInv, OriginInv, Origin
<1>4. \/ step9' = step9 /\ (i' = i \/ step9 \notin {"stage", "check9", "load"})
      \/ step9' \in {"sync", "backup", "halt7", "halt9"}
      \/ step9 = "backup" /\ step9' = "stage" /\ i' = 0
      \/ step9 = "send" /\ step9' = "copy"
      \/ step9 = "copy" /\ step9' = "check9" /\ i' = 0
      \/ step9 = "check9" /\ step9' = "release"
      \/ step9 = "check9" /\ step9' = "load" /\ i' = 0
      \/ step9 = "release" /\ step9' = "load" /\ i' = 0
      \/ step9 = "reset" /\ step9' = "done"
  <2>1. CASE Crt0 \/ CallRead \/ CallWrite \/ Send
    BY <2>1 DEF Crt0, CallRead, CallWrite, Send
  <2>2. CASE Backup
    BY <2>2 DEF Backup, Inv, IdleInv
  <2>3. CASE Check9
    BY <2>3 DEF Check9, MemInv, CounterInv
  <2>4. CASE CallReturn
    <3>1. step9 \in {"sync", "copy", "release", "reset"}
      BY <2>4 DEF CallReturn, Inv, TypeOK, Crt0Inv, IdleInv, Check9Inv, LeaveInv
    <3>2. /\ After["sync"] = "backup" /\ After["copy"] = "check9"
          /\ After["release"] = "load" /\ After["reset"] = "done"
      BY DEF After
    <3>3. QED
      BY <2>4, <3>1, <3>2 DEF CallReturn
  <2>5. CASE Arm7
    BY <2>5 DEF Arm7, Start7, Receive, Bump, Poll, TakeArg, vars9
  <2>6. QED
    BY <2>1, <2>2, <2>3, <2>4, <2>5 DEF Arm9
<1>5. i \in Nat /\ Dest7 \in Nat /\ header.size7 \in Nat
  BY Sizes
<1>6. Read7Inv'
  BY <1>1, <1>2, <1>4, <1>5 DEF MemInv, Read7Inv
<1>7. Read9Inv'
  BY <1>1, <1>2, <1>4, <1>5 DEF MemInv, Read9Inv
<1>8. CounterInv'
  BY <1>4 DEF MemInv, CounterInv
<1>9. QED
  BY <1>3, <1>6, <1>7, <1>8 DEF MemInv

-----------------------------------------------------------------------------
\* The ways into miniboot leave its memory alone.
LEMMA EntryMem ==
  ASSUME MemInv, UNCHANGED <<step9, i, header, mem>> PROVE MemInv'
<1>1. /\ Size7' = Size7 /\ Dest7' = Dest7 /\ InArm7Ram' = InArm7Ram /\ Room' = Room
      /\ \A a : In9(a)' = In9(a)
  BY SameHeader
<1>2. QED
  BY <1>1 DEF MemInv, OriginInv, Origin, Read7Inv, Read9Inv, CounterInv

\* Every step of miniboot and of the ways into it keeps the memory's invariant.
LEMMA MemNext == BootInv /\ MemInv /\ [Arm9Next \/ Arm7Next]_all => MemInv'
<1> SUFFICES ASSUME BootInv, MemInv, [Arm9Next \/ Arm7Next]_all PROVE MemInv'
  OBVIOUS
<1>1. CASE Arm9Runs \/ Arm7Runs
  <2>1. ~Returning
    BY <1>1 DEF Returning, Handshake, Arm9Runs, Arm7Runs
  <2>2. Inv /\ (Arm9 \/ Arm7)
    BY <1>1, <2>1 DEF BootInv, Returned, Started, Arm9Runs, Arm7Runs
  <2>3. QED
    BY <2>2, StageMem, LoadMem, PatchMem, CopyMem, QuietMem
<1>2. CASE CartEntry \/ Arm9Enters \/ UNCHANGED all
  <2>1. UNCHANGED <<step9, i, header, mem>>
    BY <1>2 DEF CartEntry, SwitchMode, DetectConsole, LoadGba, LoadMiniboot9, LoadMiniboot7, ResetArm9,
      Arm9Enters, all, vars
  <2>2. QED
    BY <2>1, EntryMem
<1>3. CASE Bootstub \/ Peer
  <2>1. UNCHANGED <<step9, i, header, mem>>
    BY <1>3 DEF Bootstub, Peer, StubSend, StubWait1, StubWait0, PeerTakes, PeerWait1, PeerWait0,
      vars, vars9
  <2>2. QED
    BY <2>1, EntryMem
<1>4. QED
  BY <1>1, <1>2, <1>3 DEF Arm9Next, Arm7Next

\* It holds from every start on.
LEMMA MemInvariance == MinibootSpec => []MemInv
<1>1. MinibootInit => MemInv
  BY DEF MinibootInit, MemInv, OriginInv, Origin, Read7Inv, Read9Inv, CounterInv
<1>2. QED
  BY <1>1, BootInvariance, MemNext, PTL DEF MinibootSpec

\* What the invariants say when main leaves.
LEMMA MemIntact == Inv /\ MemInv => BinariesIntact
<1> SUFFICES ASSUME Inv, MemInv, step9 = "done", Apart, NEW a \in Memory
             PROVE  mem[a] = IF a \in Room THEN <<"driver", a - header.start9 - header.dldi9>>
                             ELSE IF In9(a) THEN <<"arm9", a - header.start9>>
                             ELSE IF a - header.start7 \in 0 .. Size7 - 1
                                  THEN <<"arm7", a - header.start7>>
                             ELSE IF InArm7Ram /\ a < header.size7 THEN <<"arm7", a>>
                             ELSE <<"old", a>>
  BY DEF BinariesIntact, In9, Size7
<1>1. /\ header.start7 \in Nat /\ header.size7 \in Nat /\ header.start9 \in Nat
      /\ header.size9 \in Nat /\ Size7 \in 0 .. header.size7 /\ Dest7 \in Nat /\ a \in Nat
  BY Sizes, Addresses
<1>2. CASE a \in Room
  BY <1>2 DEF MemInv, Read9Inv
<1>3. a \in Room => In9(a)
  BY RoomLies DEF Inv, FitsInv, In9
<1>4. CASE In9(a) /\ a \notin Room
  <2>1. PICK k \in Nat : k = a - header.start9 /\ k < header.size9 /\ a = header.start9 + k
    BY <1>1, <1>4 DEF In9
  <2>2. mem[a] = <<"arm9", k>>
    BY <1>4, <2>1 DEF MemInv, Read9Inv
  <2>3. QED
    BY <1>4, <2>1, <2>2
<1>5. CASE ~In9(a) /\ a - header.start7 \in 0 .. Size7 - 1
  <2>1. PICK k \in Nat : k = a - header.start7 /\ k < Size7 /\ k < header.size7 /\ a = header.start7 + k
    BY <1>1, <1>5
  <2>2. CASE InArm7Ram
    <3>1. Copied
      BY <2>2 DEF Inv, LeaveInv, Leaving7, Ready7, Done7
    <3>2. mem[a] = <<"arm7", k>>
      BY <2>1, <2>2, <3>1 DEF Copied, Size7
    <3>3. QED
      BY <1>5, <1>3, <2>1, <3>2
  <2>3. CASE ~InArm7Ram
    <3>1. Dest7 + k = a
      BY <2>1, <2>3 DEF Dest7
    <3>2. mem[a] = <<"arm7", k>>
      BY <1>5, <2>1, <3>1 DEF MemInv, Read7Inv
    <3>3. QED
      BY <1>5, <1>3, <2>1, <3>2
  <2>4. QED
    BY <2>2, <2>3
<1>6. CASE ~In9(a) /\ a - header.start7 \notin 0 .. Size7 - 1 /\ InArm7Ram /\ a < header.size7
  <2>1. Dest7 + a = a
    BY <1>1, <1>6 DEF Dest7
  <2>2. mem[a] = <<"arm7", a>>
    BY <1>1, <1>6, <2>1 DEF MemInv, Read7Inv
  <2>3. QED
    BY <1>6, <1>3, <2>2
<1>7. CASE /\ ~In9(a) /\ a - header.start7 \notin 0 .. Size7 - 1
           /\ ~(InArm7Ram /\ a < header.size7)
  BY <1>7, <1>3 DEF MemInv, OriginInv, Origin
<1>8. QED
  BY <1>4, <1>5, <1>6, <1>7, <1>2

\* When the ARM9 leaves miniboot memory holds both binaries byte for byte, with
\* the card driver in the room the ARM9 binary keeps for it and up to the last
\* whole word of an ARM7 binary the ARM7 had to copy, and is otherwise untouched
\* but for the staging area.  This is of every header whose binaries lie apart,
\* those included whose ends wrap around (main.c:234-300, crt0.s:86-106,
\* dldi_patch.c:102-109).
THEOREM MemoryIntact == MinibootSpec => []BinariesIntact
<1>1. BootInv /\ MemInv => BinariesIntact
  <2>1. Returning => step9 # "done"
    BY DEF Returning, Idle
  <2>2. Returning => BinariesIntact
    BY <2>1 DEF BinariesIntact
  <2>3. QED
    BY <2>2, MemIntact DEF BootInv, Returned, Started
<1>2. QED
  BY <1>1, BootInvariance, MemInvariance, PTL
=============================================================================
