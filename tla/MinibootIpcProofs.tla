------------------------- MODULE MinibootIpcProofs --------------------------
(***************************************************************************)
(* What holds of miniboot's protocol for every header and every size of    *)
(* the memories, by proof.                                                 *)
(*                                                                         *)
(* No nibble says which command it answers.  The proof is a table, by the  *)
(* ARM9's step, of how far the ARM7 may be: r12, its counter, is the only  *)
(* measure.  The lines to look at are those of "copy" and "release": the   *)
(* ARM9 may take the ARM7's late bump after the sync loop for the answer   *)
(* to the copy command, and it is the release command's wait that then     *)
(* lasts until the copy is done.                                           *)
(***************************************************************************)
EXTENDS MinibootIpc, SequenceTheorems, TLAPS

\* The ARM7 is at step p and has answered n times (modulo 16).
At7(p, n) == pc7 = p /\ r12 = n

\* It has answered a command with n, and waits to be released or to be sent
\* the next command.
Waiting7(n) == At7("release", n) \/ At7("acked", n) \/ At7("poll", n + 1)

\* It waits for sync command k.
Syncing(k) ==
  /\ r12 = k - 1
  /\ \/ pc7 = "sync" /\ r7 = k
     \/ pc7 = "start" /\ k = 1

\* It has answered sync command k.
Answered(k) ==
  IF k < 15 THEN pc7 = "sync" /\ r7 = k + 1 /\ r12 = k
            ELSE At7("next", 15) \/ At7("release", 0)

SyncInv ==
  step9 = "sync" =>
    /\ fifo = <<>>
    /\ \/ /\ i \in 1 .. 15 /\ call \in {"read", "write"}
          /\ Syncing(i) /\ out9 = i - 1
          /\ call = "write" => last = i - 1
       \/ /\ i \in 1 .. 15 /\ call = "wait"
          /\ out9 = i /\ last = i - 1
          /\ \/ Syncing(i)
             \/ At7("ack", i - 1) /\ r7 = i
             \/ Answered(i)
       \/ /\ i = 16 /\ call = "read"
          /\ out9 = 15
          /\ At7("next", 15) \/ At7("release", 0)
       \/ /\ i = 16 /\ call = "write"
          /\ out9 = 15
          /\ \/ last = 15 /\ (At7("next", 15) \/ At7("release", 0))
             \/ last = 0 /\ At7("release", 0)
       \/ /\ i = 16 /\ call = "wait"
          /\ out9 = 0
          /\ \/ last = 15 /\ (At7("next", 15) \/ Waiting7(0))
             \/ last = 0 /\ Waiting7(0)

Crt0Inv ==
  step9 = "crt0" =>
    /\ call = "no" /\ out9 = 0
    /\ Syncing(1)

\* The words of the copy command
Arguments == <<header.size7, 0, header.start7>>

IdleInv ==
  /\ step9 \in {"backup", "stage", "send", "halt7", "lost7"} =>
       call = "no" /\ out9 = 0 /\ Waiting7(0)
  /\ step9 \in {"backup", "stage"} => fifo = <<>>
  /\ step9 \in {"backup"} => i = 0
  /\ step9 = "send" => /\ InArm7Ram /\ i \in 0 .. 2
                       /\ i = 0 => fifo = <<>>
                       /\ i = 1 => fifo = <<header.size7>>
                       /\ i = 2 => fifo = <<header.size7, 0>>

\* The ARM7 is to take the copy command's words, or takes them.
Taking ==
  \/ args = <<>> /\ fifo = Arguments
  \/ args = <<header.size7>> /\ fifo = <<0, header.start7>>
  \/ args = <<header.size7, 0>> /\ fifo = <<header.start7>>

\* It copies, and everything before its registers is copied.
MidCopy ==
  /\ args \in Seq(Int) /\ Len(args) = 3
  /\ args[2] \in Nat /\ args[2] % 4 = 0 /\ args[2] < header.size7
  /\ args[1] = header.size7 - args[2]
  /\ args[3] = header.start7 + args[2]
  /\ \A k \in Nat : k < args[2] => mem[header.start7 + k] = <<"arm7", k>>

\* The whole words of the ARM7 binary are where they belong.
Copied == \A k \in Nat : k < WholeWords => mem[header.start7 + k] = <<"arm7", k>>

\* The ARM7 executes the copy command, or has executed it.
Copying ==
  \/ At7("poll", 1) /\ fifo = Arguments
  \/ At7("args", 1) /\ Taking
  \/ At7("copy", 1) /\ MidCopy
  \/ At7("next", 1) /\ Copied
  \/ At7("release", 2) /\ Copied

Done7 == Waiting7(2) /\ Copied

\* The ARM7 binary lies at the start of main RAM.
Staged == \A k \in Nat : k < header.size7 => mem[k] = <<"arm7", k>>

StageInv ==
  step9 = "stage" /\ InArm7Ram =>
    \A k \in Nat : k < 4 * i /\ k < header.size7 => mem[k] = <<"arm7", k>>

StagedInv == step9 \in {"send", "copy", "release"} => InArm7Ram /\ Staged

CopyInv ==
  step9 = "copy" =>
    \/ call = "read" /\ out9 = 0 /\ Waiting7(0) /\ fifo = Arguments
    \/ /\ call = "write" /\ out9 = 0 /\ Waiting7(0) /\ fifo = Arguments
       /\ last = 0 \/ (last = 1 /\ At7("poll", 1))
    \/ /\ call = "wait" /\ out9 = 1
       /\ \/ last = 0 /\ (At7("release", 0) \/ At7("acked", 0)) /\ fifo = Arguments
          \/ last \in {0, 1} /\ Copying

Check9Inv ==
  step9 = "check9" =>
    /\ call = "no"
    /\ IF InArm7Ram THEN out9 = 1 /\ Copying /\ Staged ELSE out9 = 0 /\ Waiting7(0)

ReleaseInv ==
  step9 = "release" =>
    \/ call = "read" /\ out9 = 1 /\ Copying
    \/ call = "write" /\ out9 = 1 /\ last = 1 /\ Copying
    \/ call = "write" /\ out9 = 1 /\ last = 2 /\ At7("release", 2) /\ Copied
    \/ call = "wait" /\ out9 = 0 /\ last = 1 /\ (Copying \/ Done7)
    \/ call = "wait" /\ out9 = 0 /\ last = 2 /\ Done7

\* The ARM7 waits for the reset command, everything before it is done.
Ready7 == IF InArm7Ram THEN Done7 ELSE Waiting7(0)

Leaving7 ==
  \/ Ready7
  \/ IF InArm7Ram THEN Copied /\ (At7("cmd2", 3) \/ At7("reset", 4))
                  ELSE At7("cmd2", 1) \/ At7("reset", 2)

LeaveInv ==
  /\ step9 \in {"load", "patch", "lost9"} => call = "no" /\ out9 = 0 /\ Ready7
  /\ step9 = "reset" =>
       \/ call \in {"read", "write"} /\ out9 = 0 /\ Ready7
       \/ call = "wait" /\ out9 = 2 /\ Leaving7
  /\ step9 = "done" => call = "no" /\ out9 = 2 /\ Leaving7
  /\ step9 = "halt9" =>
       /\ call = "no"
       /\ \/ out9 = 0 /\ Ready7
          \/ out9 = 1 /\ InArm7Ram /\ Copying /\ Staged

\* The binaries end where their memories end, or before.  The location checks do
\* not say so, as the ends they compare may have wrapped around; a binary that
\* has been read to its last word without main RAM's end in its way does.
Arm7Lies == header.start7 + header.size7 <= IF InArm7Ram THEN Arm7End ELSE MainEnd
Arm9Lies == header.start9 + header.size9 <= MainEnd

\* What the location checks and the reading have established
FitsInv ==
  /\ step9 \in {"stage", "send", "copy", "check9", "release", "load", "patch", "reset", "done",
                "halt9", "lost9"} => Arm7Fits
  /\ step9 \in {"send", "copy", "check9", "release", "load", "patch", "reset", "done",
                "halt9", "lost9"} => Arm7Lies
  /\ step9 \in {"release", "load", "patch", "reset", "done"} => Arm9Fits
  /\ step9 \in {"patch", "reset", "done"} => Arm9Lies

Inv ==
  /\ TypeOK
  /\ out7 = r12
  /\ Crt0Inv /\ SyncInv /\ IdleInv
  /\ StageInv /\ StagedInv /\ CopyInv /\ Check9Inv /\ ReleaseInv
  /\ LeaveInv /\ FitsInv

-----------------------------------------------------------------------------
\* Facts about the operators

\* Counters of four bits
LEMMA Mod16 == \A n \in Nat : n % 16 \in 0 .. 15
OBVIOUS

LEMMA Mod16Counter ==
  /\ \A n \in 0 .. 14 : (n + 1) % 16 = n + 1
  /\ (15 + 1) % 16 = 0
  /\ \A n \in 1 .. 15 : n % 16 = n
  /\ 16 % 16 = 0
OBVIOUS

\* What depends on the header alone does not change.
LEMMA Frame ==
  ASSUME header' = header
  PROVE  /\ InArm7Ram' <=> InArm7Ram
         /\ Arm7Fits' <=> Arm7Fits
         /\ Arm9Fits' <=> Arm9Fits
         /\ Arm7Lies' <=> Arm7Lies
         /\ Arm9Lies' <=> Arm9Lies
         /\ Dest7' = Dest7
         /\ Arguments' = Arguments
         /\ WholeWords' = WholeWords
BY DEF InArm7Ram, Arm7Fits, Arm9Fits, Arm7Lies, Arm9Lies, Dest7, Arguments, WholeWords

\* What depends on the memory and the header changes with the memory.
LEMMA FrameMem ==
  ASSUME header' = header, mem' = mem
  PROVE  (Copied' <=> Copied) /\ (Staged' <=> Staged)
BY Frame DEF Copied, Staged

\* Short sequences grow by their last element.
LEMMA AppendToOne ==
  ASSUME NEW a \in Nat, NEW b \in Nat
  PROVE  Append(<<a>>, b) = <<a, b>>
<1>1. <<a>> \in Seq(Nat) /\ Len(<<a>>) = 1 /\ <<a>>[1] = a
  OBVIOUS
<1>2. Append(<<a>>, b) \in Seq(Nat) /\ Len(Append(<<a>>, b)) = 2
  BY <1>1
<1>3. Append(<<a>>, b)[1] = a /\ Append(<<a>>, b)[2] = b
  BY <1>1
<1>4. <<a, b>> \in Seq(Nat) /\ Len(<<a, b>>) = 2
  OBVIOUS
<1>5. \A k \in 1 .. 2 : Append(<<a>>, b)[k] = <<a, b>>[k]
  BY <1>3
<1>6. QED
  BY <1>2, <1>4, <1>5, SeqEqual

\* ... and so do those of two.
LEMMA AppendToTwo ==
  ASSUME NEW a \in Nat, NEW b \in Nat, NEW c \in Nat
  PROVE  Append(<<a, b>>, c) = <<a, b, c>>
<1>1. <<a, b>> \in Seq(Nat) /\ Len(<<a, b>>) = 2 /\ <<a, b>>[1] = a /\ <<a, b>>[2] = b
  OBVIOUS
<1>2. Append(<<a, b>>, c) \in Seq(Nat) /\ Len(Append(<<a, b>>, c)) = 3
  BY <1>1
<1>3. /\ Append(<<a, b>>, c)[1] = a /\ Append(<<a, b>>, c)[2] = b
      /\ Append(<<a, b>>, c)[3] = c
  BY <1>1
<1>4. <<a, b, c>> \in Seq(Nat) /\ Len(<<a, b, c>>) = 3
  OBVIOUS
<1>5. \A k \in 1 .. 3 : Append(<<a, b>>, c)[k] = <<a, b, c>>[k]
  BY <1>3
<1>6. QED
  BY <1>2, <1>4, <1>5, SeqEqual

\* A memory after one word was copied from q to s + q: neither the source nor
\* what was copied before changes, and the word has arrived.
LEMMA WordArrives ==
  ASSUME NEW s \in Nat, NEW q \in Nat, NEW k \in Nat,
         s > k, s + k \in Memory, k \in Memory
  PROVE  /\ CopyWord(q, s + q)[k] = mem[k]
         /\ k < q => CopyWord(q, s + q)[s + k] = mem[s + k]
         /\ k >= q /\ k < q + 4 => CopyWord(q, s + q)[s + k] = mem[k]
         /\ k >= q + 4 => CopyWord(q, s + q)[s + k] = mem[s + k]
<1>1. PICK d \in Nat : d = s + k
  OBVIOUS
<1>2. PICK e \in Int : e = d - (s + q)
  OBVIOUS
<1>3. /\ ~(k - (s + q) \in 0 .. 3)
      /\ k < q \/ k >= q + 4 => ~(e \in 0 .. 3)
      /\ k >= q /\ k < q + 4 => e \in 0 .. 3 /\ e + q = k
  BY <1>1, <1>2
<1>4. CopyWord(q, s + q)[k] = mem[k]
  BY <1>3 DEF CopyWord
<1>5. CopyWord(q, s + q)[d] = IF e \in 0 .. 3 /\ e + q \in Memory THEN mem[e + q] ELSE mem[d]
  BY <1>1, <1>2 DEF CopyWord
<1>6. /\ k < q \/ k >= q + 4 => CopyWord(q, s + q)[d] = mem[d]
      /\ k >= q /\ k < q + 4 => CopyWord(q, s + q)[d] = mem[k]
  BY <1>3, <1>5
<1>7. QED
  BY <1>1, <1>4, <1>6

\* Three words in a row
LEMMA Triple ==
  ASSUME NEW n \in Int, NEW m \in Int, NEW s \in Int
  PROVE  /\ <<n, m, s>> \in Seq(Int) /\ Len(<<n, m, s>>) = 3
         /\ <<n, m, s>>[1] = n /\ <<n, m, s>>[2] = m /\ <<n, m, s>>[3] = s
OBVIOUS

\* Reading a binary from the flash leaves bytes.
LEMMA ReadsBytes ==
  ASSUME TypeOK, NEW binary \in {"arm7", "arm9"},
         NEW dest \in Nat, NEW size \in Nat, NEW k \in Nat
  PROVE  readNds(binary, dest, size, k) \in [Memory -> Bytes]
<1>1. \A a \in Memory : a \in Nat
  BY MemoryAssumption DEF Memory, MainRam, Arm7Ram
<1>2. \A a \in Memory : a - dest \in 4 * k .. 4 * k + 3 => <<binary, a - dest>> \in Bytes
  BY <1>1 DEF Bytes
<1>3. QED
  BY <1>2 DEF readNds, TypeOK

\* The room for a driver lies in the ARM9 binary, which lies in main RAM.
LEMMA RoomLies ==
  ASSUME TypeOK, Arm9Lies
  PROVE  \A a \in Room : a \in MainRam /\ a - header.start9 \in 0 .. header.size9 - 1
<1>1. /\ header.start9 \in Nat /\ header.size9 \in Nat /\ header.dldi9 \in Nat
      /\ header.space9 \in Nat
  BY HeaderAssumption DEF TypeOK, Header, Word
<1>2. header.space9 > 0 => header.dldi9 + header.space9 <= header.size9
  BY HeaderAssumption DEF TypeOK
<1>3. QED
  BY <1>1, <1>2, MemoryAssumption DEF Arm9Lies, Room, MainRam

\* Patching leaves bytes.
LEMMA PatchesBytes ==
  ASSUME TypeOK PROVE Patched \in [Memory -> Bytes]
<1>1. header.start9 \in Nat /\ header.dldi9 \in Nat
  BY HeaderAssumption DEF TypeOK, Header, Word
<1>2. \A a \in Room : a - header.start9 - header.dldi9 \in Nat
  BY <1>1 DEF Room
<1>3. \A a \in Room : <<"driver", a - header.start9 - header.dldi9>> \in Bytes
  BY <1>2 DEF Bytes
<1>4. QED
  BY <1>3 DEF Patched, TypeOK

\* So does copying a word.
LEMMA CopiesBytes ==
  ASSUME TypeOK, NEW src \in Int, NEW dst \in Int
  PROVE  CopyWord(src, dst) \in [Memory -> Bytes]
BY DEF CopyWord, TypeOK

\* The bytes of the last word are none or those from k on.
LEMMA Tail4 ==
  /\ \A n, k \in Nat : k % 4 = 0 /\ k < n /\ n - k < 4 => n - (n % 4) = k
  /\ \A n \in Nat : n - (n % 4) \in 0 .. n
  /\ \A k \in Nat : k % 4 = 0 => (k + 4) % 4 = 0
OBVIOUS

\* Addresses and sizes are numbers.
LEMMA Numbers ==
  ASSUME NEW h \in Header
  PROVE  /\ h.start7 \in Nat /\ h.size7 \in Nat /\ h.start9 \in Nat /\ h.size9 \in Nat
         /\ h.dldi9 \in Nat /\ h.space9 \in Nat
BY DEF Header, Word

\* Below the address space's end nothing wraps around.
LEMMA NoWrap ==
  \A n \in Nat : n < AddressSpace => Uint32(n) = n
BY MemoryAssumption DEF Uint32

\* A binary read to its last word before main RAM's end lies in main RAM.
LEMMA ReadToEnd ==
  ASSUME NEW dest \in Nat, NEW size \in Nat, NEW k \in Nat,
         LastWord(size, k), ~Overruns(dest, size, k)
  PROVE  dest + size <= MainEnd
BY MemoryAssumption DEF LastWord, Overruns

\* An ARM7 binary that main has accepted and read lies in its memory.
LEMMA ReadLies ==
  ASSUME header \in Header, Arm7Fits, Dest7 + header.size7 <= MainEnd
  PROVE  Arm7Lies
<1>1. header.start7 \in Nat /\ header.size7 \in Nat
  BY Numbers
<1>2. CASE InArm7Ram
  <2>1. header.size7 <= MainEnd /\ header.start7 < Arm7End
    BY <1>1, <1>2, MemoryAssumption DEF Dest7, InArm7Ram, Arm7Ram
  <2>2. PICK n \in Nat : n = header.start7 + header.size7
    BY <1>1
  <2>3. n < AddressSpace
    BY <1>1, <2>1, <2>2, MemoryAssumption
  <2>4. Uint32(n) = n
    BY <2>2, <2>3, NoWrap
  <2>5. ~InMainRam(header.start7)
    BY <1>2, MemoryAssumption DEF InArm7Ram, Arm7Ram, InMainRam, MainRam
  <2>6. Uint32(n) <= Arm7End
    BY <2>2, <2>5 DEF Arm7Fits
  <2>7. QED
    BY <1>2, <2>2, <2>4, <2>6 DEF Arm7Lies
<1>3. CASE ~InArm7Ram
  BY <1>3 DEF Arm7Lies, Dest7
<1>4. QED
  BY <1>2, <1>3

\* Where the ARM7 binary lies in ARM7 RAM, its staged bytes lie in main RAM.
LEMMA Places ==
  ASSUME header \in Header, InArm7Ram, Arm7Lies, NEW k \in Nat, k < header.size7
  PROVE  /\ header.start7 + k \in Arm7Ram /\ header.start7 + k \in Memory
         /\ k \in MainRam /\ k \in Memory
         /\ header.start7 > k
BY Numbers, MemoryAssumption DEF InArm7Ram, Arm7Lies, Memory, MainRam, Arm7Ram

\* Crt0 keeps the table.
LEMMA Crt0Step == Inv /\ Crt0 => Inv'
<1> SUFFICES ASSUME Inv, Crt0 PROVE Inv'
  OBVIOUS
<1> USE DEF Inv, Crt0, vars7, vars9, Goto7
<1>a. header' = header /\ mem' = mem
  OBVIOUS
<1>1. TypeOK'
  BY Mod16, Mod16Counter, HeaderAssumption DEF TypeOK, Nibble, Header, Command
<1>2. (out7 = r12)'
  BY DEF TypeOK, Crt0Inv, SyncInv, Syncing
<1>3. Crt0Inv'
  BY DEF Crt0Inv, Syncing
<1>4. SyncInv'
  BY Mod16Counter DEF TypeOK, Crt0Inv, SyncInv, Syncing, Answered, At7, Waiting7, Command
<1>5. IdleInv'
  BY <1>a, Frame, FrameMem, Mod16Counter DEF TypeOK, SyncInv, IdleInv, StagedInv, At7, Waiting7
<1>6. StageInv'
  BY <1>a, Frame, FrameMem DEF TypeOK, StageInv, IdleInv
<1>7. StagedInv'
  BY <1>a, Frame, FrameMem DEF StagedInv, Check9Inv, IdleInv, StageInv
<1>8. CopyInv'
  BY <1>a, Frame, FrameMem, Mod16Counter DEF TypeOK, CopyInv, IdleInv, StagedInv, At7, Waiting7, Copying, Taking, MidCopy, Done7, Command
<1>9. Check9Inv'
  BY <1>a, Frame, FrameMem, Mod16Counter DEF TypeOK, CopyInv, StagedInv, Check9Inv, IdleInv, At7, Waiting7, Copying, Taking, MidCopy, Done7
<1>10. ReleaseInv'
  BY <1>a, Frame, FrameMem, Mod16Counter DEF TypeOK, Check9Inv, ReleaseInv, StagedInv, At7, Waiting7, Copying, Taking, MidCopy, Done7, Command
<1>11. LeaveInv'
  BY <1>a, Frame, FrameMem, Mod16Counter DEF TypeOK, Check9Inv, ReleaseInv, StagedInv, LeaveInv, Ready7, Leaving7, At7, Waiting7, Copying, Taking, MidCopy, Done7, Command
<1>12. FitsInv'
  BY <1>a, Frame, FrameMem DEF FitsInv, SyncInv
<1>13. QED
  BY <1>1, <1>2, <1>3, <1>4, <1>5, <1>6, <1>7, <1>8, <1>9, <1>10, <1>11, <1>12

\* CallRead keeps the table.
LEMMA CallReadStep == Inv /\ CallRead => Inv'
<1> SUFFICES ASSUME Inv, CallRead PROVE Inv'
  OBVIOUS
<1> USE DEF Inv, CallRead, vars7, vars9, Goto7
<1>a. header' = header /\ mem' = mem
  OBVIOUS
<1>1. TypeOK'
  BY Mod16, Mod16Counter, HeaderAssumption DEF TypeOK, Nibble, Header, Command
<1>2. (out7 = r12)'
  BY DEF TypeOK, Crt0Inv, SyncInv, Syncing
<1>3. Crt0Inv'
  BY DEF Crt0Inv, Syncing
<1>4. SyncInv'
  BY Mod16Counter DEF TypeOK, Crt0Inv, SyncInv, Syncing, Answered, At7, Waiting7, Command
<1>5. IdleInv'
  BY <1>a, Frame, FrameMem, Mod16Counter DEF TypeOK, SyncInv, IdleInv, StagedInv, At7, Waiting7
<1>6. StageInv'
  BY <1>a, Frame, FrameMem DEF TypeOK, StageInv, IdleInv
<1>7. StagedInv'
  BY <1>a, Frame, FrameMem DEF StagedInv, Check9Inv, IdleInv, StageInv
<1>8. CopyInv'
  BY <1>a, Frame, FrameMem, Mod16Counter DEF TypeOK, CopyInv, IdleInv, StagedInv, At7, Waiting7, Copying, Taking, MidCopy, Done7, Command
<1>9. Check9Inv'
  BY <1>a, Frame, FrameMem, Mod16Counter DEF TypeOK, CopyInv, StagedInv, Check9Inv, IdleInv, At7, Waiting7, Copying, Taking, MidCopy, Done7
<1>10. ReleaseInv'
  BY <1>a, Frame, FrameMem, Mod16Counter DEF TypeOK, Check9Inv, ReleaseInv, StagedInv, At7, Waiting7, Copying, Taking, MidCopy, Done7, Command
<1>11. LeaveInv'
  BY <1>a, Frame, FrameMem, Mod16Counter DEF TypeOK, Check9Inv, ReleaseInv, StagedInv, LeaveInv, Ready7, Leaving7, At7, Waiting7, Copying, Taking, MidCopy, Done7, Command
<1>12. FitsInv'
  BY <1>a, Frame, FrameMem DEF FitsInv, SyncInv
<1>13. QED
  BY <1>1, <1>2, <1>3, <1>4, <1>5, <1>6, <1>7, <1>8, <1>9, <1>10, <1>11, <1>12

\* CallWrite keeps the table.
LEMMA CallWriteStep == Inv /\ CallWrite => Inv'
<1> SUFFICES ASSUME Inv, CallWrite PROVE Inv'
  OBVIOUS
<1> USE DEF Inv, CallWrite, vars7, vars9, Goto7
<1>a. header' = header /\ mem' = mem
  OBVIOUS
<1>1. TypeOK'
  <2>1. step9 \in {"copy", "release", "reset"} \/ (step9 = "sync" /\ i \in 1 .. 16)
    BY DEF Crt0Inv, SyncInv, IdleInv, CopyInv, Check9Inv, ReleaseInv, LeaveInv, TypeOK
  <2>2. Command \in Nibble
    BY <2>1, Mod16Counter DEF Command, Nibble
  <2>3. QED
    BY <2>2 DEF TypeOK
<1>2. (out7 = r12)'
  BY DEF TypeOK, Crt0Inv, SyncInv, Syncing
<1>3. Crt0Inv'
  BY DEF Crt0Inv, Syncing
<1>4. SyncInv'
  BY Mod16Counter DEF TypeOK, Crt0Inv, SyncInv, Syncing, Answered, At7, Waiting7, Command
<1>5. IdleInv'
  BY <1>a, Frame, FrameMem, Mod16Counter DEF TypeOK, SyncInv, IdleInv, StagedInv, At7, Waiting7
<1>6. StageInv'
  BY <1>a, Frame, FrameMem DEF TypeOK, StageInv, IdleInv
<1>7. StagedInv'
  BY <1>a, Frame, FrameMem DEF StagedInv, Check9Inv, IdleInv, StageInv
<1>8. CopyInv'
  BY <1>a, Frame, FrameMem, Mod16Counter DEF TypeOK, CopyInv, IdleInv, StagedInv, At7, Waiting7, Copying, Taking, MidCopy, Done7, Command
<1>9. Check9Inv'
  BY <1>a, Frame, FrameMem, Mod16Counter DEF TypeOK, CopyInv, StagedInv, Check9Inv, IdleInv, At7, Waiting7, Copying, Taking, MidCopy, Done7
<1>10. ReleaseInv'
  BY <1>a, Frame, FrameMem, Mod16Counter DEF TypeOK, Check9Inv, ReleaseInv, StagedInv, At7, Waiting7, Copying, Taking, MidCopy, Done7, Command
<1>11. LeaveInv'
  BY <1>a, Frame, FrameMem, Mod16Counter DEF TypeOK, Check9Inv, ReleaseInv, StagedInv, LeaveInv, Ready7, Leaving7, At7, Waiting7, Copying, Taking, MidCopy, Done7, Command
<1>12. FitsInv'
  BY <1>a, Frame, FrameMem DEF FitsInv, SyncInv
<1>13. QED
  BY <1>1, <1>2, <1>3, <1>4, <1>5, <1>6, <1>7, <1>8, <1>9, <1>10, <1>11, <1>12

\* CallReturn keeps the table.
LEMMA CallReturnStep == Inv /\ CallReturn => Inv'
<1> SUFFICES ASSUME Inv, CallReturn PROVE Inv'
  OBVIOUS
<1> USE DEF Inv, vars7
<1>a. header' = header /\ mem' = mem
  BY DEF CallReturn
<1>e. call = "wait" /\ out7 # last /\ UNCHANGED <<vars7, mem, fifo, out9, last, header, slow>>
  BY DEF CallReturn
<1>c. step9 \in {"sync", "copy", "release", "reset"}
  BY <1>e DEF TypeOK, Crt0Inv, IdleInv, CopyInv, Check9Inv, ReleaseInv, LeaveInv
<1>d. \/ step9 = "sync" /\ i < 16 /\ i' = i + 1 /\ call' = "read" /\ step9' = "sync"
      \/ /\ i' = 0 /\ call' = "no"
         /\ \/ step9 = "sync" /\ ~(i < 16) /\ step9' = "backup"
            \/ step9 = "copy" /\ step9' = "check9"
            \/ step9 = "release" /\ step9' = "load"
            \/ step9 = "reset" /\ step9' = "done"
  BY <1>c DEF After, CallReturn
<1>1. TypeOK'
  BY <1>d, <1>e, Mod16, Mod16Counter, HeaderAssumption DEF TypeOK, Nibble, Header, Command
<1>2. (out7 = r12)'
  BY <1>d, <1>e DEF TypeOK, Crt0Inv, SyncInv, Syncing
<1>3. Crt0Inv'
  BY <1>d, <1>e DEF Crt0Inv, Syncing
<1>4. SyncInv'
  BY <1>d, <1>e, Mod16Counter DEF TypeOK, Crt0Inv, SyncInv, Syncing, Answered, At7, Waiting7, Command
<1>5. IdleInv'
  BY <1>a, <1>d, <1>e, Frame, FrameMem, Mod16Counter DEF TypeOK, SyncInv, IdleInv, StagedInv, At7, Waiting7
<1>6. StageInv'
  BY <1>a, <1>d, <1>e, Frame, FrameMem DEF TypeOK, StageInv, IdleInv
<1>7. StagedInv'
  BY <1>a, <1>d, <1>e, Frame, FrameMem DEF StagedInv, Check9Inv, IdleInv, StageInv
<1>8. CopyInv'
  BY <1>a, <1>d, <1>e, Frame, FrameMem, Mod16Counter DEF TypeOK, CopyInv, IdleInv, StagedInv, At7, Waiting7, Copying, Taking, MidCopy, Done7, Command
<1>9. Check9Inv'
  BY <1>a, <1>d, <1>e, Frame, FrameMem, Mod16Counter DEF TypeOK, CopyInv, StagedInv, Check9Inv, IdleInv, At7, Waiting7, Copying, Taking, MidCopy, Done7
<1>10. ReleaseInv'
  BY <1>a, <1>d, <1>e, Frame, FrameMem, Mod16Counter DEF TypeOK, Check9Inv, ReleaseInv, StagedInv, At7, Waiting7, Copying, Taking, MidCopy, Done7, Command
<1>11. LeaveInv'
  BY <1>a, <1>d, <1>e, Frame, FrameMem, Mod16Counter DEF TypeOK, Check9Inv, ReleaseInv, StagedInv, LeaveInv, Ready7, Leaving7, At7, Waiting7, Copying, Taking, MidCopy, Done7, Command
<1>12. FitsInv'
  BY <1>a, <1>d, <1>e, Frame, FrameMem DEF FitsInv, SyncInv
<1>13. QED
  BY <1>1, <1>2, <1>3, <1>4, <1>5, <1>6, <1>7, <1>8, <1>9, <1>10, <1>11, <1>12

\* Backup keeps the table.
LEMMA BackupStep == Inv /\ Backup => Inv'
<1> SUFFICES ASSUME Inv, Backup PROVE Inv'
  OBVIOUS
<1> USE DEF Inv, Backup, vars7, vars9, Goto7
<1>a. header' = header /\ mem' = mem
  OBVIOUS
<1>1. TypeOK'
  BY Mod16, Mod16Counter, HeaderAssumption DEF TypeOK, Nibble, Header, Command
<1>2. (out7 = r12)'
  BY DEF TypeOK, Crt0Inv, SyncInv, Syncing
<1>3. Crt0Inv'
  BY DEF Crt0Inv, Syncing
<1>4. SyncInv'
  BY Mod16Counter DEF TypeOK, Crt0Inv, SyncInv, Syncing, Answered, At7, Waiting7, Command
<1>5. IdleInv'
  BY <1>a, Frame, FrameMem, Mod16Counter DEF TypeOK, SyncInv, IdleInv, StagedInv, At7, Waiting7
<1>6. StageInv'
  BY <1>a, Frame, FrameMem DEF TypeOK, StageInv, IdleInv
<1>7. StagedInv'
  BY <1>a, Frame, FrameMem DEF StagedInv, Check9Inv, IdleInv, StageInv
<1>8. CopyInv'
  BY <1>a, Frame, FrameMem, Mod16Counter DEF TypeOK, CopyInv, IdleInv, StagedInv, At7, Waiting7, Copying, Taking, MidCopy, Done7, Command
<1>9. Check9Inv'
  BY <1>a, Frame, FrameMem, Mod16Counter DEF TypeOK, CopyInv, StagedInv, Check9Inv, IdleInv, At7, Waiting7, Copying, Taking, MidCopy, Done7
<1>10. ReleaseInv'
  BY <1>a, Frame, FrameMem, Mod16Counter DEF TypeOK, Check9Inv, ReleaseInv, StagedInv, At7, Waiting7, Copying, Taking, MidCopy, Done7, Command
<1>11. LeaveInv'
  BY <1>a, Frame, FrameMem, Mod16Counter DEF TypeOK, Check9Inv, ReleaseInv, StagedInv, LeaveInv, Ready7, Leaving7, At7, Waiting7, Copying, Taking, MidCopy, Done7, Command
<1>12. FitsInv'
  BY <1>a, Frame DEF FitsInv
<1>13. QED
  BY <1>1, <1>2, <1>3, <1>4, <1>5, <1>6, <1>7, <1>8, <1>9, <1>10, <1>11, <1>12

\* Where a word of a binary is read to, its bytes lie in main RAM, unless main
\* is lost.
LEMMA ReadsInMainRam ==
  ASSUME NEW dest \in Nat, NEW size \in Nat, NEW n \in Nat, ~Overruns(dest, size, n),
         NEW k \in Nat, k < 4 * n + 4, k < size
  PROVE  dest + k \in MainRam
BY MemoryAssumption DEF Overruns, MainRam

\* What reading a word of the ARM7 binary leads to
LEMMA StageReads ==
  ASSUME TypeOK, Stage
  PROVE  /\ step9' \in {"stage", "send", "check9", "lost7"}
         /\ step9' = "stage" => i' = i + 1
         /\ step9' \in {"send", "check9"} =>
              /\ LastWord(header.size7, i)
              /\ Dest7 + header.size7 <= MainEnd
         /\ step9' = "send" => InArm7Ram
         /\ step9' # "lost7" =>
              \A k \in Nat : k < 4 * i + 4 /\ k < header.size7 => Dest7 + k \in MainRam
<1>1. header.size7 \in Nat /\ Dest7 \in Nat /\ i \in Nat
  BY HeaderAssumption, Numbers DEF Dest7, TypeOK
<1>2. CASE Overruns(Dest7, header.size7, i)
  BY <1>2 DEF Stage
<1>3. CASE ~Overruns(Dest7, header.size7, i) /\ LastWord(header.size7, i)
  <2>1. Dest7 + header.size7 <= MainEnd
    BY <1>1, <1>3, ReadToEnd
  <2>2. step9' = IF InArm7Ram THEN "send" ELSE "check9"
    BY <1>3 DEF Stage
  <2>3. QED
    BY <1>1, <1>3, <2>1, <2>2, ReadsInMainRam
<1>4. CASE ~Overruns(Dest7, header.size7, i) /\ ~LastWord(header.size7, i)
  <2>1. step9' = "stage" /\ i' = i + 1
    BY <1>4 DEF Stage
  <2>2. QED
    BY <1>1, <1>4, <2>1, ReadsInMainRam
<1>5. QED
  BY <1>2, <1>3, <1>4

\* The same of the ARM9 binary
LEMMA LoadReads ==
  ASSUME TypeOK, Load
  PROVE  /\ step9' \in {"load", "patch", "lost9"}
         /\ step9' = "load" => i' = i + 1
         /\ step9' = "patch" =>
              /\ LastWord(header.size9, i)
              /\ header.start9 + header.size9 <= MainEnd
         /\ step9' # "lost9" =>
              \A k \in Nat : k < 4 * i + 4 /\ k < header.size9 => header.start9 + k \in MainRam
<1>1. header.size9 \in Nat /\ header.start9 \in Nat /\ i \in Nat
  BY HeaderAssumption, Numbers DEF TypeOK
<1>2. CASE Overruns(header.start9, header.size9, i)
  BY <1>2 DEF Load
<1>3. CASE ~Overruns(header.start9, header.size9, i) /\ LastWord(header.size9, i)
  <2>1. header.start9 + header.size9 <= MainEnd
    BY <1>1, <1>3, ReadToEnd
  <2>2. step9' = "patch"
    BY <1>3 DEF Load
  <2>3. QED
    BY <1>1, <1>3, <2>1, <2>2, ReadsInMainRam
<1>4. CASE ~Overruns(header.start9, header.size9, i) /\ ~LastWord(header.size9, i)
  <2>1. step9' = "load" /\ i' = i + 1
    BY <1>4 DEF Load
  <2>2. QED
    BY <1>1, <1>4, <2>1, ReadsInMainRam
<1>5. QED
  BY <1>2, <1>3, <1>4

\* Stage keeps the table.
LEMMA StageStep == Inv /\ Stage => Inv'
<1> SUFFICES ASSUME Inv, Stage PROVE Inv'
  OBVIOUS
<1> USE DEF Inv, Stage, vars7, vars9, Goto7
<1>a. header' = header
  OBVIOUS
<1>b. header \in Header
  BY HeaderAssumption DEF TypeOK
<1>c. i' = i + 1 \/ i' = 0
  OBVIOUS
<1>n. /\ header.start7 \in Nat /\ header.size7 \in Nat /\ Dest7 \in Nat /\ i \in Nat
      /\ MainEnd \in Nat
  BY <1>b, Numbers, MemoryAssumption DEF Dest7, TypeOK
<1>e. /\ step9' = "stage" => i' = i + 1
      /\ step9' \in {"send", "check9"} => Dest7 + header.size7 <= MainEnd
      /\ step9' \in {"stage", "send", "check9", "lost7"}
  BY StageReads
<1>d. InArm7Ram /\ step9' # "lost7" =>
        \A k \in Nat : k < 4 * (i + 1) /\ k < header.size7 => mem'[k] = <<"arm7", k>>
  <2> SUFFICES ASSUME InArm7Ram, step9' # "lost7", NEW k \in Nat, k < 4 * (i + 1), k < header.size7
               PROVE  mem'[k] = <<"arm7", k>>
    OBVIOUS
  <2>0. Dest7 = 0 /\ mem' = readNds("arm7", 0, header.size7, i)
    BY DEF Dest7
  <2>1. k \in MainRam /\ k \in Memory
    <3>1. Dest7 + k \in MainRam
      BY <1>n, StageReads
    <3>2. QED
      BY <2>0, <3>1 DEF Memory
  <2>2. k < 4 * i => mem[k] = <<"arm7", k>>
    BY DEF StageInv
  <2>3. i \in Nat
    BY DEF TypeOK
  <2>4. k - 0 = k /\ (k < 4 * i \/ k \in 4 * i .. 4 * i + 3)
    BY <2>3
  <2>5. QED
    BY <2>0, <2>1, <2>2, <2>3, <2>4 DEF readNds
<1>1. TypeOK'
  <2>1. mem' \in [Memory -> Bytes]
    BY <1>n, ReadsBytes
  <2>2. QED
    BY <1>e, <1>n, <2>1 DEF TypeOK
<1>2. (out7 = r12)'
  BY DEF TypeOK, Crt0Inv, SyncInv, Syncing
<1>3. Crt0Inv'
  BY DEF Crt0Inv, Syncing
<1>4. SyncInv'
  BY Mod16Counter DEF TypeOK, Crt0Inv, SyncInv, Syncing, Answered, At7, Waiting7, Command
<1>5. IdleInv'
  BY <1>a, Frame, Mod16Counter DEF TypeOK, SyncInv, IdleInv, StagedInv, At7, Waiting7
<1>6. StageInv'
  BY <1>a, <1>d, <1>e, Frame DEF StageInv
<1>7. StagedInv'
  <2>1. ASSUME step9' = "send" PROVE InArm7Ram /\ 4 * (i + 1) >= header.size7
    BY <2>1, <1>n DEF LastWord, Overruns
  <2>2. i \in Nat /\ header.size7 \in Nat
    BY <1>n
  <2>3. ASSUME step9' = "send" PROVE Staged'
    BY <1>a, <1>d, <1>e, <2>1, <2>2, <2>3 DEF Staged
  <2>4. QED
    BY <1>a, <2>1, <2>3, Frame DEF StagedInv
<1>8. CopyInv'
  BY <1>a, Frame, Mod16Counter DEF TypeOK, CopyInv, IdleInv, StagedInv, At7, Waiting7, Copying, Taking, MidCopy, Done7, Command
<1>9. Check9Inv'
  BY <1>a, Frame, Mod16Counter DEF TypeOK, CopyInv, StagedInv, Check9Inv, IdleInv, At7, Waiting7, Copying, Taking, MidCopy, Done7
<1>10. ReleaseInv'
  BY <1>a, Frame, Mod16Counter DEF TypeOK, Check9Inv, ReleaseInv, StagedInv, At7, Waiting7, Copying, Taking, MidCopy, Done7, Command
<1>11. LeaveInv'
  BY <1>a, Frame, Mod16Counter DEF TypeOK, Check9Inv, ReleaseInv, StagedInv, LeaveInv, Ready7, Leaving7, At7, Waiting7, Copying, Taking, MidCopy, Done7, Command
<1>12. FitsInv'
  <2>1. Arm7Fits /\ (step9' \in {"send", "check9"} => Arm7Lies)
    BY <1>b, <1>e, ReadLies DEF FitsInv
  <2>2. QED
    BY <1>a, <1>e, <2>1, Frame DEF FitsInv
<1>13. QED
  BY <1>1, <1>2, <1>3, <1>4, <1>5, <1>6, <1>7, <1>8, <1>9, <1>10, <1>11, <1>12

\* Send keeps the table.
LEMMA SendStep == Inv /\ Send => Inv'
<1> SUFFICES ASSUME Inv, Send PROVE Inv'
  OBVIOUS
<1> USE DEF Inv, Send, vars7, vars9, Goto7
<1>a. header' = header /\ mem' = mem
  OBVIOUS
<1>b. header \in Header
  BY HeaderAssumption DEF TypeOK
<1>c. /\ InArm7Ram
      /\ \/ i = 0 /\ fifo = <<>>
         \/ i = 1 /\ fifo = <<header.size7>>
         \/ i = 2 /\ fifo = <<header.size7, 0>>
  BY DEF IdleInv
<1>d. \/ i = 0 /\ fifo' = <<header.size7>>
      \/ i = 1 /\ fifo' = <<header.size7, 0>>
      \/ i = 2 /\ fifo' = Arguments
  <2>1. header.size7 \in Nat /\ header.start7 \in Nat /\ 0 \in Nat
    BY <1>b, Numbers
  <2>2. CASE i = 0
    BY <1>c, <2>2
  <2>3. CASE i = 1
    <3>1. i + 1 = 2 /\ <<header.size7, 0, header.start7>>[2] = 0
      BY <2>3
    <3>2. fifo' = Append(fifo, <<header.size7, 0, header.start7>>[i + 1])
      OBVIOUS
    <3>3. fifo = <<header.size7>>
      BY <1>c, <2>3
    <3>4. fifo' = Append(<<header.size7>>, 0)
      BY <3>1, <3>2, <3>3, Zenon
    <3>5. QED
      BY <2>1, <2>3, <3>4, AppendToOne
  <2>4. CASE i = 2
    <3>1. i + 1 = 3 /\ <<header.size7, 0, header.start7>>[3] = header.start7
      BY <2>4
    <3>2. fifo' = Append(fifo, <<header.size7, 0, header.start7>>[i + 1])
      OBVIOUS
    <3>3. fifo = <<header.size7, 0>>
      BY <1>c, <2>4
    <3>4. fifo' = Append(<<header.size7, 0>>, header.start7)
      BY <3>1, <3>2, <3>3, Zenon
    <3>5. QED
      BY <2>1, <2>4, <3>4, AppendToTwo DEF Arguments
  <2>5. QED
    BY <1>c, <2>2, <2>3, <2>4
<1>1. TypeOK'
  <2>1. fifo' \in Seq(Nat)
    <3>1. header.size7 \in Nat /\ header.start7 \in Nat
      BY <1>b, Numbers
    <3>2. /\ <<header.size7>> \in Seq(Nat) /\ <<header.size7, 0>> \in Seq(Nat)
          /\ Arguments \in Seq(Nat)
      BY <3>1 DEF Arguments
    <3>3. QED
      BY <1>d, <3>2
  <2>2. QED
    BY <2>1 DEF TypeOK
<1>2. (out7 = r12)'
  BY DEF TypeOK, Crt0Inv, SyncInv, Syncing
<1>3. Crt0Inv'
  BY DEF Crt0Inv, Syncing
<1>4. SyncInv'
  BY Mod16Counter DEF TypeOK, Crt0Inv, SyncInv, Syncing, Answered, At7, Waiting7, Command
<1>5. IdleInv'
  BY <1>c, <1>d, <1>a, Frame, FrameMem, Mod16Counter DEF TypeOK, SyncInv, IdleInv, StagedInv, At7, Waiting7
<1>6. StageInv'
  BY <1>a, Frame, FrameMem DEF TypeOK, StageInv, IdleInv
<1>7. StagedInv'
  BY <1>a, Frame, FrameMem DEF StagedInv, Check9Inv, IdleInv, StageInv
<1>8. CopyInv'
  BY <1>c, <1>d, <1>a, Frame, FrameMem, Mod16Counter DEF TypeOK, CopyInv, IdleInv, StagedInv, At7, Waiting7, Copying, Taking, MidCopy, Done7, Command
<1>9. Check9Inv'
  BY <1>a, Frame, FrameMem, Mod16Counter DEF TypeOK, CopyInv, StagedInv, Check9Inv, IdleInv, At7, Waiting7, Copying, Taking, MidCopy, Done7
<1>10. ReleaseInv'
  BY <1>a, Frame, FrameMem, Mod16Counter DEF TypeOK, Check9Inv, ReleaseInv, StagedInv, At7, Waiting7, Copying, Taking, MidCopy, Done7, Command
<1>11. LeaveInv'
  BY <1>a, Frame, FrameMem, Mod16Counter DEF TypeOK, Check9Inv, ReleaseInv, StagedInv, LeaveInv, Ready7, Leaving7, At7, Waiting7, Copying, Taking, MidCopy, Done7, Command
<1>12. FitsInv'
  BY <1>a, Frame, FrameMem DEF FitsInv, SyncInv
<1>13. QED
  BY <1>1, <1>2, <1>3, <1>4, <1>5, <1>6, <1>7, <1>8, <1>9, <1>10, <1>11, <1>12

\* Check9 keeps the table.
LEMMA Check9Step == Inv /\ Check9 => Inv'
<1> SUFFICES ASSUME Inv, Check9 PROVE Inv'
  OBVIOUS
<1> USE DEF Inv, Check9, vars7, vars9, Goto7
<1>a. header' = header /\ mem' = mem
  OBVIOUS
<1>1. TypeOK'
  BY Mod16, Mod16Counter, HeaderAssumption DEF TypeOK, Nibble, Header, Command
<1>2. (out7 = r12)'
  BY DEF TypeOK, Crt0Inv, SyncInv, Syncing
<1>3. Crt0Inv'
  BY DEF Crt0Inv, Syncing
<1>4. SyncInv'
  BY Mod16Counter DEF TypeOK, Crt0Inv, SyncInv, Syncing, Answered, At7, Waiting7, Command
<1>5. IdleInv'
  BY <1>a, Frame, FrameMem, Mod16Counter DEF TypeOK, SyncInv, IdleInv, StagedInv, At7, Waiting7
<1>6. StageInv'
  BY <1>a, Frame, FrameMem DEF TypeOK, StageInv, IdleInv
<1>7. StagedInv'
  BY <1>a, Frame, FrameMem DEF StagedInv, Check9Inv, IdleInv, StageInv
<1>8. CopyInv'
  BY <1>a, Frame, FrameMem, Mod16Counter DEF TypeOK, CopyInv, IdleInv, StagedInv, At7, Waiting7, Copying, Taking, MidCopy, Done7, Command
<1>9. Check9Inv'
  BY <1>a, Frame, FrameMem, Mod16Counter DEF TypeOK, CopyInv, StagedInv, Check9Inv, IdleInv, At7, Waiting7, Copying, Taking, MidCopy, Done7
<1>10. ReleaseInv'
  BY <1>a, Frame, FrameMem, Mod16Counter DEF TypeOK, Check9Inv, ReleaseInv, StagedInv, At7, Waiting7, Copying, Taking, MidCopy, Done7, Command
<1>11. LeaveInv'
  BY <1>a, Frame, FrameMem, Mod16Counter DEF TypeOK, Check9Inv, ReleaseInv, StagedInv, LeaveInv, Ready7, Leaving7, At7, Waiting7, Copying, Taking, MidCopy, Done7, Command
<1>12. FitsInv'
  BY <1>a, Frame, FrameMem DEF FitsInv, SyncInv
<1>13. QED
  BY <1>1, <1>2, <1>3, <1>4, <1>5, <1>6, <1>7, <1>8, <1>9, <1>10, <1>11, <1>12

\* Load keeps the table.
LEMMA LoadStep == Inv /\ Load => Inv'
<1> SUFFICES ASSUME Inv, Load PROVE Inv'
  OBVIOUS
<1> USE DEF Inv, Load, vars7, vars9, Goto7
<1>a. header' = header
  OBVIOUS
<1>b. header \in Header
  BY HeaderAssumption DEF TypeOK
<1>c. Arm9Fits /\ Arm7Fits /\ Arm7Lies /\ Ready7
  BY DEF FitsInv, LeaveInv
<1>n. /\ header.start7 \in Nat /\ header.size7 \in Nat /\ header.start9 \in Nat
      /\ header.size9 \in Nat /\ i \in Nat
  BY <1>b, Numbers DEF TypeOK
<1>f. /\ step9' = "patch" => Arm9Lies
      /\ step9' \in {"load", "patch", "lost9"} /\ i' \in Nat
  BY <1>n, LoadReads DEF Arm9Lies
<1>d. InArm7Ram => Copied'
  <2> SUFFICES ASSUME InArm7Ram, NEW k \in Nat, k < WholeWords
               PROVE  mem'[header.start7 + k] = <<"arm7", k>>
    BY <1>a, Frame DEF Copied
  <2>1. k < header.size7
    BY <1>n, Tail4 DEF WholeWords
  <2>2. header.start7 + k \in Arm7Ram /\ header.start7 + k \in Memory
    BY <1>b, <1>c, <2>1, Places
  <2>3. \A a \in Arm7Ram : a \notin MainRam
    BY MemoryAssumption DEF Arm7Ram, MainRam
  <2>4. mem' = readNds("arm9", header.start9, header.size9, i)
    OBVIOUS
  <2>5. \A a \in Memory : a \notin MainRam => mem'[a] = mem[a]
    BY <2>4 DEF readNds
  <2>6. mem'[header.start7 + k] = mem[header.start7 + k]
    BY <2>2, <2>3, <2>5, Zenon
  <2>7. QED
    BY <1>c, <2>6 DEF Ready7, Done7, Copied
<1>e. Ready7'
  BY <1>a, <1>c, <1>d, Frame DEF Ready7, Done7, At7, Waiting7
<1>1. TypeOK'
  <2>1. mem' \in [Memory -> Bytes]
    BY <1>n, ReadsBytes
  <2>2. QED
    BY <1>f, <2>1 DEF TypeOK
<1>2. (out7 = r12)'
  BY DEF TypeOK, Crt0Inv, SyncInv, Syncing
<1>3. Crt0Inv'
  BY DEF Crt0Inv, Syncing
<1>4. SyncInv'
  BY Mod16Counter DEF TypeOK, Crt0Inv, SyncInv, Syncing, Answered, At7, Waiting7, Command
<1>5. IdleInv'
  BY <1>a, Frame, Mod16Counter DEF TypeOK, SyncInv, IdleInv, StagedInv, At7, Waiting7
<1>6. StageInv'
  BY <1>a, Frame DEF TypeOK, StageInv, IdleInv
<1>7. StagedInv'
  BY <1>a, Frame DEF StagedInv, Check9Inv, IdleInv, StageInv
<1>8. CopyInv'
  BY <1>a, Frame, Mod16Counter DEF TypeOK, CopyInv, IdleInv, StagedInv, At7, Waiting7, Copying, Taking, MidCopy, Done7, Command
<1>9. Check9Inv'
  BY <1>a, Frame, Mod16Counter DEF TypeOK, CopyInv, StagedInv, Check9Inv, IdleInv, At7, Waiting7, Copying, Taking, MidCopy, Done7
<1>10. ReleaseInv'
  BY <1>a, Frame, Mod16Counter DEF TypeOK, Check9Inv, ReleaseInv, StagedInv, At7, Waiting7, Copying, Taking, MidCopy, Done7, Command
<1>11. LeaveInv'
  BY <1>a, <1>e, Frame DEF TypeOK, LeaveInv
<1>12. FitsInv'
  BY <1>a, <1>c, <1>f, Frame DEF FitsInv
<1>13. QED
  BY <1>1, <1>2, <1>3, <1>4, <1>5, <1>6, <1>7, <1>8, <1>9, <1>10, <1>11, <1>12

\* Patch keeps the table.
LEMMA PatchStep == Inv /\ Patch => Inv'
<1> SUFFICES ASSUME Inv, Patch PROVE Inv'
  OBVIOUS
<1> USE DEF Inv, Patch, vars7, vars9, Goto7
<1>a. header' = header
  OBVIOUS
<1>b. header \in Header
  BY HeaderAssumption DEF TypeOK
<1>c. Arm9Fits /\ Arm9Lies /\ Arm7Fits /\ Arm7Lies /\ Ready7
  BY DEF FitsInv, LeaveInv
<1>d. InArm7Ram => Copied'
  <2> SUFFICES ASSUME InArm7Ram, NEW k \in Nat, k < WholeWords
               PROVE  mem'[header.start7 + k] = <<"arm7", k>>
    BY <1>a, Frame DEF Copied
  <2>1. k < header.size7
    BY <1>b, Numbers, Tail4 DEF WholeWords
  <2>2. header.start7 + k \in Arm7Ram /\ header.start7 + k \in Memory
    BY <1>b, <1>c, <2>1, Places
  <2>3. \A a \in Arm7Ram : a \notin Room
    BY <1>c, RoomLies, MemoryAssumption DEF Arm7Ram, MainRam
  <2>4. \A a \in Memory : a \notin Room => mem'[a] = mem[a]
    BY DEF Patched
  <2>5. mem'[header.start7 + k] = mem[header.start7 + k]
    BY <2>2, <2>3, <2>4, Zenon
  <2>6. QED
    BY <1>c, <2>5 DEF Ready7, Done7, Copied
<1>e. Ready7'
  BY <1>a, <1>c, <1>d, Frame DEF Ready7, Done7, At7, Waiting7
<1>1. TypeOK'
  <2>1. mem' \in [Memory -> Bytes]
    BY PatchesBytes DEF TypeOK
  <2>2. QED
    BY <2>1 DEF TypeOK
<1>2. (out7 = r12)'
  BY DEF TypeOK, Crt0Inv, SyncInv, Syncing
<1>3. Crt0Inv'
  BY DEF Crt0Inv, Syncing
<1>4. SyncInv'
  BY Mod16Counter DEF TypeOK, Crt0Inv, SyncInv, Syncing, Answered, At7, Waiting7, Command
<1>5. IdleInv'
  BY <1>a, Frame, Mod16Counter DEF TypeOK, SyncInv, IdleInv, StagedInv, At7, Waiting7
<1>6. StageInv'
  BY <1>a, Frame DEF TypeOK, StageInv, IdleInv
<1>7. StagedInv'
  BY <1>a, Frame DEF StagedInv, Check9Inv, IdleInv, StageInv
<1>8. CopyInv'
  BY <1>a, Frame, Mod16Counter DEF TypeOK, CopyInv, IdleInv, StagedInv, At7, Waiting7, Copying, Taking, MidCopy, Done7, Command
<1>9. Check9Inv'
  BY <1>a, Frame, Mod16Counter DEF TypeOK, CopyInv, StagedInv, Check9Inv, IdleInv, At7, Waiting7, Copying, Taking, MidCopy, Done7
<1>10. ReleaseInv'
  BY <1>a, Frame, Mod16Counter DEF TypeOK, Check9Inv, ReleaseInv, StagedInv, At7, Waiting7, Copying, Taking, MidCopy, Done7, Command
<1>11. LeaveInv'
  BY <1>a, <1>e, Frame DEF TypeOK, LeaveInv
<1>12. FitsInv'
  BY <1>a, <1>c, Frame DEF FitsInv
<1>13. QED
  BY <1>1, <1>2, <1>3, <1>4, <1>5, <1>6, <1>7, <1>8, <1>9, <1>10, <1>11, <1>12

\* Start7 keeps the table.
LEMMA Start7Step == Inv /\ Start7 => Inv'
<1> SUFFICES ASSUME Inv, Start7 PROVE Inv'
  OBVIOUS
<1> USE DEF Inv, Start7, vars7, vars9, Goto7
<1>a. header' = header /\ mem' = mem
  OBVIOUS
<1>1. TypeOK'
  BY Mod16, Mod16Counter, HeaderAssumption DEF TypeOK, Nibble, Header, Command
<1>2. (out7 = r12)'
  BY DEF TypeOK, Crt0Inv, SyncInv, Syncing
<1>3. Crt0Inv'
  BY DEF Crt0Inv, Syncing
<1>4. SyncInv'
  BY Mod16Counter DEF TypeOK, Crt0Inv, SyncInv, Syncing, Answered, At7, Waiting7, Command
<1>5. IdleInv'
  BY <1>a, Frame, FrameMem, Mod16Counter DEF TypeOK, SyncInv, IdleInv, StagedInv, At7, Waiting7
<1>6. StageInv'
  BY <1>a, Frame, FrameMem DEF TypeOK, StageInv, IdleInv
<1>7. StagedInv'
  BY <1>a, Frame, FrameMem DEF StagedInv, Check9Inv, IdleInv, StageInv
<1>8. CopyInv'
  BY <1>a, Frame, FrameMem, Mod16Counter DEF TypeOK, CopyInv, IdleInv, StagedInv, At7, Waiting7, Copying, Taking, MidCopy, Done7, Command
<1>9. Check9Inv'
  BY <1>a, Frame, FrameMem, Mod16Counter DEF TypeOK, CopyInv, StagedInv, Check9Inv, IdleInv, At7, Waiting7, Copying, Taking, MidCopy, Done7
<1>10. ReleaseInv'
  BY <1>a, Frame, FrameMem, Mod16Counter DEF TypeOK, Check9Inv, ReleaseInv, StagedInv, At7, Waiting7, Copying, Taking, MidCopy, Done7, Command
<1>11. LeaveInv'
  BY <1>a, Frame, FrameMem, Mod16Counter DEF TypeOK, Check9Inv, ReleaseInv, StagedInv, LeaveInv, Ready7, Leaving7, At7, Waiting7, Copying, Taking, MidCopy, Done7, Command
<1>12. FitsInv'
  BY <1>a, Frame, FrameMem DEF FitsInv, SyncInv
<1>13. QED
  BY <1>1, <1>2, <1>3, <1>4, <1>5, <1>6, <1>7, <1>8, <1>9, <1>10, <1>11, <1>12

\* Receive keeps the table.
LEMMA ReceiveStep == Inv /\ Receive => Inv'
<1> SUFFICES ASSUME Inv, Receive PROVE Inv'
  OBVIOUS
<1> USE DEF Inv, Receive, vars7, vars9, Goto7
<1>a. header' = header /\ mem' = mem
  OBVIOUS
<1>1. TypeOK'
  BY Mod16, Mod16Counter, HeaderAssumption DEF TypeOK, Nibble, Header, Command
<1>2. (out7 = r12)'
  BY DEF TypeOK, Crt0Inv, SyncInv, Syncing
<1>3. Crt0Inv'
  BY DEF Crt0Inv, Syncing
<1>4. SyncInv'
  BY Mod16Counter DEF TypeOK, Crt0Inv, SyncInv, Syncing, Answered, At7, Waiting7, Command
<1>5. IdleInv'
  BY <1>a, Frame, FrameMem, Mod16Counter DEF TypeOK, SyncInv, IdleInv, StagedInv, At7, Waiting7
<1>6. StageInv'
  BY <1>a, Frame, FrameMem DEF TypeOK, StageInv, IdleInv
<1>7. StagedInv'
  BY <1>a, Frame, FrameMem DEF StagedInv, Check9Inv, IdleInv, StageInv
<1>8. CopyInv'
  BY <1>a, Frame, FrameMem, Mod16Counter DEF TypeOK, CopyInv, IdleInv, StagedInv, At7, Waiting7, Copying, Taking, MidCopy, Done7, Command
<1>9. Check9Inv'
  BY <1>a, Frame, FrameMem, Mod16Counter DEF TypeOK, CopyInv, StagedInv, Check9Inv, IdleInv, At7, Waiting7, Copying, Taking, MidCopy, Done7
<1>10. ReleaseInv'
  BY <1>a, Frame, FrameMem, Mod16Counter DEF TypeOK, Check9Inv, ReleaseInv, StagedInv, At7, Waiting7, Copying, Taking, MidCopy, Done7, Command
<1>11. LeaveInv'
  BY <1>a, Frame, FrameMem, Mod16Counter DEF TypeOK, Check9Inv, ReleaseInv, StagedInv, LeaveInv, Ready7, Leaving7, At7, Waiting7, Copying, Taking, MidCopy, Done7, Command
<1>12. FitsInv'
  BY <1>a, Frame, FrameMem DEF FitsInv, SyncInv
<1>13. QED
  BY <1>1, <1>2, <1>3, <1>4, <1>5, <1>6, <1>7, <1>8, <1>9, <1>10, <1>11, <1>12

\* Bump keeps the table.
LEMMA BumpStep == Inv /\ Bump => Inv'
<1> SUFFICES ASSUME Inv, Bump PROVE Inv'
  OBVIOUS
<1> USE DEF Inv, Bump, vars7, vars9, Goto7
<1>a. header' = header /\ mem' = mem
  OBVIOUS
<1>1. TypeOK'
  <2>1. r12 + 1 \in Nat /\ r7 + 1 \in Nat
    BY DEF TypeOK, Nibble
  <2>2. r12' \in Nibble /\ out7' \in Nibble /\ r7' \in Nibble
    BY <2>1, Mod16 DEF TypeOK, Nibble
  <2>3. QED
    BY <2>2 DEF TypeOK
<1>2. (out7 = r12)'
  BY DEF TypeOK, Crt0Inv, SyncInv, Syncing
<1>3. Crt0Inv'
  BY DEF Crt0Inv, Syncing
<1>4. SyncInv'
  BY Mod16Counter DEF TypeOK, Crt0Inv, SyncInv, Syncing, Answered, At7, Waiting7, Command
<1>5. IdleInv'
  BY <1>a, Frame, FrameMem, Mod16Counter DEF TypeOK, SyncInv, IdleInv, StagedInv, At7, Waiting7
<1>6. StageInv'
  BY <1>a, Frame, FrameMem DEF TypeOK, StageInv, IdleInv
<1>7. StagedInv'
  BY <1>a, Frame, FrameMem DEF StagedInv, Check9Inv, IdleInv, StageInv
<1>8. CopyInv'
  BY <1>a, Frame, FrameMem, Mod16Counter DEF TypeOK, CopyInv, IdleInv, StagedInv, At7, Waiting7, Copying, Taking, MidCopy, Done7, Command
<1>9. Check9Inv'
  BY <1>a, Frame, FrameMem, Mod16Counter DEF TypeOK, CopyInv, StagedInv, Check9Inv, IdleInv, At7, Waiting7, Copying, Taking, MidCopy, Done7
<1>10. ReleaseInv'
  BY <1>a, Frame, FrameMem, Mod16Counter DEF TypeOK, Check9Inv, ReleaseInv, StagedInv, At7, Waiting7, Copying, Taking, MidCopy, Done7, Command
<1>11. LeaveInv'
  BY <1>a, Frame, FrameMem, Mod16Counter DEF TypeOK, Check9Inv, ReleaseInv, StagedInv, LeaveInv, Ready7, Leaving7, At7, Waiting7, Copying, Taking, MidCopy, Done7, Command
<1>12. FitsInv'
  BY <1>a, Frame, FrameMem DEF FitsInv, SyncInv
<1>13. QED
  BY <1>1, <1>2, <1>3, <1>4, <1>5, <1>6, <1>7, <1>8, <1>9, <1>10, <1>11, <1>12

\* Poll keeps the table.
LEMMA PollStep == Inv /\ Poll => Inv'
<1> SUFFICES ASSUME Inv, Poll PROVE Inv'
  OBVIOUS
<1> USE DEF Inv, Poll, vars7, vars9, Goto7
<1>a. header' = header /\ mem' = mem
  OBVIOUS
<1>1. TypeOK'
  BY Mod16, Mod16Counter, HeaderAssumption DEF TypeOK, Nibble, Header, Command
<1>2. (out7 = r12)'
  BY DEF TypeOK, Crt0Inv, SyncInv, Syncing
<1>3. Crt0Inv'
  BY DEF Crt0Inv, Syncing
<1>4. SyncInv'
  BY Mod16Counter DEF TypeOK, Crt0Inv, SyncInv, Syncing, Answered, At7, Waiting7, Command
<1>5. IdleInv'
  BY <1>a, Frame, FrameMem, Mod16Counter DEF TypeOK, SyncInv, IdleInv, StagedInv, At7, Waiting7
<1>6. StageInv'
  BY <1>a, Frame, FrameMem DEF TypeOK, StageInv, IdleInv
<1>7. StagedInv'
  BY <1>a, Frame, FrameMem DEF StagedInv, Check9Inv, IdleInv, StageInv
<1>8. CopyInv'
  BY <1>a, Frame, FrameMem, Mod16Counter DEF TypeOK, CopyInv, IdleInv, StagedInv, At7, Waiting7, Copying, Taking, MidCopy, Done7, Command
<1>9. Check9Inv'
  BY <1>a, Frame, FrameMem, Mod16Counter DEF TypeOK, CopyInv, StagedInv, Check9Inv, IdleInv, At7, Waiting7, Copying, Taking, MidCopy, Done7
<1>10. ReleaseInv'
  BY <1>a, Frame, FrameMem, Mod16Counter DEF TypeOK, Check9Inv, ReleaseInv, StagedInv, At7, Waiting7, Copying, Taking, MidCopy, Done7, Command
<1>11. LeaveInv'
  BY <1>a, Frame, FrameMem, Mod16Counter DEF TypeOK, Check9Inv, ReleaseInv, StagedInv, LeaveInv, Ready7, Leaving7, At7, Waiting7, Copying, Taking, MidCopy, Done7, Command
<1>12. FitsInv'
  BY <1>a, Frame, FrameMem DEF FitsInv, SyncInv
<1>13. QED
  BY <1>1, <1>2, <1>3, <1>4, <1>5, <1>6, <1>7, <1>8, <1>9, <1>10, <1>11, <1>12

\* TakeArg keeps the table.
LEMMA TakeArgStep == Inv /\ TakeArg => Inv'
<1> SUFFICES ASSUME Inv, TakeArg PROVE Inv'
  OBVIOUS
<1> USE DEF Inv, TakeArg, vars7, vars9, Goto7
<1>a. header' = header /\ mem' = mem
  OBVIOUS
<1>b. header \in Header
  BY HeaderAssumption DEF TypeOK
<1>c. step9 \in {"copy", "check9", "release", "halt9"}
  BY DEF TypeOK, Crt0Inv, SyncInv, Syncing, Answered, IdleInv, LeaveInv, Ready7, Leaving7, Done7,
    At7, Waiting7
<1>d. r12 = 1 /\ Taking /\ Arm7Fits
  BY <1>c DEF CopyInv, Check9Inv, ReleaseInv, LeaveInv, FitsInv, Copying, Ready7, Done7, At7, Waiting7
<1>e. (pc7' = "args" /\ Taking') \/ (pc7' = "copy" /\ MidCopy')
  <2>1. CASE args = <<>> /\ fifo = Arguments
    <3>1. args' = <<header.size7>> /\ fifo' = <<0, header.start7>> /\ pc7' = "args"
      BY <2>1 DEF Arguments
    <3>2. QED
      BY <1>a, <3>1 DEF Taking
  <2>2. CASE args = <<header.size7>> /\ fifo = <<0, header.start7>>
    <3>1. args' = <<header.size7, 0>> /\ fifo' = <<header.start7>> /\ pc7' = "args"
      BY <1>b, <2>2, AppendToOne DEF Header, Word
    <3>2. QED
      BY <1>a, <3>1 DEF Taking
  <2>3. CASE args = <<header.size7, 0>> /\ fifo = <<header.start7>>
    <3>1. args' = Arguments /\ pc7' = "copy"
      BY <1>b, <2>3, AppendToTwo DEF Arguments, Header, Word
    <3>2. header.size7 > 0
      BY <1>d DEF Arm7Fits
    <3>3. header.size7 \in Nat /\ header.start7 \in Nat
      BY <1>b, Numbers
    <3>6. PICK n \in Int, s \in Int : n = header.size7 /\ s = header.start7
      BY <3>3
    <3>7. args' = <<n, 0, s>>
      BY <3>1, <3>6, Zenon DEF Arguments
    <3>4. /\ args' \in Seq(Int) /\ Len(args') = 3
          /\ args'[1] = header.size7 /\ args'[2] = 0 /\ args'[3] = header.start7
      <4>1. /\ args' \in Seq(Int) /\ Len(args') = 3
            /\ args'[1] = n /\ args'[2] = 0 /\ args'[3] = s
        <5>1. /\ <<n, 0, s>> \in Seq(Int) /\ Len(<<n, 0, s>>) = 3
              /\ <<n, 0, s>>[1] = n /\ <<n, 0, s>>[2] = 0 /\ <<n, 0, s>>[3] = s
          BY Triple
        <5>2. QED
          BY <3>7, <5>1, Zenon
      <4>2. QED
        BY <3>6, <4>1
    <3>5. QED
      BY <1>a, <3>1, <3>2, <3>3, <3>4 DEF MidCopy
  <2>4. QED
    BY <1>d, <2>1, <2>2, <2>3 DEF Taking
<1>f. Copying'
  BY <1>d, <1>e DEF Copying, At7
<1>1. TypeOK'
  BY Mod16, Mod16Counter, HeaderAssumption DEF TypeOK, Nibble, Header, Command
<1>2. (out7 = r12)'
  BY DEF TypeOK, Crt0Inv, SyncInv, Syncing
<1>3. Crt0Inv'
  BY DEF Crt0Inv, Syncing
<1>4. SyncInv'
  BY Mod16Counter DEF TypeOK, Crt0Inv, SyncInv, Syncing, Answered, At7, Waiting7, Command
<1>5. IdleInv'
  BY <1>a, Frame, FrameMem, Mod16Counter DEF TypeOK, SyncInv, IdleInv, StagedInv, At7, Waiting7
<1>6. StageInv'
  BY <1>a, Frame, FrameMem DEF TypeOK, StageInv, IdleInv
<1>7. StagedInv'
  BY <1>a, Frame, FrameMem DEF StagedInv, Check9Inv, IdleInv, StageInv
<1>8. CopyInv'
  BY <1>c, <1>d, <1>f, <1>a, Frame, FrameMem, Mod16Counter DEF TypeOK, CopyInv, IdleInv, StagedInv, At7, Waiting7, Done7, Command
<1>9. Check9Inv'
  BY <1>c, <1>d, <1>f, <1>a, Frame, FrameMem, Mod16Counter DEF TypeOK, CopyInv, StagedInv, Check9Inv, IdleInv, At7, Waiting7, Done7
<1>10. ReleaseInv'
  BY <1>c, <1>d, <1>f, <1>a, Frame, FrameMem, Mod16Counter DEF TypeOK, Check9Inv, ReleaseInv, StagedInv, At7, Waiting7, Done7, Command
<1>11. LeaveInv'
  BY <1>c, <1>d, <1>f, <1>a, Frame, FrameMem, Mod16Counter DEF TypeOK, Check9Inv, ReleaseInv, StagedInv, LeaveInv, Ready7, Leaving7, At7, Waiting7, Done7, Command
<1>12. FitsInv'
  BY <1>a, Frame, FrameMem DEF FitsInv, SyncInv
<1>13. QED
  BY <1>1, <1>2, <1>3, <1>4, <1>5, <1>6, <1>7, <1>8, <1>9, <1>10, <1>11, <1>12

\* While the ARM7 copies, the ARM7 binary's source is staged in main RAM.
LEMMA CopyHolds ==
  ASSUME Inv, pc7 = "copy"
  PROVE  /\ step9 \in {"copy", "check9", "release", "halt9"}
         /\ r12 = 1 /\ MidCopy /\ Arm7Fits /\ Arm7Lies /\ InArm7Ram /\ Staged
         /\ header \in Header
<1> USE DEF Inv
<1>1. step9 \in {"copy", "check9", "release", "halt9"}
  BY DEF TypeOK, Crt0Inv, SyncInv, Syncing, Answered, IdleInv, LeaveInv, Ready7, Leaving7, Done7,
    At7, Waiting7
<1>2. r12 = 1 /\ MidCopy /\ Arm7Fits /\ Arm7Lies /\ InArm7Ram /\ Staged
  BY <1>1 DEF CopyInv, Check9Inv, ReleaseInv, LeaveInv, FitsInv, StagedInv, Copying, Ready7, Done7,
    At7, Waiting7
<1>3. QED
  BY <1>1, <1>2, HeaderAssumption DEF TypeOK

\* One turn of the copy leaves the source and what was copied before alone, and
\* copies a word.
LEMMA CopyMoves ==
  ASSUME Inv, Copy, args[1] >= 4, NEW k \in Nat, k < header.size7
  PROVE  /\ mem'[k] = mem[k]
         /\ k < args[2] => mem'[header.start7 + k] = mem[header.start7 + k]
         /\ k >= args[2] /\ k < args[2] + 4 => mem'[header.start7 + k] = mem[k]
         /\ k >= args[2] + 4 => mem'[header.start7 + k] = mem[header.start7 + k]
<1>1. MidCopy /\ Arm7Fits /\ Arm7Lies /\ InArm7Ram /\ header \in Header
  BY CopyHolds DEF Copy, Goto7
<1>2. /\ header.start7 + k \in Memory /\ k \in Memory
      /\ header.start7 > k
  BY <1>1, Places
<1>3. mem' = CopyWord(args[2], header.start7 + args[2])
  BY <1>1 DEF MidCopy, Copy
<1>4. PICK s \in Nat, q \in Nat : s = header.start7 /\ q = args[2]
  BY <1>1 DEF MidCopy, Header, Word
<1>5. s + k \in Memory /\ k \in Memory /\ s > k /\ mem' = CopyWord(q, s + q)
  BY <1>2, <1>3, <1>4, Zenon
<1>6. /\ mem'[k] = mem[k]
      /\ k < q => mem'[s + k] = mem[s + k]
      /\ k >= q /\ k < q + 4 => mem'[s + k] = mem[k]
      /\ k >= q + 4 => mem'[s + k] = mem[s + k]
  BY <1>5, WordArrives
<1>7. QED
  BY <1>4, <1>6

\* Copy keeps the table.
LEMMA CopyStep == Inv /\ Copy => Inv'
<1> SUFFICES ASSUME Inv, Copy PROVE Inv'
  OBVIOUS
<1> USE DEF Inv, Copy, vars7, vars9, Goto7
<1>a. header' = header
  OBVIOUS
<1>b. header \in Header
  BY CopyHolds
<1>c. step9 \in {"copy", "check9", "release", "halt9"}
  BY CopyHolds
<1>d. r12 = 1 /\ MidCopy /\ Arm7Fits /\ Arm7Lies /\ InArm7Ram /\ Staged
  BY CopyHolds
<1>e. /\ header.size7 \in Nat /\ header.start7 \in Nat
      /\ args[1] \in Int /\ args[2] \in Nat /\ args[3] \in Int
      /\ args \in Seq(Int) /\ Len(args) = 3
  BY <1>b, <1>d DEF MidCopy, Header, Word
<1>f. ASSUME args[1] >= 4, NEW k \in Nat, k < header.size7
      PROVE  /\ mem'[k] = mem[k]
             /\ k < args[2] => mem'[header.start7 + k] = mem[header.start7 + k]
             /\ k >= args[2] /\ k < args[2] + 4 => mem'[header.start7 + k] = mem[k]
  BY <1>f, CopyMoves
<1>g. Staged'
  BY <1>a, <1>d, <1>f DEF Staged
<1>h. ASSUME args[1] >= 4, NEW k \in Nat, k < args[2] + 4
      PROVE  mem'[header.start7 + k] = <<"arm7", k>>
  <2>1. k < header.size7
    BY <1>d, <1>e, <1>h DEF MidCopy
  <2>2. CASE k < args[2]
    <3>1. mem[header.start7 + k] = <<"arm7", k>>
      BY <1>d, <2>2 DEF MidCopy
    <3>2. QED
      BY <1>f, <1>h, <2>1, <2>2, <3>1
  <2>3. CASE ~(k < args[2])
    <3>1. mem[k] = <<"arm7", k>>
      BY <1>d, <2>1 DEF Staged
    <3>2. k >= args[2]
      BY <1>e, <2>3
    <3>3. QED
      BY <1>f, <1>h, <2>1, <3>1, <3>2
  <2>4. QED
    BY <2>2, <2>3
<1>i. (pc7' = "copy" /\ MidCopy') \/ (pc7' = "next" /\ Copied')
  <2>1. CASE args[1] > 4
    <3>1. args' = <<args[1] - 4, args[2] + 4, args[3] + 4>> /\ pc7' = "copy"
      BY <1>e, <2>1
    <3>2. args[2] + 4 < header.size7 /\ (args[2] + 4) % 4 = 0
      BY <1>d, <1>e, <2>1, Tail4 DEF MidCopy
    <3>3. args[1] >= 4
      BY <1>e, <2>1
    <3>4. \A k \in Nat : k < args[2] + 4 => mem'[header.start7 + k] = <<"arm7", k>>
      BY <1>h, <3>3
    <3>5. /\ args' \in Seq(Int) /\ Len(args') = 3
          /\ args'[1] = args[1] - 4 /\ args'[2] = args[2] + 4 /\ args'[3] = args[3] + 4
      BY <1>e, <3>1
    <3>6. /\ args[1] - 4 = header.size7 - (args[2] + 4)
          /\ args[3] + 4 = header.start7 + (args[2] + 4)
          /\ args[2] + 4 \in Nat
      BY <1>d, <1>e DEF MidCopy
    <3>7. MidCopy'
      BY <1>a, <3>2, <3>4, <3>5, <3>6 DEF MidCopy
    <3>8. QED
      BY <3>1, <3>7
  <2>2. CASE args[1] = 4
    <3>1. args[2] + 4 = header.size7 /\ pc7' = "next"
      BY <1>d, <1>e, <2>2 DEF MidCopy
    <3>2. \A k \in Nat : k < WholeWords => k < args[2] + 4
      BY <1>e, <3>1, Tail4 DEF WholeWords
    <3>3. args[1] >= 4
      BY <2>2
    <3>4. \A k \in Nat : k < args[2] + 4 => mem'[header.start7 + k] = <<"arm7", k>>
      BY <1>h, <3>3
    <3>5. QED
      BY <1>a, <3>1, <3>2, <3>4, Frame DEF Copied
  <2>3. CASE args[1] < 4
    <3>1. mem' = mem /\ pc7' = "next"
      BY <1>e, <2>3
    <3>2. WholeWords = args[2]
      BY <1>d, <1>e, <2>3, Tail4 DEF MidCopy, WholeWords
    <3>3. QED
      BY <1>a, <1>d, <3>1, <3>2, Frame DEF MidCopy, Copied
  <2>4. QED
    BY <1>e, <2>1, <2>2, <2>3
<1>j. Copying'
  BY <1>d, <1>i DEF Copying, At7
<1>1. TypeOK'
  <2>1. args' \in Seq(Int)
    <3>1. args[1] - 4 \in Int /\ args[2] + 4 \in Int /\ args[3] + 4 \in Int
      BY <1>e
    <3>2. CASE args[1] >= 4
      <4>1. args' = <<args[1] - 4, args[2] + 4, args[3] + 4>>
        BY <3>2
      <4>2. QED
        BY <3>1, <4>1
    <3>3. CASE ~(args[1] >= 4)
      <4>1. args' = <<args[1] - 4, args[2], args[3]>>
        BY <3>3
      <4>2. args[2] \in Int
        BY <1>e
      <4>3. QED
        BY <1>e, <3>1, <4>1, <4>2
    <3>4. QED
      BY <3>2, <3>3
  <2>3. mem' \in [Memory -> Bytes]
    BY <1>e, CopiesBytes DEF TypeOK
  <2>2. QED
    BY <2>1, <2>3 DEF TypeOK
<1>2. (out7 = r12)'
  BY DEF TypeOK, Crt0Inv, SyncInv, Syncing
<1>3. Crt0Inv'
  BY DEF Crt0Inv, Syncing
<1>4. SyncInv'
  BY Mod16Counter DEF TypeOK, Crt0Inv, SyncInv, Syncing, Answered, At7, Waiting7, Command
<1>5. IdleInv'
  BY <1>a, Frame, Mod16Counter DEF TypeOK, SyncInv, IdleInv, StagedInv, At7, Waiting7
<1>6. StageInv'
  BY <1>c DEF StageInv
<1>7. StagedInv'
  BY <1>a, <1>d, <1>g, Frame DEF StagedInv
<1>8. CopyInv'
  BY <1>a, <1>c, <1>d, <1>g, <1>j, Frame DEF CopyInv, At7, Waiting7
<1>9. Check9Inv'
  BY <1>a, <1>c, <1>d, <1>g, <1>j, Frame DEF Check9Inv
<1>10. ReleaseInv'
  BY <1>a, <1>c, <1>d, <1>g, <1>j, Frame DEF ReleaseInv, Done7, At7, Waiting7
<1>11. LeaveInv'
  BY <1>a, <1>c, <1>d, <1>g, <1>j, Frame DEF LeaveInv, Ready7, Done7, At7, Waiting7
<1>12. FitsInv'
  BY <1>a, Frame DEF FitsInv, SyncInv
<1>13. QED
  BY <1>1, <1>2, <1>3, <1>4, <1>5, <1>6, <1>7, <1>8, <1>9, <1>10, <1>11, <1>12

-----------------------------------------------------------------------------
\* The invariant

\* miniboot starts with both nibbles clear.
LEMMA InitInv ==
  ASSUME StartNibbles = {0}, Init PROVE Inv
<1>1. mem \in [Memory -> Bytes]
  <2>1. \A a \in Memory : a \in Nat
    BY MemoryAssumption DEF Memory, MainRam, Arm7Ram
  <2>2. QED
    BY <2>1 DEF Init, Bytes
<1>2. fifo \in Seq(Nat) /\ args \in Seq(Int)
  <2>1. <<4>> \in Seq(Nat)
    OBVIOUS
  <2>2. <<>> \in Seq(Nat) /\ <<>> \in Seq(Int)
    OBVIOUS
  <2>3. fifo \in {<<>>, <<4>>} /\ args = <<>>
    BY DEF Init
  <2>4. QED
    BY <2>1, <2>2, <2>3
<1>3. TypeOK
  BY <1>1, <1>2 DEF Init, TypeOK, Nibble
<1>4. /\ step9 = "crt0" /\ call = "no" /\ out9 = 0 /\ out7 = 0
      /\ pc7 = "start" /\ r12 = 0
  BY DEF Init
<1>5. QED
  BY <1>3, <1>4 DEF Inv, Crt0Inv, Syncing, SyncInv, IdleInv, StageInv, StagedInv, CopyInv, Check9Inv,
    ReleaseInv, LeaveInv, FitsInv

\* A step that changes nothing keeps it.
LEMMA StutterStep == Inv /\ UNCHANGED vars => Inv'
<1> SUFFICES ASSUME Inv, UNCHANGED vars PROVE Inv'
  OBVIOUS
<1>1. /\ header' = header /\ mem' = mem /\ fifo' = fifo /\ args' = args
      /\ out9' = out9 /\ out7' = out7 /\ step9' = step9 /\ call' = call /\ i' = i /\ last' = last
      /\ pc7' = pc7 /\ r7' = r7 /\ r12' = r12 /\ slow' = slow
  BY DEF vars
<1>2. TypeOK' /\ (out7 = r12)'
  BY <1>1 DEF Inv, TypeOK
<1>3. Crt0Inv' /\ SyncInv'
  BY <1>1 DEF Inv, Crt0Inv, SyncInv, Syncing, Answered, At7, Waiting7
<1>4. (Arguments' = Arguments) /\ (InArm7Ram' <=> InArm7Ram) /\ (Copied' <=> Copied) /\ (Staged' <=> Staged)
  BY <1>1, Frame, FrameMem
<1>5. IdleInv' /\ StageInv' /\ StagedInv'
  BY <1>1, <1>4 DEF Inv, IdleInv, StageInv, StagedInv, At7, Waiting7
<1>6. Copying' <=> Copying
  BY <1>1, <1>4 DEF Copying, Taking, MidCopy, At7
<1>7. (Done7' <=> Done7) /\ (Ready7' <=> Ready7) /\ (Leaving7' <=> Leaving7)
  BY <1>1, <1>4 DEF Done7, Ready7, Leaving7, At7, Waiting7
<1>8. CopyInv' /\ Check9Inv' /\ ReleaseInv'
  BY <1>1, <1>4, <1>6, <1>7 DEF Inv, CopyInv, Check9Inv, ReleaseInv, At7, Waiting7
<1>9. LeaveInv' /\ FitsInv'
  BY <1>1, <1>4, <1>6, <1>7, Frame DEF Inv, LeaveInv, FitsInv
<1>10. QED
  BY <1>2, <1>3, <1>5, <1>8, <1>9 DEF Inv

\* Every step keeps the table.
LEMMA NextInv == Inv /\ [Next]_vars => Inv'
BY Crt0Step, CallReadStep, CallWriteStep, CallReturnStep, BackupStep, StageStep, SendStep,
   Check9Step, LoadStep, PatchStep, Start7Step, ReceiveStep, BumpStep, PollStep, TakeArgStep, CopyStep,
   StutterStep DEF Next, Arm9, Arm7

\* miniboot's variables hold values of their types, from cleared IPCSYNC
\* registers on.
THEOREM TypeCorrect == ASSUME StartNibbles = {0} PROVE Spec => []TypeOK
<1>1. Init => Inv
  BY InitInv
<1>2. Inv => TypeOK
  BY DEF Inv
<1>3. QED
  BY <1>1, <1>2, NextInv, PTL DEF Spec

\* What the table says when the ARM9 reads its own binary.
LEMMA InvCopied == Inv => CopiedBeforeLoad
<1> SUFFICES ASSUME Inv, step9 \in {"load", "patch", "reset", "done"} PROVE Arm7Placed
  BY DEF CopiedBeforeLoad
<1>1. InArm7Ram => Copied
  BY DEF Inv, LeaveInv, Ready7, Leaving7, Done7
<1>2. header.size7 \in Nat
  BY HeaderAssumption DEF Inv, TypeOK, Header, Word
<1>3. WholeWords \in 0 .. header.size7
  BY <1>2, Tail4 DEF WholeWords
<1>4. CASE InArm7Ram
  <2>1. header \in Header /\ Arm7Lies
    BY HeaderAssumption DEF Inv, TypeOK, FitsInv
  <2>2. \A k \in 0 .. WholeWords - 1 : k \in Nat /\ k < WholeWords /\ k < header.size7
    BY <1>2, <1>3
  <2>3. \A k \in 0 .. WholeWords - 1 : header.start7 + k \in Memory
    BY <1>4, <2>1, <2>2, Places
  <2>4. QED
    BY <1>1, <1>4, <2>2, <2>3 DEF Arm7Placed, Copied
<1>5. CASE ~InArm7Ram
  BY <1>5 DEF Arm7Placed
<1>6. QED
  BY <1>4, <1>5

\* The ARM9 reads its binary over the staging area only when the ARM7 has copied
\* every whole word of its own, for every header and every interleaving of the
\* two CPUs.
THEOREM CopiedFirst == ASSUME StartNibbles = {0} PROVE Spec => []CopiedBeforeLoad
<1>1. Init => Inv
  BY InitInv
<1>2. QED
  BY <1>1, NextInv, InvCopied, PTL DEF Spec
=============================================================================
