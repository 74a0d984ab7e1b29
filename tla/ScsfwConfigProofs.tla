------------------------- MODULE ScsfwConfigProofs -------------------------
(***************************************************************************)
(* What holds of ScsfwConfig for every size of the log, every layout and   *)
(* every word, by proof.                                                   *)
(***************************************************************************)
EXTENDS ScsfwConfig, TLAPS, FiniteSetTheorems

-----------------------------------------------------------------------------
\* The run of marked slots

\* Every non-empty set of naturals has a least element.
LEMMA LeastNat ==
  ASSUME NEW T \in SUBSET Nat, T # {}
  PROVE  \E x \in T : \A y \in T : x <= y
<1> DEFINE below == {0 .. k : k \in T}
<1>1. below \subseteq FiniteSubsetsOf(Nat)
  <2>1. ASSUME NEW k \in T PROVE 0 .. k \in FiniteSubsetsOf(Nat)
    <3>1. k \in Nat /\ IsFiniteSet(0 .. k)
      BY FS_Interval
    <3>2. 0 .. k \in SUBSET Nat
      BY <3>1
    <3>3. QED
      BY <3>1, <3>2 DEF FiniteSubsetsOf
  <2>2. QED
    BY <2>1
<1>2. PICK b \in below : \A c \in below : <<c, b>> \notin StrictSubsetOrdering(Nat)
  <2>1. IsWellFoundedOn(StrictSubsetOrdering(Nat), FiniteSubsetsOf(Nat))
    BY FS_StrictSubsetOrderingWellFounded
  <2>2. below # {}
    OBVIOUS
  <2>3. QED
    BY <1>1, <2>1, <2>2, WFMin
<1>3. PICK x \in T : b = 0 .. x
  BY DEF below
<1>4. ASSUME NEW y \in T PROVE x <= y
  <2>1. <<0 .. y, 0 .. x>> \notin StrictSubsetOrdering(Nat)
    BY <1>2, <1>3
  <2>2. ~(y < x)
    BY <2>1 DEF StrictSubsetOrdering
  <2>3. QED
    BY <2>2
<1>5. QED
  BY <1>4

\* The loops over used_slots stop at some slot, whatever the flash holds.
LEMMA RunExists ==
  RunLength \in 0 .. MAX_CONFS /\ RunEndsAt(RunLength)
<1>1. \E r \in 0 .. MAX_CONFS : RunEndsAt(r)
  <2> DEFINE Free == {i \in Slots : used_slots[i] # SLOT_MAGIC}
  <2>1. CASE Free = {}
    <3>1. \A i \in Slots : used_slots[i] = SLOT_MAGIC
      BY <2>1
    <3>2. RunEndsAt(MAX_CONFS)
      BY <3>1, SizeAssumption DEF RunEndsAt
    <3>3. QED
      BY <3>2, SizeAssumption
  <2>2. CASE Free # {}
    <3>0. Free \in SUBSET Nat
      BY SizeAssumption DEF Slots
    <3>1. PICK r \in Free : \A i \in Free : r <= i
      BY <2>2, <3>0, LeastNat
    <3>2. r \in 0 .. MAX_CONFS /\ used_slots[r] # SLOT_MAGIC
      BY <3>1, SizeAssumption DEF Slots
    <3>3. ASSUME NEW i \in Slots, i < r PROVE used_slots[i] = SLOT_MAGIC
      BY <3>1, <3>3, SizeAssumption DEF Slots
    <3>4. QED
      BY <3>2, <3>3 DEF RunEndsAt
  <2>3. QED
    BY <2>1, <2>2
<1>2. QED
  BY <1>1 DEF RunLength

\* They stop at one slot only.
LEMMA RunUnique ==
  ASSUME NEW r \in 0 .. MAX_CONFS, RunEndsAt(r)
  PROVE  RunLength = r
BY RunExists, SizeAssumption DEF RunEndsAt, Slots

-----------------------------------------------------------------------------
\* Type correctness

\* A fresh card is well typed.
LEMMA InitType == Init => TypeOK
<1>1. DefaultConfig \in Config
  BY DEF DefaultConfig, Config, Word
<1>2. 0 \in Slots
  BY SizeAssumption DEF Slots
<1>3. Turns("boot") = 1 /\ 0 \in 0 .. 1 - 1
  BY DEF Turns
<1>4. QED
  BY <1>1, <1>2, <1>3 DEF Init, TypeOK

\* The word a program command leaves is a word.
LEMMA ProgrammedType ==
  ASSUME NEW w \in Word, NEW v \in Word
  PROVE  Programmed(w, v) \subseteq Word /\ HalfProgrammed(w, v) \subseteq Word
BY DEF Programmed, HalfProgrammed, Word

\* What a boot reads is a configuration.
LEMMA StoredConfigType ==
  ASSUME TypeOK PROVE StoredConfig \in Config
BY RunExists, SizeAssumption
   DEF TypeOK, StoredConfig, DefaultConfig, Config, Word, Slots

\* The erase of a sub-sector, whole or torn, keeps the types.
LEMMA EraseType ==
  ASSUME TypeOK, NEW k \in Subs, EraseSub(k) \/ SpoilSub(k)
  PROVE  /\ magic' \in [MagicIdx -> Word]
         /\ used_slots' \in [Slots -> Word]
         /\ confs' \in [Slots -> Config]
         /\ fw' \subseteq FwSub
<1>1. {} \in Word
  BY DEF Word
<1>2. CASE EraseSub(k)
  BY <1>1, <1>2 DEF TypeOK, EraseSub, Erased, Config
<1>3. CASE SpoilSub(k)
  <2>1. magic' \in [MagicIdx -> Word] /\ used_slots' \in [Slots -> Word]
    BY <1>3 DEF SpoilSub, TypeOK
  <2>2. confs' \in [Slots -> Config]
    <3>1. PICK junk \in [{ij \in Slots \X ConfIdx : ConfSub[ij] = k} -> Word] :
            confs' = [i \in Slots |-> [j \in ConfIdx |->
              IF ConfSub[<<i, j>>] = k THEN junk[<<i, j>>] ELSE confs[i][j]]]
      BY <1>3 DEF SpoilSub
    <3>2. ASSUME NEW i \in Slots, NEW j \in ConfIdx
          PROVE  (IF ConfSub[<<i, j>>] = k THEN junk[<<i, j>>] ELSE confs[i][j]) \in Word
      BY DEF TypeOK, Config
    <3>3. QED
      BY <3>1, <3>2 DEF Config
  <2>3. fw' \subseteq FwSub
    BY <1>3 DEF SpoilSub, TypeOK
  <2>4. QED
    BY <2>1, <2>2, <2>3
<1>4. QED
  BY <1>2, <1>3

\* Advancing stays within the loops.
LEMMA AdvanceType ==
  ASSUME TypeOK, NEW step \in {"magic", "slot", "conf", "done"}, Advance(step)
  PROVE  /\ n' \in 0 .. Turns(pc') - 1
         /\ pc' \in {pc, step}
BY SizeAssumption DEF TypeOK, Advance, Turns

\* No step of the ARM9 and no power failure leaves the types.
LEMMA NextType == TypeOK /\ [Next]_vars => TypeOK'
<1> SUFFICES ASSUME TypeOK, [Next]_vars PROVE TypeOK'
  OBVIOUS
<1>0. /\ MAGIC \in [MagicIdx -> Word] /\ SLOT_MAGIC \in Word /\ Bit \in Word
      /\ ConfWord \subseteq Word /\ 0 \in Slots
  BY SizeAssumption, LayoutAssumption DEF Word, Slots
<1>1. CASE ReadConfigs
  BY <1>1, StoredConfigType DEF ReadConfigs, TypeOK, flash, Turns
<1>2. ASSUME NEW c \in [ConfIdx -> ConfWord], Edit(c) PROVE TypeOK'
  BY <1>0, <1>2 DEF Edit, TypeOK, flash, Turns, Config
<1>3. CASE SaveConfigs
  <2>1. idx' \in Slots
    BY <1>0, <1>3, RunExists, SizeAssumption DEF SaveConfigs, Slots
  <2>2. n = 0 /\ n \in 0 .. Turns(pc') - 1
    BY <1>3, SizeAssumption DEF SaveConfigs, TypeOK, Turns
  <2>3. QED
    BY <1>3, <2>1, <2>2 DEF SaveConfigs, TypeOK, flash
<1>4. CASE EraseSector
  <2>1. n \in Subs
    BY <1>4, SizeAssumption DEF EraseSector, TypeOK, Turns, Subs
  <2>2. n' \in 0 .. Turns(pc') - 1 /\ pc' \in {"erase", "magic"}
    BY <1>4, AdvanceType DEF EraseSector
  <2>3. /\ magic' \in [MagicIdx -> Word] /\ used_slots' \in [Slots -> Word]
        /\ confs' \in [Slots -> Config] /\ fw' \subseteq FwSub
    BY <1>4, <2>1, EraseType DEF EraseSector
  <2>4. badSub' \subseteq Subs /\ err' \in BOOLEAN
    BY <1>4, <2>1 DEF EraseSector, SpoilSub, TypeOK
  <2>5. QED
    BY <1>4, <2>2, <2>3, <2>4 DEF EraseSector, TypeOK
<1>5. CASE WriteMagic
  <2>1. n \in MagicIdx
    BY <1>5, SizeAssumption DEF WriteMagic, TypeOK, Turns, MagicIdx
  <2>2. n' \in 0 .. Turns(pc') - 1 /\ pc' \in {"magic", "slot"}
    BY <1>5, AdvanceType DEF WriteMagic
  <2>3. magic' \in [MagicIdx -> Word] /\ err' \in BOOLEAN
    <3>1. Programmed(magic[n], MAGIC[n]) \subseteq Word
      BY <1>0, <2>1, ProgrammedType DEF TypeOK
    <3>2. QED
      BY <1>5, <2>1, <3>1 DEF WriteMagic, TypeOK
  <2>4. QED
    BY <1>5, <2>2, <2>3 DEF WriteMagic, TypeOK
<1>6. CASE WriteSlot
  <2>1. used_slots' \in [Slots -> Word] /\ err' \in BOOLEAN
    <3>1. Programmed(used_slots[idx], SLOT_MAGIC) \subseteq Word
      BY <1>0, ProgrammedType DEF TypeOK
    <3>2. QED
      BY <1>6, <3>1 DEF WriteSlot, TypeOK
  <2>2. n \in 0 .. Turns(pc') - 1
    BY <1>6, SizeAssumption DEF WriteSlot, TypeOK, Turns
  <2>3. QED
    BY <1>6, <2>1, <2>2 DEF WriteSlot, TypeOK
<1>7. CASE WriteConf
  <2>1. n \in ConfIdx
    BY <1>7, SizeAssumption DEF WriteConf, TypeOK, Turns, ConfIdx
  <2>2. n' \in 0 .. Turns(pc') - 1 /\ pc' \in {"conf", "done"}
    BY <1>7, AdvanceType DEF WriteConf
  <2>3. confs' \in [Slots -> Config] /\ err' \in BOOLEAN
    <3>1. Programmed(confs[idx][n], configs[n]) \subseteq Word
      BY <2>1, ProgrammedType DEF TypeOK, Config
    <3>2. QED
      BY <1>7, <2>1, <3>1 DEF WriteConf, TypeOK, Config
  <2>4. QED
    BY <1>7, <2>2, <2>3 DEF WriteConf, TypeOK
<1>8. CASE PowerOff
  <2>1. /\ magic' \in [MagicIdx -> Word] /\ used_slots' \in [Slots -> Word]
        /\ confs' \in [Slots -> Config] /\ fw' \subseteq FwSub
        /\ badSub' \subseteq Subs
    <3>1. CASE UNCHANGED flash
      BY <3>1 DEF flash, TypeOK
    <3>2. CASE pc = "erase" /\ SpoilSub(n)
      <4>1. n \in Subs
        BY <3>2, SizeAssumption DEF TypeOK, Turns, Subs
      <4>2. QED
        BY <3>2, <4>1, EraseType DEF SpoilSub, TypeOK
    <3>3. CASE /\ pc = "magic"
               /\ \E w \in HalfProgrammed(magic[n], MAGIC[n]) :
                    magic' = [magic EXCEPT ![n] = w]
               /\ UNCHANGED <<used_slots, confs, fw, badSub>>
      <4>1. n \in MagicIdx
        BY <3>3, SizeAssumption DEF TypeOK, Turns, MagicIdx
      <4>2. HalfProgrammed(magic[n], MAGIC[n]) \subseteq Word
        BY <1>0, <4>1, ProgrammedType DEF TypeOK
      <4>3. QED
        BY <3>3, <4>1, <4>2 DEF TypeOK
    <3>4. CASE /\ pc = "slot"
               /\ \E w \in HalfProgrammed(used_slots[idx], SLOT_MAGIC) :
                    used_slots' = [used_slots EXCEPT ![idx] = w]
               /\ UNCHANGED <<magic, confs, fw, badSub>>
      <4>1. HalfProgrammed(used_slots[idx], SLOT_MAGIC) \subseteq Word
        BY <1>0, ProgrammedType DEF TypeOK
      <4>2. QED
        BY <3>4, <4>1 DEF TypeOK
    <3>5. CASE /\ pc = "conf"
               /\ \E w \in HalfProgrammed(confs[idx][n], configs[n]) :
                    confs' = [confs EXCEPT ![idx][n] = w]
               /\ UNCHANGED <<magic, used_slots, fw, badSub>>
      <4>1. n \in ConfIdx
        BY <3>5, SizeAssumption DEF TypeOK, Turns, ConfIdx
      <4>2. HalfProgrammed(confs[idx][n], configs[n]) \subseteq Word
        BY <4>1, ProgrammedType DEF TypeOK, Config
      <4>3. QED
        BY <3>5, <4>1, <4>2 DEF TypeOK, Config
    <3>6. QED
      BY <1>8, <3>1, <3>2, <3>3, <3>4, <3>5 DEF PowerOff, Interrupted
  <2>2. QED
    <3>1. DefaultConfig \in Config
      BY <1>0 DEF DefaultConfig, Config
    <3>2. Turns("boot") = 1 /\ 0 \in 0 .. 1 - 1
      BY DEF Turns
    <3>3. QED
      BY <1>0, <1>8, <2>1, <3>1, <3>2 DEF PowerOff, TypeOK
<1>9. CASE UNCHANGED vars
  BY <1>9 DEF vars, TypeOK
<1>10. QED
  BY <1>1, <1>2, <1>3, <1>4, <1>5, <1>6, <1>7, <1>8, <1>9 DEF Next

\* Every variable keeps its type, for every log size and every layout
\* (scsfw_config.c:19-23).
THEOREM TypeCorrect == Spec => []TypeOK
BY InitType, NextType, PTL DEF Spec


-----------------------------------------------------------------------------
\* A save that reports no error is what the next boot reads.
\*
\* SavedIsReadBack is not inductive: the run of marks found at the next boot
\* could go past the slot just written.  LogInv says that it cannot: beyond
\* the slot in hand every mark is erased.  SaveInv carries what the checks of
\* sc_flash_write have established so far.

\* All marks before r are set, all marks after r are erased; r's own may be
\* half programmed.
Solid(r) ==
  /\ \A i \in Slots : i < r => used_slots[i] = SLOT_MAGIC
  /\ \A i \in Slots : i > r => used_slots[i] = Erased

LogInv ==
  0 \notin badSub =>
    /\ CheckMagic /\ pc \in {"boot", "menu", "erase"} =>
         \E r \in 0 .. MAX_CONFS : Solid(r)
    /\ pc = "erase" /\ n > 0 => Solid(0)
    /\ pc = "magic" => Solid(0)
    /\ pc \in {"slot", "conf", "done"} => Solid(idx)

SaveInv ==
  ~err =>
    /\ pc = "magic" => \A k \in MagicIdx : k < n => magic[k] = MAGIC[k]
    /\ pc \in {"slot", "conf", "done"} => CheckMagic
    /\ pc \in {"conf", "done"} => used_slots[idx] = SLOT_MAGIC
    /\ pc = "conf" => \A j \in ConfIdx : j < n => confs[idx][j] = configs[j]
    /\ pc = "done" => confs[idx] = configs

ReadBackInv == TypeOK /\ LogInv /\ SaveInv

\* The first slot after a solid log is where the loops stop, or the one after.
LEMMA SolidRun ==
  ASSUME NEW r \in 0 .. MAX_CONFS, Solid(r)
  PROVE  Solid(RunLength)
BY RunExists, SizeAssumption DEF Solid, RunEndsAt, Slots

\* On a fresh card there is no magic and no save is under way.
LEMMA InitReadBack == Init => LogInv /\ SaveInv
BY DEF Init, LogInv, SaveInv, CheckMagic

\* Solid depends on used_slots only.
LEMMA SolidKept ==
  ASSUME UNCHANGED used_slots, NEW r, Solid(r)
  PROVE  Solid(r)'
BY DEF Solid

\* Every turn of the erase loop leaves a solid log, when the first
\* sub-sector's erase is whole.
LEMMA LogInvErase ==
  ASSUME TypeOK, LogInv, EraseSector
  PROVE  LogInv'
<1> SUFFICES ASSUME 0 \notin badSub' PROVE Solid(0)' /\ pc' \in {"erase", "magic"}
  <2>1. 0 \in 0 .. MAX_CONFS
    BY SizeAssumption
  <2>2. QED
    BY <2>1 DEF LogInv
<1>1. pc' \in {"erase", "magic"}
  BY AdvanceType DEF EraseSector
<1>2. CASE n = 0
  <2>1. EraseSub(n)
    BY <1>2 DEF EraseSector, SpoilSub
  <2>2. used_slots' = [i \in Slots |-> Erased]
    BY <1>2, <2>1 DEF EraseSub
  <2>3. \A i \in Slots : ~(i < 0)
    BY SizeAssumption DEF Slots
  <2>4. QED
    BY <1>1, <2>2, <2>3 DEF Solid
<1>3. CASE n # 0
  <2>1. n > 0 /\ n \in Nat
    BY <1>3, SizeAssumption DEF EraseSector, TypeOK, Turns
  <2>2. UNCHANGED used_slots /\ 0 \notin badSub
    BY <1>3 DEF EraseSector, EraseSub, SpoilSub
  <2>3. Solid(0)
    BY <2>1, <2>2 DEF LogInv, EraseSector
  <2>4. QED
    BY <1>1, <2>2, <2>3, SolidKept
<1>4. QED
  BY <1>2, <1>3

\* A power failure leaves a solid log for the next boot to find.
LEMMA LogInvPowerOff ==
  ASSUME TypeOK, LogInv, PowerOff
  PROVE  LogInv'
<1> SUFFICES ASSUME 0 \notin badSub', CheckMagic'
             PROVE  \E r \in 0 .. MAX_CONFS : Solid(r)'
  BY DEF LogInv, PowerOff
<1>0. 0 \in 0 .. MAX_CONFS /\ idx \in 0 .. MAX_CONFS
  BY SizeAssumption DEF TypeOK, Slots
<1>1. 0 \notin badSub
  BY DEF PowerOff, Interrupted, SpoilSub, flash
<1>2. CASE UNCHANGED used_slots
  <2>1. \E r \in 0 .. MAX_CONFS : Solid(r)
    <3>1. CASE pc \in {"slot", "conf", "done"}
      BY <1>0, <1>1, <3>1 DEF LogInv
    <3>2. CASE pc = "magic"
      BY <1>0, <1>1, <3>2 DEF LogInv
    <3>3. CASE pc = "erase" /\ n > 0
      BY <1>0, <1>1, <3>3 DEF LogInv
    <3>4. CASE pc = "erase" /\ ~(n > 0)
      <4>1. n = 0
        BY <3>4, SizeAssumption DEF TypeOK, Turns
      <4>2. UNCHANGED magic
        BY <3>4, <4>1 DEF PowerOff, Interrupted, SpoilSub, flash
      <4>3. QED
        BY <1>1, <3>4, <4>2 DEF LogInv, CheckMagic
    <3>5. CASE pc = "menu"
      <4>1. UNCHANGED magic
        BY <3>5 DEF PowerOff, Interrupted, flash
      <4>2. QED
        BY <1>1, <3>5, <4>1 DEF LogInv, CheckMagic
    <3>6. QED
      BY <3>1, <3>2, <3>3, <3>4, <3>5 DEF TypeOK, PowerOff
  <2>2. QED
    BY <1>2, <2>1, SolidKept
<1>3. CASE pc = "slot" /\ ~UNCHANGED used_slots
  <2>1. PICK w : used_slots' = [used_slots EXCEPT ![idx] = w]
    BY <1>3 DEF PowerOff, Interrupted, flash
  <2>2. PICK r \in 0 .. MAX_CONFS : r = idx
    BY <1>0
  <2>3. Solid(r)'
    BY <1>1, <1>3, <2>1, <2>2 DEF LogInv, Solid, TypeOK
  <2>4. QED
    BY <2>3
<1>4. QED
  <2>1. CASE pc = "erase" /\ SpoilSub(n)
    BY <1>2, <2>1 DEF SpoilSub
  <2>2. QED
    BY <1>2, <1>3, <2>1 DEF PowerOff, Interrupted, flash

\* Every step keeps the log's invariant, whatever commands fail.
LEMMA LogInvNext == TypeOK /\ LogInv /\ [Next]_vars => LogInv'
<1> SUFFICES ASSUME TypeOK, LogInv, [Next]_vars PROVE LogInv'
  OBVIOUS
<1>1. CASE ReadConfigs
  BY <1>1, SolidKept DEF ReadConfigs, LogInv, flash, CheckMagic
<1>2. ASSUME NEW c \in [ConfIdx -> ConfWord], Edit(c) PROVE LogInv'
  BY <1>2, SolidKept DEF Edit, LogInv, flash, CheckMagic
<1>3. CASE SaveConfigs
  <2>1. UNCHANGED flash /\ n' = n /\ n = 0
    BY <1>3 DEF SaveConfigs, TypeOK, Turns
  <2>2. CASE CheckMagic /\ RunLength < MAX_CONFS /\ pc' = "slot" /\ idx' = RunLength
    <3>1. PICK r \in 0 .. MAX_CONFS : r = RunLength
      BY RunExists
    <3>2. 0 \notin badSub => Solid(r)'
      BY <1>3, <2>1, <2>2, <3>1, SolidRun, SolidKept DEF LogInv, SaveConfigs, flash
    <3>3. QED
      BY <2>1, <2>2, <3>1, <3>2 DEF LogInv, flash, Solid
  <2>3. CASE pc' = "erase"
    <3>1. UNCHANGED <<used_slots, magic, badSub>> /\ pc = "menu"
      BY <1>3, <2>1 DEF flash, SaveConfigs
    <3>2. CheckMagic' = CheckMagic
      BY <3>1 DEF CheckMagic
    <3>3. ASSUME 0 \notin badSub', CheckMagic' PROVE \E r \in 0 .. MAX_CONFS : Solid(r)'
      BY <3>1, <3>2, <3>3, SolidKept DEF LogInv
    <3>4. QED
      BY <2>1, <2>3, <3>3 DEF LogInv
  <2>4. QED
    BY <1>3, <2>2, <2>3 DEF SaveConfigs
<1>4. CASE EraseSector
  BY <1>4, LogInvErase
<1>5. CASE WriteMagic
  <2>1. pc' = "magic" \/ (pc' = "slot" /\ idx' = idx)
    BY <1>5 DEF WriteMagic, Advance
  <2>2. pc = "magic" /\ idx = 0 /\ UNCHANGED <<used_slots, badSub, idx>>
    BY <1>5 DEF WriteMagic, TypeOK
  <2>3. 0 \notin badSub' => Solid(0)'
    BY <2>2, SolidKept DEF LogInv
  <2>4. 0 \notin badSub' => Solid(idx)'
    BY <2>2, <2>3 DEF Solid
  <2>5. CASE pc' = "magic"
    BY <2>3, <2>5 DEF LogInv
  <2>6. CASE pc' = "slot"
    BY <2>4, <2>6 DEF LogInv
  <2>7. QED
    BY <2>1, <2>5, <2>6
<1>6. CASE WriteSlot
  <2>1. pc = "slot" /\ pc' = "conf" /\ UNCHANGED <<badSub, idx>>
    BY <1>6 DEF WriteSlot
  <2>2. PICK w : used_slots' = [used_slots EXCEPT ![idx] = w]
    BY <1>6 DEF WriteSlot
  <2>3. used_slots \in [Slots -> Word] /\ idx \in Slots
    BY DEF TypeOK
  <2>4. ASSUME 0 \notin badSub' PROVE Solid(idx)'
    <3>1. Solid(idx)
      BY <2>1, <2>4 DEF LogInv
    <3>2. ASSUME NEW i \in Slots, i # idx PROVE used_slots'[i] = used_slots[i]
      BY <2>2, <2>3, <3>2
    <3>3. \A i \in Slots : i < idx \/ i > idx => i # idx
      BY <2>3 DEF Slots
    <3>4. QED
      BY <2>1, <3>1, <3>2, <3>3 DEF Solid
  <2>5. QED
    BY <2>1, <2>4 DEF LogInv, Solid
<1>7. CASE WriteConf
  <2>1. pc' \in {"conf", "done"}
    BY <1>7 DEF WriteConf, Advance
  <2>2. pc = "conf" /\ UNCHANGED <<used_slots, badSub, idx>>
    BY <1>7 DEF WriteConf
  <2>3. QED
    BY <2>1, <2>2 DEF LogInv, Solid
<1>8. CASE PowerOff
  BY <1>8, LogInvPowerOff
<1>9. CASE UNCHANGED vars
  BY <1>9, SolidKept DEF vars, LogInv, CheckMagic, Solid
<1>10. QED
  BY <1>1, <1>2, <1>3, <1>4, <1>5, <1>6, <1>7, <1>8, <1>9 DEF Next

\* While a save runs, "no error yet" means that the words written so far read
\* back as written.
LEMMA SaveInvNext == TypeOK /\ SaveInv /\ [Next]_vars => SaveInv'
<1> SUFFICES ASSUME TypeOK, SaveInv, [Next]_vars, ~err' PROVE SaveInv'
  BY DEF SaveInv
<1>1. CASE ReadConfigs
  BY <1>1 DEF ReadConfigs, SaveInv
<1>2. ASSUME NEW c \in [ConfIdx -> ConfWord], Edit(c) PROVE SaveInv'
  BY <1>2 DEF Edit, SaveInv
<1>3. CASE SaveConfigs
  BY <1>3 DEF SaveConfigs, SaveInv, flash, CheckMagic
<1>4. CASE EraseSector
  <2>1. CASE pc' = "erase"
    BY <2>1 DEF SaveInv
  <2>2. CASE pc' = "magic"
    <3>1. n' = 0
      BY <1>4, <2>2 DEF EraseSector, Advance
    <3>2. \A k \in MagicIdx : ~(k < 0)
      BY SizeAssumption DEF MagicIdx
    <3>3. QED
      BY <2>2, <3>1, <3>2 DEF SaveInv
  <2>3. QED
    BY <1>4, <2>1, <2>2, AdvanceType DEF EraseSector
<1>5. CASE WriteMagic
  <2>1. n \in MagicIdx /\ n \in Nat
    BY <1>5, SizeAssumption DEF WriteMagic, TypeOK, Turns, MagicIdx
  <2>2. magic' = [magic EXCEPT ![n] = MAGIC[n]] /\ ~err
    BY <1>5 DEF WriteMagic
  <2>3. \A k \in MagicIdx : k < n + 1 => magic'[k] = MAGIC[k]
    <3>1. ASSUME NEW k \in MagicIdx, k < n + 1 PROVE k = n \/ k < n
      BY <2>1, <3>1, SizeAssumption DEF MagicIdx
    <3>2. QED
      BY <1>5, <2>1, <2>2, <3>1 DEF SaveInv, WriteMagic, TypeOK
  <2>4. CASE n' = n + 1 /\ pc' = "magic"
    BY <2>3, <2>4 DEF SaveInv
  <2>5. CASE pc' = "slot" /\ ~(n + 1 < MagicLen)
    <3>1. \A k \in MagicIdx : k < n + 1
      BY <2>1, <2>5, SizeAssumption DEF MagicIdx
    <3>2. CheckMagic'
      BY <2>3, <3>1 DEF CheckMagic
    <3>3. QED
      BY <2>5, <3>2 DEF SaveInv
  <2>6. QED
    BY <1>5, <2>4, <2>5 DEF WriteMagic, Advance, Turns
<1>6. CASE WriteSlot
  <2>1. used_slots' = [used_slots EXCEPT ![idx] = SLOT_MAGIC] /\ ~err
    BY <1>6 DEF WriteSlot
  <2>2. pc = "slot" /\ pc' = "conf" /\ UNCHANGED <<magic, idx, n>>
    BY <1>6 DEF WriteSlot
  <2>3. n = 0
    BY <2>2 DEF TypeOK, Turns
  <2>4. used_slots'[idx] = SLOT_MAGIC
    BY <2>1 DEF TypeOK
  <2>5. CheckMagic'
    BY <2>1, <2>2 DEF SaveInv, CheckMagic
  <2>6. \A j \in ConfIdx : ~(j < 0)
    BY SizeAssumption DEF ConfIdx
  <2>7. QED
    BY <2>2, <2>3, <2>4, <2>5, <2>6 DEF SaveInv
<1>7. CASE WriteConf
  <2>1. n \in ConfIdx /\ n \in Nat
    BY <1>7, SizeAssumption DEF WriteConf, TypeOK, Turns, ConfIdx
  <2>2. /\ confs' = [confs EXCEPT ![idx][n] = configs[n]] /\ ~err
        /\ pc = "conf" /\ UNCHANGED <<magic, used_slots, idx, configs>>
    BY <1>7 DEF WriteConf
  <2>3. CheckMagic' /\ used_slots'[idx'] = SLOT_MAGIC
    BY <2>2 DEF SaveInv, CheckMagic
  <2>4. confs'[idx] = [confs[idx] EXCEPT ![n] = configs[n]]
    BY <2>2 DEF TypeOK
  <2>5. \A j \in ConfIdx : j < n + 1 => confs'[idx][j] = configs[j]
    <3>1. ASSUME NEW j \in ConfIdx, j < n + 1 PROVE j = n \/ j < n
      BY <2>1, <3>1, SizeAssumption DEF ConfIdx
    <3>2. confs[idx] \in [ConfIdx -> Word]
      BY DEF TypeOK, Config
    <3>3. \A j \in ConfIdx : j < n => confs[idx][j] = configs[j]
      BY <2>2 DEF SaveInv
    <3>4. QED
      BY <2>1, <2>4, <3>1, <3>2, <3>3
  <2>6. CASE n' = n + 1 /\ pc' = "conf"
    BY <2>2, <2>3, <2>5, <2>6 DEF SaveInv
  <2>7. CASE pc' = "done" /\ ~(n + 1 < ConfLen)
    <3>1. \A j \in ConfIdx : j < n + 1
      BY <2>1, <2>7, SizeAssumption DEF ConfIdx
    <3>2. confs'[idx] \in [ConfIdx -> Word] /\ configs \in [ConfIdx -> Word]
      BY <2>1, <2>4 DEF TypeOK, Config
    <3>3. confs'[idx] = configs
      BY <2>5, <3>1, <3>2
    <3>4. QED
      BY <2>2, <2>3, <2>7, <3>3 DEF SaveInv
  <2>8. QED
    BY <1>7, <2>6, <2>7 DEF WriteConf, Advance, Turns
<1>8. CASE PowerOff
  BY <1>8 DEF PowerOff, SaveInv
<1>9. CASE UNCHANGED vars
  BY <1>9 DEF vars, SaveInv, CheckMagic
<1>10. QED
  BY <1>1, <1>2, <1>3, <1>4, <1>5, <1>6, <1>7, <1>8, <1>9 DEF Next

\* The run of marks ends just behind the slot of the save that is done, so
\* that slot is the active one.
LEMMA DoneIsActive ==
  ASSUME ReadBackInv PROVE SavedIsReadBack
<1> SUFFICES ASSUME pc = "done", ~err, 0 \notin badSub
             PROVE  StoredConfig = configs
  BY DEF SavedIsReadBack
<1>1. Solid(idx) /\ CheckMagic /\ used_slots[idx] = SLOT_MAGIC /\ confs[idx] = configs
  BY DEF ReadBackInv, LogInv, SaveInv
<1>2. idx \in Slots /\ idx \in Nat /\ idx + 1 \in 0 .. MAX_CONFS
  BY SizeAssumption DEF ReadBackInv, TypeOK, Slots
<1>3. RunEndsAt(idx + 1)
  <2>1. ASSUME NEW i \in Slots, i < idx + 1 PROVE used_slots[i] = SLOT_MAGIC
    <3>1. i < idx \/ i = idx
      BY <1>2, <2>1, SizeAssumption DEF Slots
    <3>2. QED
      BY <1>1, <3>1 DEF Solid
  <2>2. ASSUME idx + 1 < MAX_CONFS PROVE used_slots[idx + 1] # SLOT_MAGIC
    <3>1. idx + 1 \in Slots /\ idx + 1 > idx
      BY <1>2, <2>2, SizeAssumption DEF Slots
    <3>2. QED
      BY <1>1, <3>1, LayoutAssumption DEF Solid
  <2>3. QED
    BY <2>1, <2>2 DEF RunEndsAt
<1>4. RunLength = idx + 1
  BY <1>2, <1>3, RunUnique
<1>5. QED
  BY <1>1, <1>2, <1>4 DEF StoredConfig

\* A save that printed no error is what the next boot reads, whatever power
\* failures and failed flash commands came before it (scsfw_config.c:89-109
\* against 66-82).
THEOREM ReadBack == Spec => []SavedIsReadBack
<1>1. Init => ReadBackInv
  BY InitType, InitReadBack DEF ReadBackInv
<1>2. ReadBackInv /\ [Next]_vars => ReadBackInv'
  BY NextType, LogInvNext, SaveInvNext DEF ReadBackInv
<1>3. ReadBackInv => SavedIsReadBack
  BY DoneIsActive
<1>4. QED
  BY <1>1, <1>2, <1>3, PTL DEF Spec

-----------------------------------------------------------------------------
\* On cells that work, save_configs programs erased words and at most one
\* half-written mark: the proof of NeverOverwrites, and, on the same invariant,
\* the proof that the store implements ConfigStore.
\*
\* NeverOverwrites is about a message that sc_flash_write prints long after the
\* state that causes it came about, so the invariant follows the erased part of
\* the block: through the erase loop, from the erase to the first slot, from each
\* slot to the next, and across power failures.

\* From slot r on nothing is programmed but, possibly, a part of r's mark.
Free(r) ==
  /\ \A i \in Slots : i < r => used_slots[i] = SLOT_MAGIC
  /\ \A i \in Slots : i = r => used_slots[i] \subseteq SLOT_MAGIC
  /\ \A i \in Slots : i > r => used_slots[i] = Erased
  /\ \A i \in Slots, j \in ConfIdx : i >= r => confs[i][j] = Erased

\* The first k sub-sectors are erased.
Wiped(k) ==
  /\ k > 0 => \A m \in MagicIdx : magic[m] = Erased
  /\ k > 0 => \A i \in Slots : used_slots[i] = Erased
  /\ \A i \in Slots, j \in ConfIdx : ConfSub[<<i, j>>] < k => confs[i][j] = Erased

\* What the next save relies on, when no save is under way.
Ready ==
  badSub = {} /\ CheckMagic => \E r \in 0 .. MAX_CONFS : Free(r)

EraseInv ==
  /\ pc \in {"boot", "menu"} => ~err /\ Ready
  /\ pc = "erase" => ~err /\ Wiped(n) /\ (n = 0 => Ready)
  /\ pc = "magic" => /\ ~err /\ Free(0)
                     /\ \A m \in MagicIdx : m >= n => magic[m] = Erased
  /\ pc = "slot" /\ badSub = {} => ~err /\ Free(idx)
  /\ pc \in {"conf", "done"} /\ badSub = {} => ~err /\ Free(idx + 1)
  /\ pc = "conf" /\ badSub = {} =>
       \A j \in ConfIdx : j >= n => confs[idx][j] = Erased

OverwriteInv == TypeOK /\ (~Faults => EraseInv)

\* Free depends on used_slots and confs only.
LEMMA FreeKept ==
  ASSUME UNCHANGED <<used_slots, confs>>, NEW r, Free(r)
  PROVE  Free(r)'
BY DEF Free

\* Ready depends on the flash only.
LEMMA ReadyKept ==
  ASSUME UNCHANGED flash, Ready
  PROVE  Ready'
<1> SUFFICES ASSUME badSub' = {}, CheckMagic' PROVE \E r \in 0 .. MAX_CONFS : Free(r)'
  BY DEF Ready
<1>1. badSub = {} /\ CheckMagic /\ UNCHANGED <<used_slots, confs>>
  BY DEF flash, CheckMagic
<1>2. PICK r \in 0 .. MAX_CONFS : Free(r)
  BY <1>1 DEF Ready
<1>3. QED
  BY <1>1, <1>2, FreeKept

\* Where the search loops stop, the next slot is free.
LEMMA FreeRun ==
  ASSUME NEW r \in 0 .. MAX_CONFS, Free(r)
  PROVE  Free(RunLength)
<1> PICK q \in 0 .. MAX_CONFS : q = RunLength /\ RunEndsAt(q)
  BY RunExists
<1>1. q = r \/ q = r + 1
  BY SizeAssumption, LayoutAssumption DEF Free, RunEndsAt, Slots
<1>2. CASE q = r + 1
  <2>1. \A i \in Slots : i < q => used_slots[i] = SLOT_MAGIC
    BY DEF RunEndsAt
  <2>2. \A i \in Slots : i >= q => i > r /\ i >= r
    BY <1>2, SizeAssumption DEF Slots
  <2>3. \A i \in Slots : (i = q \/ i > q) => i >= q
    BY <1>2, SizeAssumption DEF Slots
  <2>4. \A i \in Slots : i >= q => used_slots[i] = Erased
    BY <2>2 DEF Free
  <2>5. \A i \in Slots, j \in ConfIdx : i >= q => confs[i][j] = Erased
    BY <2>2 DEF Free
  <2>6. QED
    BY <2>1, <2>3, <2>4, <2>5 DEF Free, Erased
<1>3. QED
  BY <1>1, <1>2

\* An erased magic is no magic.
LEMMA ErasedMagic ==
  ASSUME \A m \in MagicIdx : magic[m] = Erased
  PROVE  ~CheckMagic
BY SizeAssumption, LayoutAssumption DEF CheckMagic, MagicIdx

\* Programming an erased word, or a part of the same word again, succeeds.
LEMMA ProgramWorks ==
  ASSUME ~Faults, NEW v, NEW w, w \subseteq v, NEW u \in Programmed(w, v)
  PROVE  u = v
<1>1. u = w \cup v
  BY DEF Programmed
<1>2. QED
  BY <1>1

\* A card without magic is ready: its first save erases it.
LEMMA InitOverwrite == Init => OverwriteInv
BY InitType DEF Init, OverwriteInv, EraseInv, Ready, CheckMagic

\* save_configs chooses a free slot, or the erase loop from its start.
LEMMA EraseInvSave ==
  ASSUME TypeOK, EraseInv, SaveConfigs
  PROVE  EraseInv'
<1>1. pc = "menu" /\ UNCHANGED flash /\ n = 0 /\ n' = 0 /\ err' = err /\ ~err /\ Ready
  BY DEF SaveConfigs, TypeOK, Turns, EraseInv
<1>2. CASE CheckMagic /\ pc' = "slot" /\ idx' = RunLength
  <2>1. badSub = {} => Free(RunLength)
    BY <1>1, <1>2, FreeRun DEF Ready
  <2>2. PICK q : q = RunLength
    OBVIOUS
  <2>3. UNCHANGED <<used_slots, confs, badSub>>
    BY <1>1 DEF flash
  <2>4. badSub' = {} => Free(q)'
    BY <2>1, <2>2, <2>3, FreeKept
  <2>5. badSub' = {} => Free(idx)'
    BY <1>2, <2>2, <2>4 DEF Free
  <2>6. QED
    BY <1>1, <1>2, <2>5 DEF EraseInv
<1>3. CASE pc' = "erase"
  <2>1. Ready'
    BY <1>1, ReadyKept
  <2>2. \A i \in Slots, j \in ConfIdx : ~(ConfSub[<<i, j>>] < 0)
    BY LayoutAssumption, SizeAssumption DEF Subs
  <2>3. Wiped(n)'
    BY <1>1, <2>2 DEF Wiped
  <2>4. QED
    BY <1>1, <1>3, <2>1, <2>3 DEF EraseInv
<1>4. QED
  BY <1>2, <1>3 DEF SaveConfigs

\* Each turn of the erase loop wipes one more sub-sector; the last one leaves
\* slot 0 free.
LEMMA EraseInvErase ==
  ASSUME TypeOK, EraseInv, ~Faults, EraseSector
  PROVE  EraseInv'
<1>1. pc = "erase" /\ EraseSub(n) /\ err' = err /\ ~err /\ Wiped(n) /\ n \in Subs
  BY SizeAssumption DEF EraseSector, EraseInv, TypeOK, Turns, Subs
<1>2. PICK k \in Nat : k = n + 1 /\ k > 0
  BY <1>1, SizeAssumption DEF Subs
<1>3. Wiped(k)'
  <2>1. /\ \A m \in MagicIdx : magic'[m] = Erased
        /\ \A i \in Slots : used_slots'[i] = Erased
    <3>1. CASE n = 0
      BY <1>1, <3>1 DEF EraseSub
    <3>2. CASE n # 0
      <4>1. n > 0
        BY <1>1, <3>2, SizeAssumption DEF Subs
      <4>2. QED
        BY <1>1, <3>2, <4>1 DEF EraseSub, Wiped
    <3>3. QED
      BY <3>1, <3>2
  <2>2. ASSUME NEW i \in Slots, NEW j \in ConfIdx, ConfSub[<<i, j>>] < k
        PROVE  confs'[i][j] = Erased
    <3>1. ConfSub[<<i, j>>] = n \/ ConfSub[<<i, j>>] < n
      BY <1>1, <1>2, <2>2, LayoutAssumption, SizeAssumption DEF Subs
    <3>2. confs'[i][j] = IF ConfSub[<<i, j>>] = n THEN Erased ELSE confs[i][j]
      BY <1>1 DEF EraseSub
    <3>3. QED
      BY <1>1, <3>1, <3>2 DEF Wiped
  <2>3. QED
    BY <2>1, <2>2 DEF Wiped
<1>4. CASE n' = n + 1 /\ pc' = "erase"
  <2>1. Wiped(n)'
    BY <1>2, <1>3, <1>4 DEF Wiped
  <2>2. n' # 0
    BY <1>2, <1>4
  <2>3. QED
    BY <1>1, <1>4, <2>1, <2>2 DEF EraseInv
<1>5. CASE n' = 0 /\ pc' = "magic" /\ ~(n + 1 < SubSectors)
  <2>1. \A i \in Slots, j \in ConfIdx : ConfSub[<<i, j>>] < k
    BY <1>1, <1>2, <1>5, LayoutAssumption, SizeAssumption DEF Subs
  <2>2. \A i \in Slots, j \in ConfIdx : confs'[i][j] = Erased
    BY <1>3, <2>1 DEF Wiped
  <2>3. \A i \in Slots : used_slots'[i] = Erased /\ ~(i < 0)
    BY <1>2, <1>3, SizeAssumption DEF Wiped, Slots
  <2>4. Free(0)'
    BY <2>2, <2>3 DEF Free, Erased
  <2>5. \A m \in MagicIdx : magic'[m] = Erased
    BY <1>2, <1>3 DEF Wiped
  <2>6. QED
    BY <1>1, <1>5, <2>4, <2>5 DEF EraseInv
<1>6. QED
  BY <1>1, <1>4, <1>5 DEF EraseSector, Advance, Turns

\* The magic goes over erased words.
LEMMA EraseInvMagic ==
  ASSUME TypeOK, EraseInv, ~Faults, WriteMagic
  PROVE  EraseInv'
<1>1. /\ pc = "magic" /\ ~err /\ Free(0) /\ idx = 0
      /\ UNCHANGED <<used_slots, confs, idx>>
  BY DEF WriteMagic, EraseInv, TypeOK
<1>2. n \in MagicIdx /\ n \in Nat
  BY <1>1, SizeAssumption DEF TypeOK, Turns, MagicIdx
<1>3. magic[n] = Erased
  BY <1>1, <1>2 DEF EraseInv
<1>4. ~err' /\ magic' = [magic EXCEPT ![n] = MAGIC[n]]
  BY <1>1, <1>3, ProgramWorks DEF WriteMagic, Erased
<1>5. Free(0)'
  BY <1>1, FreeKept
<1>6. CASE n' = n + 1 /\ pc' = "magic"
  <2>1. ASSUME NEW m \in MagicIdx, m >= n + 1 PROVE magic'[m] = Erased
    <3>1. m # n /\ m >= n
      BY <1>2, <2>1, SizeAssumption DEF MagicIdx
    <3>2. QED
      BY <1>1, <1>4, <3>1 DEF EraseInv, TypeOK
  <2>2. QED
    BY <1>4, <1>5, <1>6, <2>1 DEF EraseInv
<1>7. CASE pc' = "slot"
  <2>1. Free(idx)'
    BY <1>1, <1>5 DEF Free
  <2>2. QED
    BY <1>4, <1>7, <2>1 DEF EraseInv
<1>8. QED
  BY <1>1, <1>6, <1>7 DEF WriteMagic, Advance

\* The mark goes over an erased word, or over a part of itself.
LEMMA EraseInvSlot ==
  ASSUME TypeOK, EraseInv, ~Faults, WriteSlot
  PROVE  EraseInv'
<1>1. /\ pc = "slot" /\ pc' = "conf"
      /\ UNCHANGED <<confs, badSub, idx, n>>
  BY DEF WriteSlot
<1>2. PICK r \in Slots : r = idx
  BY DEF TypeOK
<1>3. ASSUME badSub' = {}
      PROVE  /\ ~err'
             /\ Free(idx + 1)'
             /\ \A j \in ConfIdx : j >= n' => confs'[idx'][j] = Erased
  <2>1. ~err /\ Free(r)
    BY <1>1, <1>2, <1>3 DEF EraseInv
  <2>2. ~err' /\ used_slots' = [used_slots EXCEPT ![r] = SLOT_MAGIC]
    <3>1. used_slots[r] \subseteq SLOT_MAGIC
      BY <2>1 DEF Free
    <3>2. QED
      BY <1>2, <2>1, <3>1, ProgramWorks DEF WriteSlot
  <2>3. \A i \in Slots : used_slots'[i] = IF i = r THEN SLOT_MAGIC ELSE used_slots[i]
    BY <2>2 DEF TypeOK
  <2>4. ASSUME NEW i \in Slots
        PROVE  /\ i < r + 1 => i < r \/ i = r
               /\ i >= r + 1 => i > r /\ i # r /\ i >= r
               /\ i = r + 1 \/ i > r + 1 => i >= r + 1
    BY SizeAssumption DEF Slots
  <2>5. \A i \in Slots : i < r + 1 => used_slots'[i] = SLOT_MAGIC
    BY <2>1, <2>3, <2>4 DEF Free
  <2>6. \A i \in Slots : i >= r + 1 => used_slots'[i] = Erased
    BY <2>1, <2>3, <2>4 DEF Free
  <2>7. \A i \in Slots, j \in ConfIdx : i >= r => confs'[i][j] = Erased
    BY <1>1, <2>1 DEF Free
  <2>8. Free(r + 1)'
    BY <2>4, <2>5, <2>6, <2>7 DEF Free, Erased
  <2>9. idx' = r /\ r >= r
    BY <1>1, <1>2, SizeAssumption DEF Slots
  <2>10. Free(idx + 1)'
    BY <2>8, <2>9 DEF Free
  <2>11. QED
    BY <2>2, <2>7, <2>9, <2>10
<1>4. QED
  BY <1>1, <1>3 DEF EraseInv

\* The configuration goes over erased words.
LEMMA EraseInvConf ==
  ASSUME TypeOK, EraseInv, ~Faults, WriteConf
  PROVE  EraseInv'
<1>1. pc = "conf" /\ UNCHANGED <<used_slots, badSub, idx>>
  BY DEF WriteConf
<1>2. n \in ConfIdx /\ n \in Nat
  BY <1>1, SizeAssumption DEF TypeOK, Turns, ConfIdx
<1>3. PICK r \in Slots : r = idx
  BY DEF TypeOK
<1>4. ASSUME badSub' = {}
      PROVE  /\ ~err'
             /\ Free(idx + 1)'
             /\ \A j \in ConfIdx : j >= n + 1 => confs'[idx'][j] = Erased
  <2>1. ~err /\ Free(r + 1) /\ confs[r][n] = Erased
    BY <1>1, <1>2, <1>3, <1>4 DEF EraseInv
  <2>2. ~err' /\ confs' = [confs EXCEPT ![r][n] = configs[n]]
    BY <1>3, <2>1, ProgramWorks DEF WriteConf, Erased
  <2>3. \A i \in Slots, j \in ConfIdx : i # r \/ j # n => confs'[i][j] = confs[i][j]
    BY <1>2, <2>2 DEF TypeOK, Config
  <2>4. \A i \in Slots : i >= r + 1 => i # r
    BY SizeAssumption DEF Slots
  <2>5. \A j \in ConfIdx : j >= n + 1 => j # n /\ j >= n
    BY <1>2, SizeAssumption DEF ConfIdx
  <2>6. \A i \in Slots, j \in ConfIdx : i >= r + 1 => confs'[i][j] = Erased
    BY <2>1, <2>3, <2>4 DEF Free
  <2>7. Free(r + 1)'
    BY <1>1, <2>1, <2>6 DEF Free
  <2>8. Free(idx + 1)'
    BY <1>1, <1>3, <2>7 DEF Free
  <2>9. \A j \in ConfIdx : j >= n + 1 => confs'[r][j] = Erased
    BY <1>1, <1>3, <1>4, <2>3, <2>5 DEF EraseInv
  <2>10. QED
    BY <1>1, <1>3, <2>2, <2>8, <2>9
<1>5. CASE n' = n + 1 /\ pc' = "conf"
  BY <1>4, <1>5 DEF EraseInv
<1>6. CASE pc' = "done"
  BY <1>4, <1>6 DEF EraseInv
<1>7. QED
  BY <1>1, <1>5, <1>6 DEF WriteConf, Advance

\* Wherever power fails, the next boot finds a log that is ready, or a torn
\* sub-sector.
LEMMA EraseInvPowerOff ==
  ASSUME TypeOK, EraseInv, PowerOff
  PROVE  EraseInv'
<1>1. pc' = "boot" /\ ~err' /\ pc # "boot"
  BY DEF PowerOff
<1> SUFFICES ASSUME badSub' = {}, CheckMagic'
             PROVE  \E r \in 0 .. MAX_CONFS : Free(r)'
  BY <1>1 DEF EraseInv, Ready
<1>2. badSub = {} /\ ~(pc = "erase" /\ SpoilSub(n))
  BY DEF PowerOff, Interrupted, SpoilSub, flash
<1>3. PICK r \in Slots : r = idx
  BY DEF TypeOK
<1>4. r \in 0 .. MAX_CONFS /\ r + 1 \in 0 .. MAX_CONFS /\ 0 \in 0 .. MAX_CONFS
  BY SizeAssumption DEF Slots
<1>5. CASE pc = "menu" \/ (pc = "erase" /\ n = 0)
  <2>1. UNCHANGED flash /\ Ready
    BY <1>2, <1>5 DEF PowerOff, Interrupted, EraseInv
  <2>2. QED
    BY <2>1, ReadyKept DEF Ready
<1>6. CASE pc = "erase" /\ n # 0
  <2>1. n > 0 /\ UNCHANGED flash
    BY <1>2, <1>6, SizeAssumption DEF PowerOff, Interrupted, TypeOK, Turns
  <2>2. ~CheckMagic
    BY <1>6, <2>1, ErasedMagic DEF EraseInv, Wiped
  <2>3. QED
    BY <2>1, <2>2 DEF flash, CheckMagic
<1>7. CASE pc = "magic"
  <2>1. UNCHANGED <<used_slots, confs>> /\ Free(0)
    BY <1>7 DEF PowerOff, Interrupted, flash, EraseInv
  <2>2. Free(0)'
    BY <2>1, FreeKept
  <2>3. QED
    BY <1>4, <2>2
<1>8. CASE pc = "slot"
  <2>1. Free(r)
    BY <1>2, <1>3, <1>8 DEF EraseInv
  <2>2. CASE UNCHANGED flash
    BY <1>4, <2>1, <2>2, FreeKept DEF flash
  <2>3. CASE \E w \in HalfProgrammed(used_slots[idx], SLOT_MAGIC) :
               used_slots' = [used_slots EXCEPT ![idx] = w] /\ UNCHANGED confs
    <3>1. PICK w \in HalfProgrammed(used_slots[r], SLOT_MAGIC) :
            used_slots' = [used_slots EXCEPT ![r] = w] /\ UNCHANGED confs
      BY <1>3, <2>3
    <3>2. w \subseteq SLOT_MAGIC
      BY <2>1 DEF HalfProgrammed, Free
    <3>3. \A i \in Slots : used_slots'[i] = IF i = r THEN w ELSE used_slots[i]
      BY <3>1 DEF TypeOK
    <3>4. \A i \in Slots : i < r \/ i > r => i # r
      BY SizeAssumption DEF Slots
    <3>5. Free(r)'
      BY <2>1, <3>1, <3>2, <3>3, <3>4 DEF Free
    <3>6. QED
      BY <1>4, <3>5
  <2>4. QED
    BY <1>8, <2>2, <2>3 DEF PowerOff, Interrupted
<1>9. CASE pc = "done" \/ (pc = "conf" /\ UNCHANGED flash)
  <2>1. Free(r + 1) /\ UNCHANGED <<used_slots, confs>>
    BY <1>2, <1>3, <1>9 DEF EraseInv, PowerOff, Interrupted, flash
  <2>2. Free(r + 1)'
    BY <2>1, FreeKept
  <2>3. QED
    BY <1>4, <2>2
<1>10. CASE pc = "conf" /\ ~UNCHANGED flash
  <2>1. Free(r + 1)
    BY <1>2, <1>3, <1>10 DEF EraseInv
  <2>2. PICK w : confs' = [confs EXCEPT ![r][n] = w] /\ UNCHANGED used_slots
    BY <1>3, <1>10 DEF PowerOff, Interrupted
  <2>3. \A i \in Slots : i >= r + 1 => i # r
    BY SizeAssumption DEF Slots
  <2>4. \A i \in Slots : i >= r + 1 => confs'[i] = confs[i]
    BY <2>2, <2>3 DEF TypeOK
  <2>5. Free(r + 1)'
    BY <2>1, <2>2, <2>4 DEF Free
  <2>6. QED
    BY <1>4, <2>5
<1>11. QED
  BY <1>1, <1>5, <1>6, <1>7, <1>8, <1>9, <1>10 DEF TypeOK

\* Every step keeps the invariant when flash commands work.
LEMMA EraseInvNext == ~Faults /\ TypeOK /\ EraseInv /\ [Next]_vars => EraseInv'
<1> SUFFICES ASSUME ~Faults, TypeOK, EraseInv, [Next]_vars PROVE EraseInv'
  OBVIOUS
<1>1. CASE ReadConfigs
  BY <1>1, ReadyKept DEF ReadConfigs, EraseInv
<1>2. ASSUME NEW c \in [ConfIdx -> ConfWord], Edit(c) PROVE EraseInv'
  BY <1>2, ReadyKept DEF Edit, EraseInv
<1>3. CASE SaveConfigs
  BY <1>3, EraseInvSave
<1>4. CASE EraseSector
  BY <1>4, EraseInvErase
<1>5. CASE WriteMagic
  BY <1>5, EraseInvMagic
<1>6. CASE WriteSlot
  BY <1>6, EraseInvSlot
<1>7. CASE WriteConf
  BY <1>7, EraseInvConf
<1>8. CASE PowerOff
  BY <1>8, EraseInvPowerOff
<1>9. CASE UNCHANGED vars
  <2>1. UNCHANGED <<flash, magic, used_slots, confs, pc, idx, n, err, badSub>>
    BY <1>9 DEF vars, flash
  <2>2. Ready => Ready'
    BY <2>1, ReadyKept
  <2>3. QED
    BY <2>1, <2>2 DEF EraseInv, Free, Wiped
<1>10. QED
  BY <1>1, <1>2, <1>3, <1>4, <1>5, <1>6, <1>7, <1>8, <1>9 DEF Next

\* On cells that work no save meets a word that is not erased, whatever power
\* failures came before it, until an erase is torn (scsfw_config.c:89-109,
\* sc_commands.cpp:71-80).
THEOREM NoOverwrite == Spec => []NeverOverwrites
<1>1. Init => OverwriteInv
  BY InitOverwrite
<1>2. OverwriteInv /\ [Next]_vars => OverwriteInv'
  BY NextType, EraseInvNext DEF OverwriteInv
<1>3. OverwriteInv => NeverOverwrites
  BY DEF OverwriteInv, EraseInv, NeverOverwrites, TypeOK
<1>4. QED
  BY <1>1, <1>2, <1>3, PTL DEF Spec

-----------------------------------------------------------------------------
\* The refinement of ConfigStore

\* A save marks a slot that no earlier save has marked.
FreshSlot ==
  /\ pc = "magic" => \A i \in Slots : used_slots[i] = Erased
  /\ pc = "slot" => used_slots[idx] # SLOT_MAGIC

StoreInv == ReadBackInv /\ (~Faults => EraseInv /\ FreshSlot)

\* When a save writes, the log ends at its slot.
LEMMA FreshSlotNext ==
  ASSUME ~Faults, TypeOK, EraseInv, FreshSlot, [Next]_vars PROVE FreshSlot'
<1>0. 0 \in Slots /\ SLOT_MAGIC # Erased
  BY SizeAssumption, LayoutAssumption DEF Slots
<1>1. CASE SaveConfigs
  <2>1. CASE RunLength < MAX_CONFS /\ idx' = RunLength /\ pc' = "slot"
    <3>1. used_slots[RunLength] # SLOT_MAGIC
      BY <2>1, RunExists DEF RunEndsAt
    <3>2. QED
      BY <1>1, <2>1, <3>1 DEF FreshSlot, SaveConfigs, flash
  <2>2. QED
    BY <1>1, <2>1 DEF FreshSlot, SaveConfigs
<1>2. CASE EraseSector
  <2>0. pc = "erase" /\ n \in 0 .. SubSectors - 1
    BY <1>2 DEF EraseSector, TypeOK, Turns
  <2>1. EraseSub(n) /\ Wiped(n) /\ n \in Nat
    <3>1. n \in Nat
      BY <2>0, SizeAssumption
    <3>2. QED
      BY <1>2, <2>0, <3>1, Zenon DEF EraseSector, EraseInv
  <2>2. \A i \in Slots : used_slots'[i] = Erased
    BY <2>1 DEF EraseSub, Wiped
  <2>3. pc' \in {"erase", "magic"}
    BY <1>2, <2>0 DEF EraseSector, Advance
  <2>4. QED
    BY <2>2, <2>3 DEF FreshSlot
<1>3. CASE WriteMagic
  BY <1>0, <1>3 DEF FreshSlot, WriteMagic, Advance, TypeOK
<1>4. CASE ReadConfigs \/ (\E c \in [ConfIdx -> ConfWord] : Edit(c)) \/ WriteSlot
           \/ WriteConf \/ PowerOff
  BY <1>4 DEF FreshSlot, ReadConfigs, Edit, WriteSlot, WriteConf, PowerOff, Advance
<1>5. CASE UNCHANGED vars
  BY <1>5 DEF FreshSlot, vars
<1>6. QED
  BY <1>1, <1>2, <1>3, <1>4, <1>5 DEF Next

\* The invariant holds in every reachable state.
LEMMA StoreInvariance == Spec => []StoreInv
<1>1. Init => StoreInv
  BY InitType, InitReadBack, InitOverwrite
    DEF StoreInv, ReadBackInv, OverwriteInv, FreshSlot, Init
<1>2. StoreInv /\ [Next]_vars => StoreInv'
  BY NextType, LogInvNext, SaveInvNext, EraseInvNext, FreshSlotNext
    DEF StoreInv, ReadBackInv
<1>3. QED
  BY <1>1, <1>2, PTL DEF Spec

-----------------------------------------------------------------------------
\* The stored value

\* The run of marks us ends at r.
Ends(us, r) ==
  /\ \A i \in Slots : i < r => us[i] = SLOT_MAGIC
  /\ r < MAX_CONFS => us[r] # SLOT_MAGIC

\* A run of marks ends at one place only.
LEMMA OneEnd ==
  ASSUME NEW us, NEW r \in 0 .. MAX_CONFS, Ends(us, r)
  PROVE  (CHOOSE q \in 0 .. MAX_CONFS : Ends(us, q)) = r
<1>1. PICK p \in 0 .. MAX_CONFS : p = (CHOOSE q \in 0 .. MAX_CONFS : Ends(us, q)) /\ Ends(us, p)
  OBVIOUS
<1>2. p = r
  BY <1>1, SizeAssumption DEF Ends, Slots
<1>3. QED
  BY <1>1, <1>2

\* A marked slot before an unmarked one is the one that is read.
LEMMA LastMark ==
  ASSUME NEW us, NEW i \in Slots,
         \A k \in Slots : k <= i => us[k] = SLOT_MAGIC,
         \A k \in Slots : k > i => us[k] = Erased
  PROVE  (CHOOSE q \in 0 .. MAX_CONFS : Ends(us, q)) = i + 1
<1>1. i + 1 \in 0 .. MAX_CONFS /\ i \in Nat
  BY SizeAssumption DEF Slots
<1>2. Ends(us, i + 1)
  BY <1>1, LayoutAssumption, SizeAssumption DEF Ends, Slots
<1>3. QED
  BY <1>1, <1>2, OneEnd

\* A block without marks has none to read.
LEMMA NoMark ==
  ASSUME NEW us, \A k \in Slots : us[k] = Erased
  PROVE  (CHOOSE q \in 0 .. MAX_CONFS : Ends(us, q)) = 0
<1>1. 0 \in 0 .. MAX_CONFS /\ 0 \in Slots /\ \A k \in Slots : ~(k < 0)
  BY SizeAssumption DEF Slots
<1>2. Ends(us, 0)
  BY <1>1, LayoutAssumption DEF Ends
<1>3. QED
  BY <1>1, <1>2, OneEnd

\* The loops of scsfw_config.c find that end, now and after a step.
LEMMA RunIsEnd ==
  /\ RunLength = CHOOSE q \in 0 .. MAX_CONFS : Ends(used_slots, q)
  /\ RunLength' = CHOOSE q \in 0 .. MAX_CONFS : Ends(used_slots', q)
BY DEF RunLength, RunEndsAt, Ends

\* The stored configuration depends on the flash only.
LEMMA StoredKept ==
  ASSUME UNCHANGED <<magic, used_slots, confs>>
  PROVE  StoredConfig' = StoredConfig
BY DEF StoredConfig, CheckMagic, RunLength, RunEndsAt

\* The state of ConfigStore that a state of the log stands for has its types.
LEMMA StoreTypes ==
  ASSUME TypeOK
  PROVE  /\ StoredConfig \in Store!Config /\ configs \in Store!Config
         /\ Store!DefaultConfig \in Store!Config /\ Store!DefaultConfig = DefaultConfig
BY StoredConfigType
  DEF TypeOK, Config, Word, ConfIdx, DefaultConfig,
      Store!Config, Store!ConfIdx, Store!DefaultConfig

-----------------------------------------------------------------------------
\* The steps

\* A fresh card holds the default configuration.
LEMMA StoreInit == Init => Store!Init
<1> SUFFICES ASSUME Init PROVE Store!Init
  OBVIOUS
<1>1. StoredConfig = DefaultConfig
  BY DEF Init, StoredConfig
<1>2. QED
  BY <1>1, InitType, StoreTypes DEF Init, Store!Init

\* No erase reads as a configuration: whatever it leaves behind, a boot takes
\* the default one.
LEMMA StoreErase ==
  ASSUME TypeOK, EraseInv, ~Faults, EraseSector PROVE Store!Recycle
<1>1. pc = "erase" /\ n \in 0 .. SubSectors - 1
  BY DEF EraseSector, TypeOK, Turns
<1>2. EraseSub(n) /\ Wiped(n) /\ n \in Nat /\ badSub' = badSub \ {n}
  <2>1. n \in Nat
    BY <1>1, SizeAssumption
  <2>2. QED
    BY <1>1, <2>1, Zenon DEF EraseSector, EraseInv
<1>3. (\A m \in MagicIdx : magic[m] = Erased)'
  BY <1>2 DEF EraseSub, Wiped
<1>4. ~CheckMagic'
  <2>1. 0 \in MagicIdx /\ MAGIC[0] # Erased
    BY SizeAssumption, LayoutAssumption DEF MagicIdx
  <2>2. QED
    BY <1>3, <2>1 DEF CheckMagic
<1>5. StoredConfig' = DefaultConfig
  BY <1>4 DEF StoredConfig
<1>6. pc' \in {"erase", "magic"} /\ configs' = configs
  BY <1>1 DEF EraseSector, Advance
<1>7. QED
  BY <1>1, <1>2, <1>5, <1>6, StoreTypes DEF Store!Recycle

\* While the magic is written no slot is marked.
LEMMA StoreMagic ==
  ASSUME TypeOK, FreshSlot, WriteMagic PROVE UNCHANGED Store!vars
<1>1. /\ pc = "magic" /\ pc' \in {"magic", "slot"}
      /\ used_slots' = used_slots /\ badSub' = badSub /\ configs' = configs
  BY DEF WriteMagic, Advance
<1>2. \A i \in Slots : used_slots[i] = Erased
  BY <1>1 DEF FreshSlot
<1>3. RunLength = 0 /\ RunLength' = 0
  BY <1>1, <1>2, NoMark, RunIsEnd
<1>4. StoredConfig = DefaultConfig /\ StoredConfig' = DefaultConfig
  BY <1>3 DEF StoredConfig
<1>5. QED
  BY <1>1, <1>4 DEF Store!vars

\* Where the log stands while a save of a whole sub-sector is at its slot.
LEMMA SaveStands ==
  ASSUME TypeOK, LogInv, SaveInv, EraseInv, badSub = {}, pc \in {"slot", "conf", "done"}
  PROVE  /\ CheckMagic /\ idx \in Slots /\ Solid(idx) /\ ~err
         /\ pc = "slot" => \A j \in ConfIdx : confs[idx][j] = Erased
         /\ pc \in {"conf", "done"} => used_slots[idx] = SLOT_MAGIC
         /\ pc = "conf" => \A j \in ConfIdx : j >= n => confs[idx][j] = Erased
         /\ pc = "conf" => \A j \in ConfIdx : j < n => confs[idx][j] = configs[j]
<1>1. idx \in Slots /\ ~err
  BY DEF TypeOK, EraseInv
<1>2. Solid(idx)
  BY DEF LogInv
<1>3. pc = "slot" => \A j \in ConfIdx : confs[idx][j] = Erased
  <2> SUFFICES ASSUME pc = "slot", NEW j \in ConfIdx PROVE confs[idx][j] = Erased
    OBVIOUS
  <2>1. Free(idx) /\ idx >= idx
    BY <1>1, SizeAssumption DEF EraseInv, Slots
  <2>2. QED
    BY <1>1, <2>1 DEF Free
<1>4. QED
  BY <1>1, <1>2, <1>3 DEF SaveInv, EraseInv

\* A beginning of the configuration in hand, up to word k.
LEMMA Beginning ==
  ASSUME NEW v \in Config, NEW c \in Config, NEW k \in ConfIdx,
         \A j \in ConfIdx : j < k => v[j] = c[j],
         v[k] \subseteq c[k],
         \A j \in ConfIdx : j > k => v[j] = Erased
  PROVE  Store!BeginningOf(v, c)
BY DEF Store!BeginningOf, Store!ConfIdx, ConfIdx, Erased

\* The marked slot is still erased: no word of the new configuration yet.
LEMMA BeginsErased ==
  ASSUME NEW v \in Config, NEW c \in Config, \A j \in ConfIdx : v[j] = Erased
  PROVE  Store!BeginningOf(v, c)
<1>1. 0 \in ConfIdx /\ \A j \in ConfIdx : ~(j < 0)
  BY SizeAssumption DEF ConfIdx
<1>2. QED
  BY <1>1, Beginning DEF Erased
\* The new configuration is read from the moment its slot is marked: with none
\* of its words yet.
LEMMA StoreSlot ==
  ASSUME TypeOK, TypeOK', LogInv, SaveInv, EraseInv, ~Faults, badSub = {}, WriteSlot
  PROVE  Store!Write
<1>1. /\ pc = "slot" /\ pc' = "conf" /\ configs' = configs /\ badSub' = {}
      /\ magic' = magic /\ confs' = confs /\ idx \in Slots
  BY DEF WriteSlot, TypeOK
<1>2. /\ CheckMagic /\ Solid(idx) /\ used_slots[idx] \subseteq SLOT_MAGIC
      /\ \A j \in ConfIdx : confs[idx][j] = Erased
  BY <1>1, SaveStands DEF EraseInv, Free
<1>3. used_slots' = [used_slots EXCEPT ![idx] = SLOT_MAGIC]
  BY <1>2, ProgramWorks DEF WriteSlot
<1>4. RunLength' = idx + 1
  <2>1. \A k \in Slots : k <= idx => used_slots'[k] = SLOT_MAGIC
    BY <1>1, <1>2, <1>3, SizeAssumption DEF Solid, TypeOK, Slots
  <2>2. \A k \in Slots : k > idx => used_slots'[k] = Erased
    BY <1>1, <1>2, <1>3, SizeAssumption DEF Solid, TypeOK, Slots
  <2>3. QED
    BY <1>1, <2>1, <2>2, LastMark, RunIsEnd
<1>5. StoredConfig' = confs[idx]
  BY <1>1, <1>2, <1>4, SizeAssumption DEF StoredConfig, CheckMagic, Slots
<1>6. confs[idx] \in Config /\ configs \in Config
  BY <1>1 DEF TypeOK
<1>7. Store!BeginningOf(StoredConfig', configs)
  BY <1>2, <1>5, <1>6, BeginsErased
<1>8. QED
  BY <1>1, <1>5, <1>6, <1>7, StoreTypes DEF Store!Write, Config, Word, Store!Config, Store!ConfIdx, ConfIdx

\* While the words are written the one read grows; with the last one it is the
\* configuration in hand.
LEMMA StoreConf ==
  ASSUME TypeOK, LogInv, SaveInv, EraseInv, ~Faults, badSub = {}, WriteConf
  PROVE  Store!Write \/ Store!Commit
<1>1. /\ pc = "conf" /\ configs' = configs /\ badSub' = {} /\ magic' = magic
      /\ used_slots' = used_slots /\ idx \in Slots /\ n \in 0 .. ConfLen - 1
      /\ n \in ConfIdx /\ configs \in Config /\ confs \in [Slots -> Config]
  BY DEF WriteConf, TypeOK, Turns, ConfIdx
<1>2. /\ CheckMagic /\ Solid(idx) /\ used_slots[idx] = SLOT_MAGIC
      /\ \A j \in ConfIdx : j >= n => confs[idx][j] = Erased
      /\ \A j \in ConfIdx : j < n => confs[idx][j] = configs[j]
  BY <1>1, SaveStands
<1>3. confs' = [confs EXCEPT ![idx][n] = configs[n]]
  <2>1. confs[idx][n] \subseteq configs[n]
    BY <1>1, <1>2, SizeAssumption DEF Erased
  <2>2. QED
    BY <2>1, ProgramWorks DEF WriteConf
<1>4. PICK v : v = confs'[idx]
  OBVIOUS
<1>5. /\ v \in Config
      /\ \A j \in ConfIdx : j <= n => v[j] = configs[j]
      /\ \A j \in ConfIdx : j > n => v[j] = Erased
  <2>1. v = [confs[idx] EXCEPT ![n] = configs[n]] /\ confs[idx] \in Config
    BY <1>1, <1>3, <1>4
  <2>2. QED
    BY <1>1, <1>2, <2>1, SizeAssumption DEF Config, ConfIdx
<1>6. StoredConfig' = v
  <2>1. RunLength' = idx + 1
    BY <1>1, <1>2, LastMark, RunIsEnd, SizeAssumption DEF Solid, Slots
  <2>2. QED
    BY <1>1, <1>2, <1>4, <2>1, SizeAssumption DEF StoredConfig, CheckMagic, Slots
<1>7. CASE n + 1 < ConfLen
  <2>1. pc' = "conf"
    BY <1>1, <1>7 DEF WriteConf, Advance, Turns
  <2>2. Store!BeginningOf(v, configs)
    BY <1>1, <1>5, Beginning, SizeAssumption DEF ConfIdx
  <2>3. QED
    BY <1>1, <1>5, <1>6, <2>1, <2>2 DEF Store!Write, Config, Word, Store!Config, Store!ConfIdx, ConfIdx
<1>8. CASE n + 1 = ConfLen
  <2>1. pc' = "done"
    BY <1>1, <1>8 DEF WriteConf, Advance, Turns
  <2>2. \A j \in ConfIdx : v[j] = configs[j]
    BY <1>1, <1>5, <1>8, SizeAssumption DEF ConfIdx
  <2>3. v = configs
    <3>1. v \in [ConfIdx -> Word] /\ configs \in [ConfIdx -> Word]
      BY <1>1, <1>5 DEF Config
    <3>2. QED
      BY <2>2, <3>1
  <2>4. QED
    BY <1>1, <1>6, <2>1, <2>3 DEF Store!Commit
<1>9. QED
  BY <1>1, <1>7, <1>8, SizeAssumption
\* What every step leaves has ConfigStore's types.
LEMMA StoreTypesNext ==
  TypeOK' => StoredConfig' \in Store!Config /\ configs' \in Store!Config
<1>1. TypeOK => StoredConfig \in Store!Config /\ configs \in Store!Config
  BY StoreTypes
<1>2. (TypeOK => StoredConfig \in Store!Config /\ configs \in Store!Config)'
  BY <1>1, PTL
<1>3. QED
  BY <1>2

\* Power fails: the stored configuration is the one before, or a beginning of the
\* one that was being saved.
LEMMA StorePowerOff ==
  ASSUME TypeOK, TypeOK', LogInv, SaveInv, EraseInv, FreshSlot, ~Faults, PowerOff
  PROVE  Store!Stop \/ Store!Damage \/ Store!Unreliable
<1>1. pc' = "boot" /\ configs' \in Store!Config /\ StoredConfig' \in Store!Config
  BY StoreTypesNext DEF PowerOff
<1>2. CASE badSub # {} /\ badSub' # {}
  BY <1>1, <1>2 DEF Store!Unreliable
<1>3. CASE StoredConfig' = StoredConfig /\ badSub' = badSub
  BY <1>1, <1>3 DEF Store!Stop
<1>4. CASE UNCHANGED flash
  BY <1>3, <1>4, StoredKept DEF flash
<1>5. CASE pc = "erase" /\ SpoilSub(n)
  <2>1. badSub' # {}
    BY <1>5 DEF SpoilSub
  <2>2. QED
    BY <1>1, <1>5, <2>1 DEF Store!Damage
<1>6. CASE pc = "magic" /\ UNCHANGED <<used_slots, confs, badSub>>
  <2>1. \A i \in Slots : used_slots[i] = Erased
    BY <1>6 DEF FreshSlot
  <2>2. RunLength = 0 /\ RunLength' = 0
    BY <1>6, <2>1, NoMark, RunIsEnd
  <2>3. QED
    BY <1>3, <1>6, <2>2 DEF StoredConfig
<1>7. CASE /\ pc = "slot" /\ badSub = {} /\ UNCHANGED <<magic, confs, badSub>>
           /\ \E w \in HalfProgrammed(used_slots[idx], SLOT_MAGIC) :
                used_slots' = [used_slots EXCEPT ![idx] = w]
  <2>1. /\ CheckMagic /\ Solid(idx) /\ idx \in Slots
        /\ \A j \in ConfIdx : confs[idx][j] = Erased
    BY <1>7, SaveStands
  <2>2. PICK w : used_slots' = [used_slots EXCEPT ![idx] = w]
    BY <1>7
  <2>3. \A k \in Slots : k # idx => used_slots'[k] = used_slots[k]
    BY <2>1, <2>2 DEF TypeOK
  <2>4. used_slots'[idx] = w
    BY <2>1, <2>2 DEF TypeOK
  <2>5. CASE w = SLOT_MAGIC
    <3>1. RunLength' = idx + 1
      BY <2>1, <2>3, <2>4, <2>5, LastMark, RunIsEnd, SizeAssumption DEF Solid, Slots
    <3>2. StoredConfig' = confs[idx]
      BY <1>7, <2>1, <3>1, SizeAssumption DEF StoredConfig, CheckMagic, Slots
    <3>3. confs[idx] \in Config /\ configs \in Config
      BY <2>1 DEF TypeOK
    <3>4. Store!BeginningOf(StoredConfig', configs)
      BY <2>1, <3>2, <3>3, BeginsErased
    <3>5. QED
      BY <1>1, <1>7, <3>4 DEF Store!Stop
  <2>6. CASE w # SLOT_MAGIC
    <3>1. used_slots[idx] # SLOT_MAGIC
      BY <1>7 DEF FreshSlot
    <3>2. idx \in 0 .. MAX_CONFS
      BY <2>1, SizeAssumption DEF Slots
    <3>3. Ends(used_slots, idx) /\ Ends(used_slots', idx)
      BY <2>1, <2>3, <2>4, <2>6, <3>1, SizeAssumption DEF Ends, Solid, Slots
    <3>4. RunLength = idx /\ RunLength' = idx
      BY <3>2, <3>3, OneEnd, RunIsEnd
    <3>5. QED
      BY <1>3, <1>7, <3>4 DEF StoredConfig, CheckMagic
  <2>7. QED
    BY <2>5, <2>6
<1>8. CASE /\ pc = "conf" /\ badSub = {} /\ UNCHANGED <<magic, used_slots, badSub>>
           /\ \E w \in HalfProgrammed(confs[idx][n], configs[n]) :
                confs' = [confs EXCEPT ![idx][n] = w]
  <2>1. /\ CheckMagic /\ Solid(idx) /\ idx \in Slots /\ used_slots[idx] = SLOT_MAGIC
        /\ \A j \in ConfIdx : j >= n => confs[idx][j] = Erased
        /\ \A j \in ConfIdx : j < n => confs[idx][j] = configs[j]
    BY <1>8, SaveStands
  <2>2. n \in ConfIdx /\ n \in Nat /\ configs \in Config /\ confs \in [Slots -> Config]
    BY <1>8, SizeAssumption DEF TypeOK, Turns, ConfIdx
  <2>3. PICK w \in HalfProgrammed(confs[idx][n], configs[n]) :
          confs' = [confs EXCEPT ![idx][n] = w]
    BY <1>8
  <2>4. w \subseteq configs[n]
    <3>1. confs[idx][n] = Erased
      BY <2>1, <2>2
    <3>2. QED
      BY <2>3, <3>1 DEF HalfProgrammed, Erased
  <2>5. PICK v : v = confs'[idx]
    OBVIOUS
  <2>6. v = [confs[idx] EXCEPT ![n] = w] /\ confs[idx] \in [ConfIdx -> Word]
    BY <2>1, <2>2, <2>3, <2>5 DEF Config
  <2>7. v \in Config
    <3>1. w \in Word
      BY <2>2, <2>4 DEF Config, Word
    <3>2. QED
      BY <2>2, <2>6, <3>1 DEF Config
  <2>8. v[n] = w /\ \A j \in ConfIdx : j # n => v[j] = confs[idx][j]
    BY <2>2, <2>6
  <2>9. Store!BeginningOf(v, configs)
    <3>1. /\ \A j \in ConfIdx : j < n => v[j] = configs[j]
          /\ \A j \in ConfIdx : j > n => v[j] = Erased
      BY <2>1, <2>2, <2>8, SizeAssumption DEF ConfIdx
    <3>2. QED
      BY <2>2, <2>4, <2>7, <2>8, <3>1, Beginning
  <2>10. StoredConfig' = v
    <3>1. RunLength' = idx + 1
      BY <1>8, <2>1, LastMark, RunIsEnd, SizeAssumption DEF Solid, Slots
    <3>2. QED
      BY <1>8, <2>1, <2>5, <3>1, SizeAssumption DEF StoredConfig, CheckMagic, Slots
  <2>11. QED
    BY <1>1, <1>8, <2>9, <2>10 DEF Store!Stop
<1>9. CASE pc \in {"slot", "conf"} /\ badSub # {} /\ badSub' = badSub
  BY <1>2, <1>9
<1>10. QED
  BY <1>4, <1>5, <1>6, <1>7, <1>8, <1>9 DEF PowerOff, Interrupted

\* Every step of the log is a step of ConfigStore, or none.
LEMMA StoreStep ==
  ASSUME ~Faults, StoreInv, StoreInv', [Next]_vars PROVE [Store!Next]_(Store!vars)
<1>1. TypeOK /\ LogInv /\ SaveInv /\ EraseInv /\ FreshSlot /\ TypeOK'
  BY DEF StoreInv, ReadBackInv
<1>2. CASE ReadConfigs
  <2>1. StoredConfig' = StoredConfig /\ badSub' = badSub
    BY <1>2, StoredKept DEF ReadConfigs, flash
  <2>2. QED
    BY <1>1, <1>2, <2>1, StoreTypesNext DEF ReadConfigs, Store!Choose, Store!Next
<1>3. ASSUME NEW c \in [ConfIdx -> ConfWord], Edit(c) PROVE Store!Next
  <2>1. StoredConfig' = StoredConfig /\ badSub' = badSub
    BY <1>3, StoredKept DEF Edit, flash
  <2>2. QED
    BY <1>1, <1>3, <2>1, StoreTypesNext DEF Edit, Store!Choose, Store!Next
<1>4. CASE SaveConfigs
  <2>1. StoredConfig' = StoredConfig /\ badSub' = badSub
    BY <1>4, StoredKept DEF SaveConfigs, flash
  <2>2. QED
    BY <1>4, <2>1 DEF SaveConfigs, Store!Ask, Store!Next
<1>5. CASE EraseSector
  BY <1>1, <1>5, StoreErase DEF Store!Next
<1>6. CASE WriteMagic
  BY <1>1, <1>6, StoreMagic
<1>7. CASE WriteSlot /\ badSub = {}
  BY <1>1, <1>7, StoreSlot DEF Store!Next
<1>8. CASE WriteConf /\ badSub = {}
  BY <1>1, <1>8, StoreConf DEF Store!Next
<1>9. CASE (WriteSlot \/ WriteConf) /\ badSub # {}
  <2>1. pc' \in {"conf", "done"} /\ badSub' = badSub
    BY <1>9 DEF WriteSlot, WriteConf, Advance
  <2>2. QED
    BY <1>1, <1>9, <2>1, StoreTypesNext DEF Store!Unreliable, Store!Next
<1>10. CASE PowerOff
  BY <1>1, <1>10, StorePowerOff DEF Store!Next
<1>11. CASE UNCHANGED vars
  BY <1>11, StoredKept DEF vars, Store!vars
<1>12. QED
  BY <1>2, <1>3, <1>4, <1>5, <1>6, <1>7, <1>8, <1>9, <1>10, <1>11 DEF Next

\* On cells that work the log implements ConfigStore, for logs, configurations and
\* sub-sectors of every size: no interleaving of saves and power failures shows a
\* reader a mixture of configurations, or an older one than the last saved
\* (scsfw_config.c:36-109).
THEOREM StoreRefined == ~Faults => (Spec => ImplementsStore)
<1>1. Init => Store!Init
  BY StoreInit
<1>2. ~Faults /\ StoreInv /\ StoreInv' /\ [Next]_vars => [Store!Next]_(Store!vars)
  BY StoreStep
<1>3. SUFFICES ASSUME ~Faults PROVE Spec => ImplementsStore
  OBVIOUS
<1>4. StoreInv /\ StoreInv' /\ [Next]_vars => [Store!Next]_(Store!vars)
  BY <1>2, <1>3
<1>5. QED
  BY <1>1, <1>4, StoreInvariance, PTL DEF Spec, ImplementsStore, Store!Spec
=============================================================================
