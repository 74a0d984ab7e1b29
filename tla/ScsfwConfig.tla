---------------------------- MODULE ScsfwConfig ----------------------------
(***************************************************************************)
(* The hotkey configuration kept in the SuperCard's NOR flash.             *)
(*                                                                         *)
(* scsfw_config.c keeps a log of MAX_CONFS configurations in one erase     *)
(* block.  A slot of used_slots is marked with SLOT_MAGIC, then the        *)
(* configuration is programmed word by word.  The configuration in force   *)
(* is the one of the last marked slot of the unbroken run from slot 0.     *)
(* When the run fills the log, or the block has no magic, the block is     *)
(* erased sub-sector by sub-sector and the log starts again at slot 0.     *)
(*                                                                         *)
(* NOR semantics: erasing sets bits to 1, programming can only clear them. *)
(* A flash word is represented by the set of its bits that are 0, so an    *)
(* erased word is {} and programming w over a word leaves the union.       *)
(* Power can fail before any step and within any program or erase          *)
(* command.                                                                *)
(***************************************************************************)
EXTENDS Naturals

CONSTANTS
  Bit,          \* bit positions of a flash word (16 in the hardware)
  MAX_CONFS,    \* slots of the log (64)
  ConfLen,      \* words of one SCSFW_CONFIGS (320: five paths of 128 bytes)
  MagicLen,     \* words of the block's magic (4)
  SubSectors,   \* erase commands sc_flash_erase_sector sends (7)
  ConfSub,      \* ConfSub[<<i, j>>]: sub-sector that holds word j of confs[i]
  MAGIC,        \* conf_magic_str, as a function of the word's index
  SLOT_MAGIC,   \* the mark of a used slot
  ConfWord,     \* words the menu may put in a configuration
  FwSub,        \* sub-sectors the firmware image reaches into
  TornErase,    \* may a power failure leave a sub-sector half erased?
  Faults        \* may an erase or program command fail (worn-out cells)?

Slots == 0 .. MAX_CONFS - 1
ConfIdx == 0 .. ConfLen - 1
MagicIdx == 0 .. MagicLen - 1
Subs == 0 .. SubSectors - 1

Word == SUBSET Bit
Erased == {}
Config == [ConfIdx -> Word]

\* default_configs: every byte 0, hence every bit cleared
DefaultConfig == [j \in ConfIdx |-> Bit]

ASSUME SizeAssumption ==
  /\ MAX_CONFS \in Nat \ {0}
  /\ ConfLen \in Nat \ {0}
  /\ MagicLen \in Nat \ {0}
  /\ SubSectors \in Nat \ {0}

\* The magic and the marks differ from erased words; magic and used_slots
\* (136 bytes) lie in the first sub-sector (0x2000 bytes), a configuration
\* may straddle two.
ASSUME LayoutAssumption ==
  /\ MAGIC \in [MagicIdx -> Word \ {Erased}]
  /\ SLOT_MAGIC \in Word \ {Erased}
  /\ ConfSub \in [Slots \X ConfIdx -> Subs]
  /\ ConfWord \subseteq Word
  /\ FwSub \subseteq Subs

ASSUME FaultAssumption == TornErase \in BOOLEAN /\ Faults \in BOOLEAN

VARIABLES
  magic,        \* SCSFW_CONFIGS_BLOCK.magic
  used_slots,   \* SCSFW_CONFIGS_BLOCK.used_slots
  confs,        \* SCSFW_CONFIGS_BLOCK.confs
  fw,           \* sub-sectors of FwSub that still hold the firmware's bytes
  pc,           \* the step the ARM9 is at
  idx,          \* save_configs' idx
  n,            \* counter of the running loop
  configs,      \* the configuration in RAM
  err,          \* has this boot printed "erase failed" or "Write failed"?
  badSub        \* sub-sectors whose last erase was interrupted or failed

flash == <<magic, used_slots, confs, fw, badSub>>
vars == <<magic, used_slots, confs, fw, pc, idx, n, configs, err, badSub>>

-----------------------------------------------------------------------------
\* Reading the block

\* check_magic
CheckMagic == \A k \in MagicIdx : magic[k] = MAGIC[k]

\* The loops of find_active_block and find_available_conf_block_idx stop at r
RunEndsAt(r) ==
  /\ \A i \in Slots : i < r => used_slots[i] = SLOT_MAGIC
  /\ r < MAX_CONFS => used_slots[r] # SLOT_MAGIC

RunLength == CHOOSE r \in 0 .. MAX_CONFS : RunEndsAt(r)

\* What read_configs copies to RAM
StoredConfig ==
  IF CheckMagic /\ RunLength > 0 THEN confs[RunLength - 1] ELSE DefaultConfig

-----------------------------------------------------------------------------
\* Flash commands

\* Words sc_flash_program may leave where the old word was w and it programs v
Programmed(w, v) == IF Faults THEN {w \cup s : s \in SUBSET v} ELSE {w \cup v}

\* Words left when power fails while v is programmed over w
HalfProgrammed(w, v) == {w \cup s : s \in SUBSET v}

\* Sub-sector k is erased
EraseSub(k) ==
  /\ magic' = IF k = 0 THEN [m \in MagicIdx |-> Erased] ELSE magic
  /\ used_slots' = IF k = 0 THEN [i \in Slots |-> Erased] ELSE used_slots
  /\ confs' = [i \in Slots |-> [j \in ConfIdx |->
                 IF ConfSub[<<i, j>>] = k THEN Erased ELSE confs[i][j]]]
  /\ fw' = fw \ {k}

\* The erase of sub-sector k does not finish: its words may be anything
SpoilSub(k) ==
  /\ magic' \in IF k = 0 THEN [MagicIdx -> Word] ELSE {magic}
  /\ used_slots' \in IF k = 0 THEN [Slots -> Word] ELSE {used_slots}
  /\ \E junk \in [{ij \in Slots \X ConfIdx : ConfSub[ij] = k} -> Word] :
       confs' = [i \in Slots |-> [j \in ConfIdx |->
                   IF ConfSub[<<i, j>>] = k THEN junk[<<i, j>>] ELSE confs[i][j]]]
  /\ fw' = fw \ {k}
  /\ badSub' = badSub \cup {k}

-----------------------------------------------------------------------------
\* The card is fresh: the block is erased, or holds other bytes without magic
Init ==
  /\ magic \in [MagicIdx -> Word] /\ ~CheckMagic
  /\ used_slots \in [Slots -> Word]
  /\ confs \in [Slots -> Config]
  /\ fw = FwSub
  /\ pc = "boot" /\ idx = 0 /\ n = 0
  /\ configs = DefaultConfig
  /\ err = FALSE
  /\ badSub = {}

\* main reads the stored configuration at start-up
ReadConfigs ==
  /\ pc = "boot"
  /\ configs' = StoredConfig
  /\ pc' = "menu"
  /\ UNCHANGED <<flash, idx, n, err>>

\* The configuration menu changes the copy in RAM
Edit(c) ==
  /\ pc = "menu"
  /\ configs' = c
  /\ UNCHANGED <<flash, pc, idx, n, err>>

\* Fault: a full log starts again at slot 0 without being erased.
SaveConfigs_Wrap ==
  /\ pc = "menu"
  /\ \/ /\ CheckMagic
        /\ pc' = "slot" /\ idx' = RunLength % MAX_CONFS
     \/ /\ ~CheckMagic
        /\ pc' = "erase" /\ idx' = 0
  /\ UNCHANGED <<flash, n, configs, err>>

\* save_configs up to its first flash command: which slot, erase first or not
SaveConfigs ==
  /\ pc = "menu"
  /\ \/ /\ CheckMagic /\ RunLength < MAX_CONFS
        /\ pc' = "slot" /\ idx' = RunLength
     \/ /\ ~CheckMagic \/ RunLength = MAX_CONFS
        /\ pc' = "erase" /\ idx' = 0
  /\ UNCHANGED <<flash, n, configs, err>>

\* Fault: the erase loop ends one sub-sector early.
Turns_Short(p) ==
  CASE p = "erase" -> SubSectors - 1
    [] p = "magic" -> MagicLen
    [] p = "conf" -> ConfLen
    [] OTHER -> 1

\* Turns of the loop that step p is in
Turns(p) ==
  CASE p = "erase" -> SubSectors
    [] p = "magic" -> MagicLen
    [] p = "conf" -> ConfLen
    [] OTHER -> 1

\* Fault: the loops run one turn too many.
Advance_Late(step) ==
  IF n < Turns(pc) THEN n' = n + 1 /\ pc' = pc ELSE n' = 0 /\ pc' = step

\* After turn n of a loop: the next turn, or the next step
Advance(step) ==
  IF n + 1 < Turns(pc) THEN n' = n + 1 /\ pc' = pc ELSE n' = 0 /\ pc' = step

\* One turn of sc_flash_erase_sector's loop.  It looks at the first word of the
\* sub-sector only: an erase that fails elsewhere prints nothing.
EraseSector ==
  /\ pc = "erase"
  /\ \/ /\ EraseSub(n)
        /\ badSub' = badSub \ {n}
        /\ UNCHANGED err
     \/ /\ Faults
        /\ SpoilSub(n)
        /\ err' \in {err, TRUE}
  /\ Advance("magic")
  /\ UNCHANGED <<idx, configs>>

\* One word of sc_flash_write, for write_conf_magic
WriteMagic ==
  /\ pc = "magic"
  /\ \E w \in Programmed(magic[n], MAGIC[n]) :
       /\ magic' = [magic EXCEPT ![n] = w]
       /\ err' = (err \/ w # MAGIC[n])
  /\ Advance("slot")
  /\ UNCHANGED <<used_slots, confs, fw, badSub, idx, configs>>

\* sc_flash_write of SLOT_MAGIC, before the configuration itself
WriteSlot ==
  /\ pc = "slot"
  /\ \E w \in Programmed(used_slots[idx], SLOT_MAGIC) :
       /\ used_slots' = [used_slots EXCEPT ![idx] = w]
       /\ err' = (err \/ w # SLOT_MAGIC)
  /\ pc' = "conf"
  /\ UNCHANGED <<magic, confs, fw, badSub, idx, n, configs>>

\* One word of sc_flash_write, for the configuration
WriteConf ==
  /\ pc = "conf"
  /\ \E w \in Programmed(confs[idx][n], configs[n]) :
       /\ confs' = [confs EXCEPT ![idx][n] = w]
       /\ err' = (err \/ w # configs[n])
  /\ Advance("done")
  /\ UNCHANGED <<magic, used_slots, fw, badSub, idx, configs>>

\* What a power failure may leave of the flash command it interrupts
Interrupted ==
  \/ UNCHANGED flash
  \/ /\ pc = "erase" /\ TornErase
     /\ SpoilSub(n)
  \/ /\ pc = "magic"
     /\ \E w \in HalfProgrammed(magic[n], MAGIC[n]) : magic' = [magic EXCEPT ![n] = w]
     /\ UNCHANGED <<used_slots, confs, fw, badSub>>
  \/ /\ pc = "slot"
     /\ \E w \in HalfProgrammed(used_slots[idx], SLOT_MAGIC) :
          used_slots' = [used_slots EXCEPT ![idx] = w]
     /\ UNCHANGED <<magic, confs, fw, badSub>>
  \/ /\ pc = "conf"
     /\ \E w \in HalfProgrammed(confs[idx][n], configs[n]) :
          confs' = [confs EXCEPT ![idx][n] = w]
     /\ UNCHANGED <<magic, used_slots, fw, badSub>>

\* The console is switched off, or loses power, at any point.  RAM is lost;
\* it is set to its initial values, which nothing reads.
PowerOff ==
  /\ pc # "boot"
  /\ Interrupted
  /\ pc' = "boot" /\ idx' = 0 /\ n' = 0
  /\ configs' = DefaultConfig
  /\ err' = FALSE

Next ==
  \/ ReadConfigs
  \/ \E c \in [ConfIdx -> ConfWord] : Edit(c)
  \/ SaveConfigs
  \/ EraseSector
  \/ WriteMagic
  \/ WriteSlot
  \/ WriteConf
  \/ PowerOff

Spec == Init /\ [][Next]_vars

-----------------------------------------------------------------------------
\* Every variable holds a value of its type.  The other invariants are stated
\* about functions of these types, for the struct of scsfw_config.c:19-23.
TypeOK ==
  /\ magic \in [MagicIdx -> Word]
  /\ used_slots \in [Slots -> Word]
  /\ confs \in [Slots -> Config]
  /\ fw \subseteq FwSub
  /\ pc \in {"boot", "menu", "erase", "magic", "slot", "conf", "done"}
  /\ idx \in Slots
  /\ pc \in {"erase", "magic"} => idx = 0
  /\ n \in 0 .. Turns(pc) - 1
  /\ configs \in Config
  /\ err \in BOOLEAN
  /\ badSub \subseteq Subs

\* A save that ends without an error message is the configuration that the
\* next boot reads, whatever power failures, failed commands and torn
\* configurations earlier saves left in the log, as long as the first
\* sub-sector's last erase ran to its end.
SavedIsReadBack ==
  pc = "done" /\ ~err /\ 0 \notin badSub => StoredConfig = configs

\* On cells that work, a save meets only erased words and, at most, a mark that
\* was half written before: no power failure makes a later save program over an
\* earlier configuration, so sc_flash_write's check never fails.
NeverOverwrites ==
  ~Faults /\ badSub = {} => ~err

\* README.md:80-83 allows a firmware image that reaches beyond 0x70000; its
\* bytes should survive what the menu does.
FirmwareKept == fw = FwSub

-----------------------------------------------------------------------------
\* The store as the menu sees it: ConfigStore's value is what a boot would
\* read, its request is the menu's copy.
Store == INSTANCE ConfigStore WITH
  value <- StoredConfig,
  request <- configs,
  phase <- CASE pc \in {"erase", "magic", "slot"} -> "asked"
             [] pc = "conf" -> "writing"
             [] OTHER -> "idle",
  damaged <- badSub # {}

\* With working cells the log implements ConfigStore: no interleaving of saves
\* and power failures shows a reader a mixture of configurations, or an older
\* configuration than the last one saved.
ImplementsStore == Store!Spec
=============================================================================
