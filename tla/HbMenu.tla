------------------------------- MODULE HbMenu -------------------------------
(***************************************************************************)
(* hbmenu: the hotkey start-up, the configuration menu and the launch.     *)
(*                                                                         *)
(* main reads the stored configuration and starts the program of the held  *)
(* key, or opens the configuration menu.  The menu changes a copy in RAM,  *)
(* can load it from and dump it to a file on the card, and saves it to the *)
(* flash store when it is left with SAVE & EXIT and something changed.     *)
(*                                                                         *)
(* The flash store is ConfigStore, which ScsfwConfig is checked to         *)
(* implement; `configs', the copy in RAM, is its request.  A torn erase    *)
(* (ConfigStore's Damage) is left to ScsfwConfig.                          *)
(*                                                                         *)
(* A path is a word of ConfigStore: all bits 0 is the empty path, {} (no   *)
(* bit is 0, so no terminator) is an entry of 128 bytes without a NUL.     *)
(***************************************************************************)
EXTENDS Naturals, Sequences

CONSTANTS
  Bit,          \* bits of a word, as in ConfigStore
  ConfLen,      \* hotkeys; 0 is NO BUTTON, the last member of the struct
  Paths,        \* paths the file browser and hotkeys.conf may hold
  DriverSize,   \* log2 of the DLDI driver's size (12: dldi_4K.s)
  LoaderSpace   \* log2 of the bootloader's space for it (14: io_dldi.s)

ConfIdx == 0 .. ConfLen - 1
Word == SUBSET Bit
Config == [ConfIdx -> Word]
Empty == Bit
Unterminated == {}

ASSUME HotkeysAssumption == ConfLen \in Nat /\ ConfLen >= 2
ASSUME PathsAssumption == Paths \subseteq Word \ {Unterminated, Empty}

\* What one fgets may return from hotkeys.conf: a line, or the first 128
\* characters of a longer one, without newline or terminator
Line == Paths \cup {Empty, Unterminated}

VARIABLES
  value,        \* the stored configuration
  phase,        \* the store's phase
  damaged,      \* the store's half-erased sub-sectors: none here
  configs,      \* confs of main, edited by configMenu
  changed,      \* configMenu's flag
  pc,           \* what hbmenu is doing
  irqs,         \* are interrupts enabled?
  exists,       \* is there a fat:/scsfw/hotkeys.conf?
  file,         \* what fgets after fgets returns from it
  tmp,          \* readConfigsFromFile's tmpConfs
  k             \* its loop counter

vars == <<value, phase, damaged, configs, changed, pc, irqs, exists, file, tmp, k>>
store == <<value, phase, damaged>>
menu == <<configs, changed>>

Flash == INSTANCE ConfigStore WITH request <- configs

NoConfig == [j \in ConfIdx |-> Empty]

Files == UNION {[1 .. m -> Line] : m \in 0 .. ConfLen}

Init ==
  /\ Flash!Init
  /\ changed = FALSE
  /\ pc = "boot" /\ irqs = TRUE
  /\ exists \in BOOLEAN /\ file \in IF exists THEN Files ELSE {<<>>}
  /\ tmp = NoConfig /\ k = 0

-----------------------------------------------------------------------------
\* Start-up and launch

Goto(from, to) == pc = from /\ pc' = to

\* Without a card hbmenu stops before it reads the configuration
ReadConfigs ==
  /\ \/ Goto("boot", "keys") /\ configs' = value
     \/ Goto("boot", "stopped") /\ UNCHANGED configs
  /\ UNCHANGED <<store, changed, irqs, exists, file, tmp, k>>

\* A+B opens the configuration menu whatever is stored; another key runs its
\* path when that begins with fat:/, else the file browser opens
GetExecPath ==
  /\ \/ Goto("keys", "config")
     \/ \E j \in ConfIdx :
          IF configs[j] \in Paths THEN Goto("keys", "launch") ELSE Goto("keys", "browse")
  /\ UNCHANGED <<store, menu, irqs, exists, file, tmp, k>>

\* A file is chosen in the browser
Browse ==
  /\ Goto("browse", "launch")
  /\ UNCHANGED <<store, menu, irqs, exists, file, tmp, k>>

\* Fault: the interrupts are disabled before the file is looked up.
Launch_Early ==
  /\ \/ Goto("launch", "failed") /\ irqs' = FALSE
     \/ /\ Goto("launch", IF DriverSize > LoaderSpace THEN "failed" ELSE "handoff")
        /\ irqs' = FALSE
  /\ UNCHANGED <<store, menu, exists, file, tmp, k>>

\* argsFillArray and runNdsFile.  Either fails with the interrupts enabled;
\* runNds disables them before it patches the loader with the card's driver,
\* and would return with them disabled if the driver did not fit.
Launch ==
  /\ \/ Goto("launch", "failed") /\ UNCHANGED irqs
     \/ /\ Goto("launch", IF DriverSize > LoaderSpace THEN "failed" ELSE "handoff")
        /\ irqs' = FALSE
  /\ UNCHANGED <<store, menu, exists, file, tmp, k>>

\* START (or A released) after a failed start; the loop waits for VBlank
Continue ==
  /\ Goto("failed", "browse")
  /\ irqs
  /\ UNCHANGED <<store, menu, irqs, exists, file, tmp, k>>

-----------------------------------------------------------------------------
\* The configuration menu

\* Fault: clearing an entry, or choosing what is there, does not count as a
\* change.
Assign_Unmarked(j, w) ==
  /\ configs' = [configs EXCEPT ![j] = w]
  /\ changed' = (changed \/ w # Empty)

Assign(j, w) ==
  /\ configs' = [configs EXCEPT ![j] = w]
  /\ changed' = TRUE

\* A on an entry: a file is browsed for; L or R: the entry is cleared
EditEntry ==
  /\ pc = "config"
  /\ \E j \in ConfIdx, w \in Paths \cup {Empty} : Assign(j, w)
  /\ UNCHANGED <<store, pc, irqs, exists, file, tmp, k>>

\* LOAD FROM FILE: readConfigsFromFile opens the file
OpenFile ==
  /\ \/ Goto("config", "loading") /\ exists
     \/ pc = "config" /\ ~exists /\ UNCHANGED pc
  /\ tmp' = NoConfig /\ k' = 0
  /\ UNCHANGED <<store, menu, irqs, exists, file>>

\* What strcpy of chunk l leaves in tmpConfs for entry j.  fgets takes at most
\* 128 characters, so `len > sizeof(path)' never holds: a long line fills
\* the path, and its terminator lands in the next member of the struct.
Copied(j, l) ==
  IF l = Unterminated
  THEN [i \in ConfIdx |-> CASE i = j -> Unterminated
                            [] j # 0 /\ i = (j + 1) % ConfLen -> Empty
                            [] OTHER -> tmp[i]]
  ELSE [tmp EXCEPT ![j] = l]

\* Fault: the entries read before a missing line are kept.
ReadLine_Partial ==
  /\ pc = "loading"
  /\ \/ /\ k < ConfLen /\ k < Len(file)
        /\ tmp' = Copied(k, file[k + 1]) /\ k' = k + 1
        /\ UNCHANGED <<menu, pc>>
     \/ /\ k = ConfLen \/ k = Len(file)
        /\ configs' = tmp /\ changed' = TRUE
        /\ pc' = "config"
        /\ UNCHANGED <<tmp, k>>
  /\ UNCHANGED <<store, irqs, exists, file>>

\* One turn of its loop.  A missing line ends the load, the menu's copy is
\* replaced only after the last one.
ReadLine ==
  /\ pc = "loading"
  /\ \/ /\ k = Len(file) /\ k < ConfLen
        /\ pc' = "config"
        /\ UNCHANGED <<menu, tmp, k>>
     \/ /\ k < ConfLen /\ k < Len(file)
        /\ tmp' = Copied(k, file[k + 1]) /\ k' = k + 1
        /\ UNCHANGED <<menu, pc>>
     \/ /\ k = ConfLen
        /\ configs' = tmp /\ changed' = TRUE
        /\ pc' = "config"
        /\ UNCHANGED <<tmp, k>>
  /\ UNCHANGED <<store, irqs, exists, file>>

\* SAVE TO FILE: dumpConfigsToFile makes the folder and truncates the file
CreateFile ==
  /\ \/ Goto("config", "dumping") /\ exists' = TRUE /\ file' = <<>>
     \/ pc = "config" /\ UNCHANGED <<pc, exists, file>>
  /\ k' = 0
  /\ UNCHANGED <<store, menu, irqs, tmp>>

\* What strlen finds of entry j: an unterminated one runs on into the next
Chunks(j) ==
  IF configs[j] = Unterminated
  THEN {<<Unterminated, l>> : l \in Paths \cup {Empty}}
  ELSE {<<configs[j]>>}

\* What a card takes of the lines: on one that fills up only a beginning, whose
\* last line may be cut.  No write is checked.
Kept(f) ==
  {SubSeq(f, 1, m) : m \in 0 .. Len(f)}
  \cup {[SubSeq(f, 1, m) EXCEPT ![m] = l] : m \in 1 .. Len(f), l \in Paths}

\* Fault: the loop writes one entry too many.
WriteLine_Late ==
  /\ pc = "dumping"
  /\ IF k > ConfLen
     THEN pc' = "config" /\ UNCHANGED <<k, file>>
     ELSE /\ k' = k + 1 /\ UNCHANGED <<pc, file>>
  /\ UNCHANGED <<store, menu, irqs, exists, tmp>>

\* One turn of its loop; behind the last one the file is closed
WriteLine ==
  /\ pc = "dumping"
  /\ \/ /\ k < ConfLen
        /\ \E c \in Chunks(k) : file' = file \o c
        /\ k' = k + 1 /\ UNCHANGED pc
     \/ /\ k = ConfLen
        /\ file' \in Kept(file)
        /\ pc' = "config" /\ UNCHANGED k
  /\ UNCHANGED <<store, menu, irqs, exists, tmp>>

\* CANCEL or B
Cancel ==
  /\ Goto("config", "browse")
  /\ UNCHANGED <<store, menu, irqs, exists, file, tmp, k>>

\* SAVE & EXIT
SaveAndExit ==
  /\ \/ changed /\ Goto("config", "saving") /\ Flash!Ask
     \/ ~changed /\ Goto("config", "left") /\ UNCHANGED <<store, configs>>
  /\ UNCHANGED <<changed, irqs, exists, file, tmp, k>>

\* Fault: the menu is left before the configuration itself is written.
SaveConfigs_Early ==
  /\ pc = "saving"
  /\ \/ Flash!Recycle /\ UNCHANGED pc
     \/ Flash!Write /\ pc' = "left"
     \/ Flash!Commit /\ pc' = "left"
  /\ UNCHANGED <<changed, irqs, exists, file, tmp, k>>

\* save_configs, then "Saved"
SaveConfigs ==
  /\ pc = "saving"
  /\ \/ Flash!Recycle /\ UNCHANGED pc
     \/ Flash!Write /\ UNCHANGED pc
     \/ Flash!Commit /\ pc' = "left"
  /\ UNCHANGED <<changed, irqs, exists, file, tmp, k>>

Leave ==
  /\ Goto("left", "browse")
  /\ UNCHANGED <<store, menu, irqs, exists, file, tmp, k>>

\* The console is switched off or reset.  The directory entry of a file that
\* is being written gets its size when the file is closed.
PowerOff ==
  /\ Flash!Stop
  /\ pc # "boot" /\ pc' = "boot" /\ irqs' = TRUE
  /\ configs' = NoConfig /\ changed' = FALSE
  /\ file' = IF pc = "dumping" THEN <<>> ELSE file
  /\ UNCHANGED exists
  /\ tmp' = NoConfig /\ k' = 0

Next ==
  \/ ReadConfigs \/ GetExecPath \/ Browse \/ Launch \/ Continue
  \/ EditEntry \/ OpenFile \/ ReadLine \/ CreateFile \/ WriteLine
  \/ Cancel \/ SaveAndExit \/ SaveConfigs \/ Leave \/ PowerOff

Spec == Init /\ [][Next]_vars

\* The user presses START at an error message
FairSpec == Spec /\ WF_vars(Continue)

-----------------------------------------------------------------------------
\* Every variable holds a value of its type.
TypeOK ==
  /\ value \in Config /\ configs \in Config /\ tmp \in Config
  /\ phase \in {"idle", "asked", "writing"} /\ damaged = FALSE
  /\ changed \in BOOLEAN /\ irqs \in BOOLEAN
  /\ pc \in {"boot", "keys", "config", "loading", "dumping", "saving", "left",
             "browse", "launch", "failed", "handoff", "stopped"}
  /\ k \in 0 .. ConfLen

\* What the menu shows is what the next boot would read, unless `changed' says
\* otherwise: configurator.cpp:234 may then skip the save.
UnchangedIsStored ==
  pc \in {"config", "loading", "dumping"} /\ ~changed => configs = value

\* After SAVE & EXIT the next boot reads what the menu showed
\* (configurator.cpp:234-238), however often the menu, its file and power
\* failures during earlier saves changed the two copies before.
LeftIsStored == pc = "left" => configs = value /\ phase = "idle"

\* LOAD FROM FILE takes all entries of the file or none: a file that was cut
\* short leaves the menu's copy alone (configurator.cpp:31, 60).  A line of 128
\* characters or more spoils two entries (configurator.cpp:47, 57), so that only
\* the number of lines is said of a file with one.
LoadsAllOrNothing ==
  [][pc = "loading" /\ pc' = "config" /\ configs' # configs =>
       /\ Len(file) >= ConfLen
       /\ \/ \E j \in ConfIdx : file[j + 1] = Unterminated
          \/ \A j \in ConfIdx : configs'[j] = file[j + 1]]_vars

\* main.cpp:118: "Press START to continue boot."  The loop that polls the key
\* waits for an interrupt (main.cpp:122-126), so every failed start must come
\* back with the interrupts enabled.
StartContinues == pc = "failed" ~> pc # "failed"
=============================================================================
