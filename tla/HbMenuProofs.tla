---------------------------- MODULE HbMenuProofs ----------------------------
(***************************************************************************)
(* What holds of the menu for every number of hotkeys and every set of     *)
(* paths, by proof.  The store's promise, ConfigStore, is what the steps   *)
(* of a save rely on.                                                      *)
(***************************************************************************)
EXTENDS HbMenu, SequenceTheorems, TLAPS

\* The store is busy exactly while hbmenu saves.
PhaseInv == phase = "idle" <=> pc # "saving"

\* The copy in RAM is the stored configuration unless `changed' is set.
StoredInv == pc \in {"keys", "config", "loading", "dumping"} /\ ~changed => configs = value

LeftInv == pc = "left" => configs = value

\* The lines read so far are in tmpConfs, unless one of them was too long.
LoadInv ==
  pc = "loading" =>
    /\ k <= Len(file)
    /\ \/ \E j \in ConfIdx : j < k /\ file[j + 1] = Unterminated
       \/ \A j \in ConfIdx : j < k => tmp[j] = file[j + 1]

Inv == TypeOK /\ file \in Seq(Word) /\ PhaseInv /\ StoredInv /\ LeftInv /\ LoadInv

-----------------------------------------------------------------------------
\* Facts about the operators

\* Every line is a word.
LEMMA LineWord == Line \subseteq Word /\ Empty \in Word /\ Unterminated \in Word
BY PathsAssumption DEF Line, Word, Empty, Unterminated

\* The empty configuration is one.
LEMMA NoConfigType == NoConfig \in Config
BY LineWord DEF NoConfig, Config

\* strcpy's overflow leaves a configuration.
LEMMA CopiedType ==
  ASSUME TypeOK, NEW j \in ConfIdx, NEW l \in Word
  PROVE  Copied(j, l) \in Config
<1>1. CASE l = Unterminated
  <2> DEFINE member(m) == CASE m = j -> Unterminated
                            [] j # 0 /\ m = (j + 1) % ConfLen -> Empty
                            [] OTHER -> tmp[m]
  <2>1. ASSUME NEW m \in ConfIdx PROVE member(m) \in Word
    <3>1. tmp[m] \in Word
      BY DEF TypeOK, Config
    <3>2. QED
      BY <3>1, LineWord, ZenonT(30)
  <2>2. Copied(j, l) = [m \in ConfIdx |-> member(m)]
    BY <1>1 DEF Copied
  <2>3. QED
    BY <2>1, <2>2 DEF Config
<1>2. CASE l # Unterminated
  BY <1>2 DEF Copied, TypeOK, Config
<1>3. QED
  BY <1>1, <1>2

\* A file is a sequence of words.
LEMMA FilesLines == Files \subseteq Seq(Word) /\ <<>> \in Seq(Word)
<1>1. ASSUME NEW m \in 0 .. ConfLen, NEW f \in [1 .. m -> Line] PROVE f \in Seq(Word)
  BY HotkeysAssumption, LineWord
<1>2. QED
  BY <1>1 DEF Files

\* So is what a card keeps of one.
LEMMA KeptLines == ASSUME NEW f \in Seq(Word) PROVE Kept(f) \subseteq Seq(Word)
<1>1. ASSUME NEW m \in 0 .. Len(f) PROVE SubSeq(f, 1, m) \in Seq(Word) /\ Len(SubSeq(f, 1, m)) = m
  <2>1. m \in Int /\ 1 \in Int /\ \A i \in 1 .. m : f[i] \in Word
    OBVIOUS
  <2>2. /\ SubSeq(f, 1, m) \in Seq(Word)
        /\ Len(SubSeq(f, 1, m)) = IF 1 <= m THEN m - 1 + 1 ELSE 0
    BY <2>1, SubSeqProperties
  <2>3. QED
    BY <2>2
<1>2. ASSUME NEW m \in 1 .. Len(f), NEW l \in Paths
      PROVE  [SubSeq(f, 1, m) EXCEPT ![m] = l] \in Seq(Word)
  <2>1. SubSeq(f, 1, m) \in Seq(Word) /\ m \in 1 .. Len(SubSeq(f, 1, m)) /\ l \in Word
    BY <1>1, LineWord DEF Line
  <2>2. QED
    BY <2>1, ExceptSeq
<1>3. SUFFICES ASSUME NEW g \in Kept(f) PROVE g \in Seq(Word)
  OBVIOUS
<1>4. CASE \E m \in 0 .. Len(f) : g = SubSeq(f, 1, m)
  BY <1>1, <1>4, Zenon
<1>5. CASE \E m \in 1 .. Len(f), l \in Paths : g = [SubSeq(f, 1, m) EXCEPT ![m] = l]
  BY <1>2, <1>5, Zenon
<1>6. \/ g \in {SubSeq(f, 1, m) : m \in 0 .. Len(f)}
      \/ g \in {[SubSeq(f, 1, m) EXCEPT ![m] = l] : m \in 1 .. Len(f), l \in Paths}
  BY <1>3 DEF Kept
<1>7. g \in {SubSeq(f, 1, m) : m \in 0 .. Len(f)} => \E m \in 0 .. Len(f) : g = SubSeq(f, 1, m)
  OBVIOUS
<1>8. g \in {[SubSeq(f, 1, m) EXCEPT ![m] = l] : m \in 1 .. Len(f), l \in Paths}
      => \E m \in 1 .. Len(f), l \in Paths : g = [SubSeq(f, 1, m) EXCEPT ![m] = l]
  OBVIOUS
<1>9. QED
  BY <1>4, <1>5, <1>6, <1>7, <1>8

-----------------------------------------------------------------------------
\* The invariant

\* It holds at the start.
LEMMA InitInv == Init => Inv
<1> SUFFICES ASSUME Init PROVE Inv
  OBVIOUS
<1>1. Flash!Init /\ changed = FALSE /\ pc = "boot" /\ irqs = TRUE /\ tmp = NoConfig /\ k = 0
  BY DEF Init
<1>2. value \in Config /\ configs \in Config /\ phase = "idle" /\ damaged = FALSE
  <2>1. Flash!DefaultConfig \in Config
    BY LineWord DEF Flash!DefaultConfig, Flash!ConfIdx, ConfIdx, Config, Empty
  <2>2. Flash!Config = Config
    BY DEF Flash!Config, Config, Flash!ConfIdx, ConfIdx, Word
  <2>3. QED
    BY <1>1, <2>1, <2>2 DEF Flash!Init
<1>3. file \in Seq(Word)
  BY FilesLines DEF Init
<1>4. 0 \in 0 .. ConfLen
  BY HotkeysAssumption
<1>5. TypeOK
  BY <1>1, <1>2, <1>4, NoConfigType, Zenon DEF TypeOK
<1>6. QED
  BY <1>1, <1>2, <1>3, <1>5 DEF Inv, PhaseInv, StoredInv, LeftInv, LoadInv

\* Start-up, the browser and the launch keep it.
LEMMA StartSteps ==
  ASSUME Inv, ReadConfigs \/ GetExecPath \/ Browse \/ Launch \/ Continue \/ Cancel \/ Leave
  PROVE  Inv'
BY DEF Inv, TypeOK, PhaseInv, StoredInv, LeftInv, LoadInv, ReadConfigs, GetExecPath, Browse, Launch,
  Continue, Cancel, Leave, Goto, store, menu

\* An edit is marked.
LEMMA EditStep == ASSUME Inv, EditEntry PROVE Inv'
<1>1. PICK j \in ConfIdx, w \in Paths \cup {Empty} : Assign(j, w)
  BY DEF EditEntry
<1>2. w \in Word
  BY LineWord DEF Line
<1>3. configs' \in Config /\ changed' = TRUE
  BY <1>1, <1>2 DEF Assign, Inv, TypeOK, Config
<1>4. pc = "config" /\ UNCHANGED <<store, pc, irqs, exists, file, tmp, k>>
  BY DEF EditEntry
<1>5. QED
  BY <1>3, <1>4 DEF Inv, TypeOK, PhaseInv, StoredInv, LeftInv, LoadInv, store

\* A load begins with nothing read.
LEMMA OpenStep == ASSUME Inv, OpenFile PROVE Inv'
<1>1. /\ tmp' = NoConfig /\ k' = 0 /\ UNCHANGED <<value, phase, damaged, configs, changed, irqs, file>>
      /\ pc = "config" /\ pc' \in {"config", "loading"}
  BY DEF OpenFile, Goto, store, menu
<1>2. Len(file) >= 0
  BY DEF Inv
<1>3. \A j \in ConfIdx : ~(j < 0)
  BY DEF ConfIdx
<1>4. LoadInv'
  BY <1>1, <1>2, <1>3 DEF LoadInv
<1>5. TypeOK'
  BY <1>1, NoConfigType, HotkeysAssumption DEF Inv, TypeOK
<1>6. QED
  BY <1>1, <1>4, <1>5 DEF Inv, PhaseInv, StoredInv, LeftInv

\* A line that is read arrives in tmpConfs or is too long.
LEMMA ReadStep == ASSUME Inv, ReadLine PROVE Inv'
<1>1. UNCHANGED <<value, phase, damaged, irqs, exists, file>> /\ pc = "loading"
  BY DEF ReadLine, store
<1>2. CASE k < ConfLen /\ k < Len(file) /\ tmp' = Copied(k, file[k + 1]) /\ k' = k + 1
           /\ UNCHANGED <<menu, pc>>
  <2>1. k \in ConfIdx /\ k + 1 \in 0 .. ConfLen /\ k + 1 <= Len(file)
    BY <1>2, HotkeysAssumption DEF Inv, TypeOK, ConfIdx
  <2>2. file[k + 1] \in Word
    BY <2>1 DEF Inv, ConfIdx
  <2>3. tmp' \in Config
    BY <1>2, <2>1, <2>2, CopiedType DEF Inv
  <2>4. \/ \E j \in ConfIdx : j < k + 1 /\ file[j + 1] = Unterminated
        \/ \A j \in ConfIdx : j < k + 1 => tmp'[j] = file[j + 1]
    <3>1. CASE file[k + 1] = Unterminated
      BY <2>1, <3>1 DEF ConfIdx
    <3>2. CASE file[k + 1] # Unterminated
      <4>1. tmp' = [tmp EXCEPT ![k] = file[k + 1]]
        BY <1>2, <3>2 DEF Copied
      <4>2. \A j \in ConfIdx : tmp'[j] = IF j = k THEN file[k + 1] ELSE tmp[j]
        BY <4>1 DEF Inv, TypeOK, Config
      <4>3. \A j \in ConfIdx : j < k + 1 => j < k \/ j = k
        BY <2>1 DEF ConfIdx
      <4>4. \A j \in ConfIdx : j < k => j < k + 1 /\ j # k
        BY <2>1 DEF ConfIdx
      <4>5. QED
        BY <1>1, <4>2, <4>3, <4>4 DEF Inv, LoadInv
    <3>3. QED
      BY <3>1, <3>2
  <2>5. LoadInv'
    BY <1>1, <1>2, <2>1, <2>4 DEF LoadInv
  <2>6. QED
    BY <1>1, <1>2, <2>1, <2>3, <2>5 DEF Inv, TypeOK, PhaseInv, StoredInv, LeftInv, menu
<1>3. CASE pc' = "config" /\ UNCHANGED <<tmp, k>>
           /\ (UNCHANGED menu \/ (configs' = tmp /\ changed' = TRUE))
  BY <1>1, <1>3 DEF Inv, TypeOK, PhaseInv, StoredInv, LeftInv, LoadInv, menu
<1>4. \/ /\ k < ConfLen /\ k < Len(file) /\ tmp' = Copied(k, file[k + 1]) /\ k' = k + 1
         /\ UNCHANGED <<menu, pc>>
      \/ /\ pc' = "config" /\ UNCHANGED <<tmp, k>>
         /\ UNCHANGED menu \/ (configs' = tmp /\ changed' = TRUE)
  BY DEF ReadLine, menu
<1>5. QED
  BY <1>2, <1>3, <1>4

\* A dump changes the file alone.
LEMMA DumpSteps == ASSUME Inv, CreateFile \/ WriteLine PROVE Inv'
<1>1. /\ UNCHANGED <<value, phase, damaged, configs, changed, irqs, tmp>>
      /\ pc \in {"config", "dumping"} /\ pc' \in {"config", "dumping"}
  BY DEF CreateFile, WriteLine, Goto, store, menu
<1>2. k' \in 0 .. ConfLen
  BY HotkeysAssumption DEF Inv, TypeOK, CreateFile, WriteLine
<1>3. file' \in Seq(Word)
  <2>1. CASE file' \in {file, <<>>}
    BY <2>1, FilesLines DEF Inv
  <2>2. CASE WriteLine /\ k # ConfLen
    <3>1. k \in ConfIdx
      BY <2>2, HotkeysAssumption DEF Inv, TypeOK, ConfIdx
    <3>2. PICK c \in Chunks(k) : file' = file \o c
      BY <2>2 DEF WriteLine
    <3>3. configs[k] \in Word
      BY <3>1 DEF Inv, TypeOK, Config
    <3>4. c \in Seq(Word)
      BY <3>2, <3>3, LineWord DEF Chunks, Line
    <3>5. QED
      BY <3>2, <3>4 DEF Inv
  <2>3. CASE WriteLine /\ k = ConfLen
    BY <2>3, KeptLines, HotkeysAssumption DEF WriteLine, Inv
  <2>4. QED
    BY <2>1, <2>2, <2>3 DEF CreateFile
<1>4. QED
  BY <1>1, <1>2, <1>3 DEF Inv, TypeOK, PhaseInv, StoredInv, LeftInv, LoadInv

\* A save ends with what the menu held, a skipped one had nothing to change.
LEMMA SaveSteps == ASSUME Inv, SaveAndExit \/ SaveConfigs PROVE Inv'
<1>1. UNCHANGED <<changed, irqs, exists, file, tmp, k>>
  BY DEF SaveAndExit, SaveConfigs
<1>2. Flash!Config = Config /\ Flash!DefaultConfig \in Config
  BY LineWord DEF Flash!Config, Flash!DefaultConfig, Config, Flash!ConfIdx, ConfIdx, Word, Empty
<1>3. CASE SaveAndExit
  BY <1>1, <1>3 DEF SaveAndExit, Flash!Ask, Goto, Inv, TypeOK, PhaseInv, StoredInv, LeftInv, LoadInv,
    store
<1>4. CASE SaveConfigs
  BY <1>1, <1>2, <1>4 DEF SaveConfigs, Flash!Recycle, Flash!Write, Flash!Commit, Inv, TypeOK, PhaseInv,
    StoredInv, LeftInv, LoadInv
<1>5. QED
  BY <1>3, <1>4

\* Power off leaves what the store promises.
LEMMA PowerStep == ASSUME Inv, PowerOff PROVE Inv'
<1>1. Flash!Config = Config
  BY DEF Flash!Config, Config, Flash!ConfIdx, ConfIdx, Word
<1>2. value' \in Config /\ phase' = "idle" /\ damaged' = FALSE
  BY <1>1 DEF PowerOff, Flash!Stop, Inv, TypeOK
<1>3. file' \in Seq(Word)
  BY FilesLines DEF PowerOff, Inv
<1>4. /\ pc' = "boot" /\ irqs' = TRUE /\ configs' = NoConfig /\ changed' = FALSE
      /\ tmp' = NoConfig /\ k' = 0
  BY DEF PowerOff
<1>5. 0 \in 0 .. ConfLen
  BY HotkeysAssumption
<1>6. TypeOK'
  BY <1>2, <1>4, <1>5, NoConfigType, Zenon DEF TypeOK
<1>7. QED
  BY <1>2, <1>3, <1>4, <1>6 DEF Inv, PhaseInv, StoredInv, LeftInv, LoadInv

\* A step that changes nothing keeps it.
LEMMA StutterStep == Inv /\ UNCHANGED vars => Inv'
BY DEF Inv, TypeOK, PhaseInv, StoredInv, LeftInv, LoadInv, vars

\* Every step keeps it.
LEMMA NextInv == Inv /\ [Next]_vars => Inv'
BY StartSteps, EditStep, OpenStep, ReadStep, DumpSteps, SaveSteps, PowerStep, StutterStep DEF Next

\* It always holds.
LEMMA Invariance == Spec => []Inv
BY InitInv, NextInv, PTL DEF Spec

-----------------------------------------------------------------------------
\* Every variable of the menu keeps its type, strcpy's overflow into the next
\* entry included.
THEOREM MenuTypes == Spec => []TypeOK
<1>1. Inv => TypeOK
  BY DEF Inv
<1>2. QED
  BY <1>1, Invariance, PTL

\* While `changed' is not set the menu shows what the next boot would read, so
\* that skipping the save loses nothing (configurator.cpp:234).
THEOREM SkipIsSafe == Spec => []UnchangedIsStored
<1>1. Inv => UnchangedIsStored
  BY DEF Inv, StoredInv, UnchangedIsStored
<1>2. QED
  BY <1>1, Invariance, PTL

\* After SAVE & EXIT the next boot reads what the menu showed
\* (configurator.cpp:234-238).
THEOREM SavedOnLeave == Spec => []LeftIsStored
<1>1. Inv => LeftIsStored
  BY DEF Inv, LeftInv, PhaseInv, LeftIsStored
<1>2. QED
  BY <1>1, Invariance, PTL

\* LOAD FROM FILE replaces the menu's copy by the whole file or not at all, for
\* files of every length (configurator.cpp:31-66).
THEOREM LoadsWhole == Spec => LoadsAllOrNothing
<1> DEFINE whole == pc = "loading" /\ pc' = "config" /\ configs' # configs =>
                      /\ Len(file) >= ConfLen
                      /\ \/ \E j \in ConfIdx : file[j + 1] = Unterminated
                         \/ \A j \in ConfIdx : configs'[j] = file[j + 1]
<1>1. Inv /\ [Next]_vars => [whole]_vars
  <2> SUFFICES ASSUME Inv, Next, pc = "loading", pc' = "config", configs' # configs
               PROVE  /\ Len(file) >= ConfLen
                      /\ \/ \E j \in ConfIdx : file[j + 1] = Unterminated
                         \/ \A j \in ConfIdx : configs'[j] = file[j + 1]
    OBVIOUS
  <2>1. ReadLine
    BY DEF Next, ReadConfigs, GetExecPath, Browse, Launch, Continue, EditEntry, OpenFile, CreateFile,
      WriteLine, Cancel, SaveAndExit, SaveConfigs, Leave, PowerOff, Goto
  <2>2. k = ConfLen /\ configs' = tmp
    BY <2>1 DEF ReadLine, menu
  <2>3. \A j \in ConfIdx : j < k
    BY <2>2, HotkeysAssumption DEF ConfIdx
  <2>4. QED
    BY <2>2, <2>3 DEF Inv, LoadInv
<1>2. QED
  BY <1>1, Invariance, PTL DEF Spec, LoadsAllOrNothing
=============================================================================
