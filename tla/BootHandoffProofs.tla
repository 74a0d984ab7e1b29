------------------------- MODULE BootHandoffProofs --------------------------
(***************************************************************************)
(* What holds of BootHandoff for functions of every length, by proof.      *)
(*                                                                         *)
(* The ARM7's step says what the entry word holds, which function lies in  *)
(* TEMP_MEM and where the ARM9 may be: HandInv is that table.  The         *)
(* interesting lines are those of the steps in which both CPUs may be      *)
(* active, "copy", "wait" and "load".                                      *)
(***************************************************************************)
EXTENDS BootHandoff, TLAPS

\* TEMP_MEM holds the whole function that the ARM7 installs.
Installed == \A k \in CodeIdx : temp[k] = fn7

\* The ARM9 is at the branch back to the loop, or in the loop.
Back ==
  \/ at9 = "loop"
  \/ /\ at9 = "temp" /\ ip9 = CodeLen - 1
     /\ fn9 \in {"resetMemory2", "mpu_reset"} /\ temp[ip9] = fn9

\* It has not entered the function the ARM7 installs.
Outside == at9 \in {"reset", "loop"}

\* It waits in startBinary_ARM9 for the flag.
Parked == at9 = "temp" /\ fn9 = "startBinary" /\ ip9 = CodeLen - 2 /\ startFlag = 0

HandInv ==
  /\ at9 \in {"menu", "vector set"} <=> pc7 = "menu"
  /\ at9 # "lost"
  /\ pc7 \in {"menu", "init", "restart"} => fn7 = "resetMemory2" /\ k7 = 0
  /\ at9 = "vector set" => entry = "loop"
  /\ pc7 \in {"init", "restart"} => entry = "loop" /\ Outside
  /\ pc7 = "copy" =>
       /\ entry = "loop"
       /\ \A k \in CodeIdx : k < k7 => temp[k] = fn7
       /\ Outside \/ (Back /\ k7 <= 1)
  /\ pc7 # "copy" => k7 = 0
  /\ pc7 = "point" => Installed /\ entry = "loop" /\ Outside
  /\ pc7 = "wait" =>
       /\ Installed /\ fn7 # "startBinary"
       /\ \/ entry = "temp" /\ Outside
          \/ entry = "temp" /\ at9 = "temp" /\ fn9 = fn7 /\ ip9 < CodeLen - 1
          \/ entry = "loop" /\ Back
  /\ pc7 = "resetMemory" => entry = "loop" /\ Back
  /\ pc7 \in {"load", "load7", "header"} =>
       /\ Installed /\ fn7 = "startBinary" /\ entry = "temp"
       /\ \/ Outside
          \/ /\ at9 = "temp" /\ fn9 = "startBinary" /\ ip9 <= CodeLen - 2
             /\ ip9 > 0 => startFlag = 0
  /\ pc7 \in {"patch", "args", "start"} =>
       Installed /\ fn7 = "startBinary" /\ entry = "zero" /\ Parked
  /\ pc7 = "flag" =>
       Installed /\ fn7 = "startBinary" /\ entry = "arm9 entry" /\ Parked
  /\ pc7 \in {"jump", "program"} =>
       /\ Installed /\ fn7 = "startBinary" /\ entry = "arm9 entry" /\ startFlag = 1
       /\ \/ at9 = "program"
          \/ at9 = "temp" /\ fn9 = "startBinary" /\ ip9 >= CodeLen - 2

\* The parts arrive in the order of the ARM7's steps.
PlacedInv ==
  /\ ~wantPatch => "dldi" \in placed
  /\ pc7 \in {"load7", "header", "patch", "args", "start", "flag", "jump", "program"} =>
       "arm9" \in placed
  /\ pc7 \in {"header", "patch", "args", "start", "flag", "jump", "program"} =>
       "arm7" \in placed
  /\ pc7 \in {"patch", "args", "start", "flag", "jump", "program"} => "header" \in placed
  /\ pc7 \in {"args", "start", "flag", "jump", "program"} => "dldi" \in placed
  /\ pc7 \in {"start", "flag", "jump", "program"} => "argv" \in placed

Inv == TypeOK /\ HandInv /\ PlacedInv

\* The positions in TEMP_MEM that the steps name are different ones.
LEMMA Positions ==
  /\ 0 \in CodeIdx /\ CodeLen - 1 \in CodeIdx /\ CodeLen - 2 \in CodeIdx
  /\ CodeLen - 2 > 0 /\ CodeLen - 1 > 1
  /\ 0 < CodeLen - 1 /\ 0 <= CodeLen - 2 /\ ~(0 > 0) /\ 0 <= 1
  /\ CodeLen - 2 >= CodeLen - 2
  /\ \A k \in CodeIdx : k \in Nat /\ k <= CodeLen - 1
BY CodeLenAssumption DEF CodeIdx

\* A position that is not the last one has a successor.
LEMMA Successor ==
  \A k \in CodeIdx : /\ k # CodeLen - 1 => k + 1 \in CodeIdx
                     /\ k + 1 < CodeLen => k + 1 \in CodeIdx
                     /\ k >= CodeLen - 2 => k # 0 /\ k + 1 >= CodeLen - 2
BY CodeLenAssumption DEF CodeIdx

\* hbmenu runs on both CPUs.
LEMMA InitInv == Init => Inv
BY Positions DEF Init, Inv, TypeOK, HandInv, PlacedInv, Functions, Parts

\* Only the program's own entry leads the ARM9 into the program.
LEMMA JumpTarget == JumpToEntry /\ at9' = "program" => entry = "arm9 entry"
BY Zenon DEF JumpToEntry

\* Every step keeps the types.
LEMMA NextType == TypeOK /\ [Next]_vars => TypeOK'
<1> SUFFICES ASSUME TypeOK, [Next]_vars PROVE TypeOK'
  OBVIOUS
<1>1. CASE Arm9
  <2>1. ASSUME JumpToEntry, UNCHANGED <<vars7, entry, temp, wantPatch>>, startFlag' \in {0, 1}
        PROVE  TypeOK'
    BY <2>1, Positions DEF TypeOK, JumpToEntry, vars7
  <2>2. CASE SetVector
    BY <2>2 DEF TypeOK, SetVector, vars7
  <2>3. CASE ResetArm7
    BY <2>3 DEF TypeOK, ResetArm7
  <2>4. CASE FollowEntry
    BY <2>1, <2>4 DEF TypeOK, FollowEntry
  <2>5. CASE ResetWord
    <3>1. ip9 # CodeLen - 1 => ip9 + 1 \in CodeIdx
      BY Successor DEF TypeOK
    <3>2. QED
      BY <2>5, <3>1 DEF TypeOK, ResetWord, vars7
  <2>6. CASE StartWord
    <3>1. ip9 # CodeLen - 1 => ip9 + 1 \in CodeIdx
      BY Successor DEF TypeOK
    <3>2. startFlag' \in {0, 1}
      BY <2>6 DEF TypeOK, StartWord
    <3>3. CASE ip9 = CodeLen - 1
      BY <2>1, <2>6, <3>2, <3>3 DEF StartWord
    <3>4. CASE ip9 # CodeLen - 1
      BY <2>6, <3>1, <3>2, <3>4 DEF TypeOK, StartWord, vars7
    <3>5. QED
      BY <3>3, <3>4
  <2>7. QED
    BY <1>1, <2>2, <2>3, <2>4, <2>5, <2>6 DEF Arm9
<1>2. CASE Arm7
  <2>1. CASE InitFiles
    BY <2>1 DEF TypeOK, InitFiles, Goto7, vars9
  <2>2. CASE CopyWord
    <3>1. k7 + 1 < CodeLen => k7 + 1 \in CodeIdx
      BY Successor DEF TypeOK
    <3>2. QED
      BY <2>2, <3>1, Positions DEF TypeOK, CopyWord, Goto7, vars9
  <2>3. CASE Point \/ Await \/ ResetMemory
    BY <2>3 DEF TypeOK, Point, Await, ResetMemory, Goto7, vars9, Functions
  <2>4. CASE LoadBinary \/ LoadHeader
    BY <2>4 DEF TypeOK, LoadBinary, LoadHeader, Goto7, vars9, Parts
  <2>5. CASE PatchAndArgs \/ StartBinary7
    BY <2>5 DEF TypeOK, PatchAndArgs, StartBinary7, Goto7, vars9, Parts
  <2>6. QED
    BY <1>2, <2>1, <2>2, <2>3, <2>4, <2>5 DEF Arm7
<1>3. CASE UNCHANGED vars
  BY <1>3 DEF vars, TypeOK
<1>4. QED
  BY <1>1, <1>2, <1>3 DEF Next

\* A step of the ARM9 fits the ARM7's step.
LEMMA HandInvArm9 ==
  ASSUME TypeOK, HandInv, Arm9
  PROVE  HandInv'
<1>1. CASE SetVector
  BY <1>1 DEF SetVector, HandInv, Outside, Back, vars7
<1>2. CASE ResetArm7
  BY <1>2 DEF ResetArm7, HandInv, Outside, Back, Installed
<1>3. CASE FollowEntry
  <2>1. UNCHANGED <<pc7, fn7, k7, entry, startFlag, temp>> /\ Outside
    BY <1>3 DEF FollowEntry, vars7, Outside
  <2>2. CASE entry = "loop"
    BY <1>3, <2>1, <2>2 DEF FollowEntry, JumpToEntry, HandInv, Outside, Back, Installed, Parked
  <2>3. CASE entry # "loop"
    <3>1. pc7 \in {"wait", "load", "load7", "header"} /\ entry = "temp" /\ Installed
      BY <2>1, <2>3 DEF HandInv, Outside, Back, Parked, TypeOK
    <3>2. at9' = "temp" /\ fn9' = fn7 /\ ip9' = 0
      BY <1>3, <3>1, Positions DEF FollowEntry, JumpToEntry, Installed
    <3>3. CASE pc7 = "wait"
      <4>1. ip9' < CodeLen - 1 /\ fn7 # "startBinary" /\ k7 = 0
        BY <3>2, <3>3, Positions DEF HandInv
      <4>2. QED
        BY <2>1, <3>1, <3>2, <3>3, <4>1 DEF HandInv, Installed
    <3>4. CASE pc7 \in {"load", "load7", "header"}
      <4>1. /\ ip9' <= CodeLen - 2 /\ ~(ip9' > 0)
            /\ fn7 = "startBinary" /\ k7 = 0
        BY <3>2, <3>4, Positions DEF HandInv
      <4>2. QED
        BY <2>1, <3>1, <3>2, <3>4, <4>1 DEF HandInv, Installed
    <3>5. QED
      BY <3>1, <3>3, <3>4
  <2>4. QED
    BY <2>2, <2>3
<1>4. CASE ResetWord
  <2>1. UNCHANGED <<pc7, fn7, k7, startFlag, temp, fn9>> /\ at9 = "temp"
    BY <1>4 DEF ResetWord, vars7
  <2>2. temp[ip9] # "startBinary" /\ ip9 \in CodeIdx
    BY <1>4 DEF ResetWord, TypeOK
  <2>3. ~Installed \/ fn7 # "startBinary"
    BY <2>2 DEF Installed
  <2>4. pc7 \in {"copy", "wait", "resetMemory"}
    BY <2>1, <2>3 DEF HandInv, Outside, TypeOK
  <2>5. CASE ip9 = CodeLen - 1
    <3>1. at9' = "loop" /\ UNCHANGED entry /\ entry = "loop"
      <4>1. ~(ip9 < CodeLen - 1)
        BY <2>5, Positions
      <4>2. entry = "loop"
        BY <2>1, <2>4, <4>1 DEF HandInv, Outside
      <4>3. QED
        BY <1>4, <2>5, <4>2 DEF ResetWord
    <3>2. QED
      BY <2>1, <2>4, <3>1 DEF HandInv, Outside, Back, Installed
  <2>6. CASE ip9 # CodeLen - 1
    <3>1. /\ pc7 = "wait" /\ fn9 = fn7 /\ ip9 < CodeLen - 1 /\ entry = "temp"
          /\ Installed /\ fn7 # "startBinary"
      BY <2>1, <2>4, <2>6 DEF HandInv, Outside, Back
    <3>2. at9' = "temp" /\ ip9' = ip9 + 1 /\ entry' = IF ip9 = CodeLen - 2 THEN "loop" ELSE entry
      BY <1>4, <2>1, <2>6 DEF ResetWord
    <3>3. CASE ip9 = CodeLen - 2
      <4>1. ip9' = CodeLen - 1 /\ entry' = "loop"
        BY <3>2, <3>3, CodeLenAssumption
      <4>2. Back'
        BY <2>1, <3>1, <3>2, <4>1, Positions DEF Back, Installed, TypeOK, Functions
      <4>3. QED
        BY <2>1, <3>1, <3>2, <4>1, <4>2 DEF HandInv, Installed
    <3>4. CASE ip9 # CodeLen - 2
      <4>1. ip9' < CodeLen - 1
        BY <2>2, <3>1, <3>2, <3>4, CodeLenAssumption DEF CodeIdx
      <4>2. QED
        BY <2>1, <3>1, <3>2, <3>4, <4>1 DEF HandInv, Installed
    <3>5. QED
      BY <3>3, <3>4
  <2>7. QED
    BY <2>5, <2>6
<1>5. CASE StartWord
  <2>1. UNCHANGED <<pc7, fn7, k7, entry, temp>> /\ at9 = "temp"
    BY <1>5 DEF StartWord, vars7
  <2>2. temp[ip9] = "startBinary" /\ ip9 \in CodeIdx
    BY <1>5 DEF StartWord, TypeOK
  <2>3. pc7 \notin {"menu", "init", "restart", "copy", "point", "wait", "resetMemory"}
    BY <2>1, <2>2 DEF HandInv, Outside, Back, Installed
  <2>4. fn7 = "startBinary" /\ Installed /\ fn9 = "startBinary"
    BY <2>1, <2>3 DEF HandInv, Outside, Parked, TypeOK
  <2>5. CASE pc7 \in {"load", "load7", "header"}
    <3>1. ip9 <= CodeLen - 2 /\ (ip9 > 0 => startFlag = 0) /\ entry = "temp"
      BY <2>1, <2>5 DEF HandInv, Outside
    <3>2. ip9 # CodeLen - 2
      BY <1>5, <3>1, Positions DEF StartWord
    <3>3. ip9' = ip9 + 1 /\ at9' = "temp" /\ fn9' = fn9
      BY <1>5, <2>1, <2>2, <3>1, CodeLenAssumption DEF StartWord, CodeIdx
    <3>4. ip9' <= CodeLen - 2 /\ (ip9 = 0 \/ ip9 > 0)
      BY <2>2, <3>1, <3>2, <3>3, CodeLenAssumption DEF CodeIdx
    <3>5. startFlag' = 0
      BY <1>5, <3>1, <3>4 DEF StartWord
    <3>6. QED
      BY <2>1, <2>4, <2>5, <3>1, <3>3, <3>4, <3>5 DEF HandInv, Installed
  <2>6. CASE pc7 \in {"jump", "program"}
    <3>1. ip9 >= CodeLen - 2 /\ startFlag = 1 /\ entry = "arm9 entry"
      BY <2>1, <2>6 DEF HandInv
    <3>2. startFlag' = 1
      BY <1>5, <2>2, <3>1, Successor DEF StartWord
    <3>3. at9' = "program" \/ (at9' = "temp" /\ fn9' = fn9 /\ ip9' = ip9 + 1)
      BY <1>5, <2>1, <3>1 DEF StartWord, JumpToEntry
    <3>4. ip9' = ip9 + 1 => ip9' >= CodeLen - 2
      BY <2>2, <3>1, Successor
    <3>5. k7 = 0
      BY <2>6 DEF HandInv
    <3>6. QED
      BY <2>1, <2>4, <2>6, <3>1, <3>2, <3>3, <3>4, <3>5 DEF HandInv, Installed
  <2>7. CASE pc7 \in {"patch", "args", "start", "flag"}
    <3>1. ip9 = CodeLen - 2 /\ startFlag = 0
      BY <2>7 DEF HandInv, Parked
    <3>2. QED
      BY <1>5, <3>1 DEF StartWord
  <2>8. QED
    BY <2>3, <2>5, <2>6, <2>7 DEF TypeOK
<1>6. QED
  BY <1>1, <1>2, <1>3, <1>4, <1>5 DEF Arm9

\* A step of the ARM7 fits where the ARM9 may be.
LEMMA HandInvArm7 ==
  ASSUME TypeOK, HandInv, Arm7
  PROVE  HandInv'
<1>1. CASE InitFiles
  <2>1. /\ pc7 \in {"init", "restart"} /\ pc7' \in {"init", "restart", "copy"}
        /\ UNCHANGED <<entry, temp, at9, fn9, ip9, fn7, k7>>
    BY <1>1 DEF InitFiles, Goto7, vars9
  <2>2. fn7 = "resetMemory2" /\ k7 = 0 /\ entry = "loop" /\ Outside
    BY <2>1 DEF HandInv
  <2>3. \A k \in CodeIdx : ~(k < 0)
    BY Positions
  <2>4. QED
    BY <2>1, <2>2, <2>3 DEF HandInv, Outside
<1>2. CASE CopyWord
  <2>1. /\ pc7 = "copy" /\ pc7' = IF k7 + 1 < CodeLen THEN "copy" ELSE "point"
        /\ k7 > 0 => at9 # "temp"
        /\ k7' = IF k7 + 1 < CodeLen THEN k7 + 1 ELSE 0
        /\ temp' = [temp EXCEPT ![k7] = fn7]
        /\ UNCHANGED <<entry, startFlag, at9, fn9, ip9, fn7>>
    BY <1>2 DEF CopyWord, Goto7, Arm9Prompt, vars9
  <2>2. /\ entry = "loop"
        /\ Outside \/ (Back /\ k7 <= 1)
        /\ at9 # "lost" /\ at9 \notin {"menu", "vector set"}
    BY <2>1 DEF HandInv
  <2>3. k7 \in CodeIdx /\ CodeIdx = DOMAIN temp
    BY DEF TypeOK
  <2>4. \A k \in CodeIdx : k < k7 + 1 => temp'[k] = fn7
    <3>1. \A k \in CodeIdx : k < k7 + 1 => k < k7 \/ k = k7
      BY <2>3 DEF CodeIdx
    <3>2. QED
      BY <2>1, <2>3, <3>1 DEF HandInv
  <2>5. CASE k7 + 1 < CodeLen
    <3>1. Outside' \/ (Back' /\ k7' <= 1)
      <4>1. CASE at9 = "temp"
        <5>1. /\ ip9 = CodeLen - 1 /\ fn9 \in {"resetMemory2", "mpu_reset"}
              /\ temp[ip9] = fn9 /\ ip9 \in CodeIdx
          BY <2>2, <4>1, Positions DEF Back, Outside
        <5>2. k7 = 0
          BY <2>1, <2>3, <4>1, Positions
        <5>3. ip9 # k7
          BY <5>1, <5>2, Positions
        <5>4. Back'
          BY <2>1, <2>3, <4>1, <5>1, <5>3 DEF Back
        <5>5. k7' <= 1
          BY <2>1, <2>5, <5>2
        <5>6. QED
          BY <5>4, <5>5
      <4>2. CASE at9 # "temp"
        BY <2>1, <2>2, <4>2 DEF Back, Outside
      <4>3. QED
        BY <4>1, <4>2
    <3>2. QED
      BY <2>1, <2>2, <2>4, <2>5, <3>1 DEF HandInv
  <2>6. CASE ~(k7 + 1 < CodeLen)
    <3>1. k7 > 0 /\ \A k \in CodeIdx : k < k7 + 1
      BY <2>3, <2>6, CodeLenAssumption DEF CodeIdx
    <3>2. Outside' /\ Installed'
      BY <2>1, <2>2, <2>4, <3>1 DEF Outside, Back, Installed
    <3>3. QED
      BY <2>1, <2>2, <2>6, <3>2 DEF HandInv, Outside
  <2>7. QED
    BY <2>5, <2>6
<1>3. CASE Point
  <2>1. /\ pc7 = "point" /\ pc7' = IF fn7 = "startBinary" THEN "load" ELSE "wait"
        /\ entry' = "temp"
        /\ UNCHANGED <<startFlag, temp, at9, fn9, ip9, fn7, k7>>
    BY <1>3 DEF Point, Goto7, vars9
  <2>2. Installed /\ Outside /\ k7 = 0
    BY <2>1 DEF HandInv
  <2>3. QED
    BY <2>1, <2>2 DEF HandInv, Installed, Outside
<1>4. CASE Await
  <2>1. /\ pc7 = "wait" /\ entry # "temp" /\ UNCHANGED <<entry, temp, at9, fn9, ip9, k7>>
        /\ pc7' \in {"copy", "resetMemory"}
    BY <1>4 DEF Await, Goto7, vars9
  <2>2. entry = "loop" /\ Back /\ k7 = 0 /\ 0 <= 1
    BY <2>1, Positions DEF HandInv
  <2>3. Back'
    BY <2>1, <2>2 DEF Back
  <2>4. \A k \in CodeIdx : ~(k < 0)
    BY Positions
  <2>5. at9' \notin {"menu", "vector set", "lost"}
    BY <2>1, <2>2 DEF Back
  <2>6. QED
    BY <2>1, <2>2, <2>3, <2>4, <2>5 DEF HandInv
<1>5. CASE ResetMemory
  <2>1. /\ pc7 = "resetMemory" /\ pc7' = "copy"
        /\ UNCHANGED <<entry, temp, at9, fn9, ip9, k7>>
    BY <1>5 DEF ResetMemory, Goto7, vars9
  <2>2. entry = "loop" /\ Back /\ k7 = 0 /\ 0 <= 1
    BY <2>1, Positions DEF HandInv
  <2>3. Back'
    BY <2>1, <2>2 DEF Back
  <2>4. \A k \in CodeIdx : ~(k < 0)
    BY Positions
  <2>5. at9' \notin {"menu", "vector set", "lost"}
    BY <2>1, <2>2 DEF Back
  <2>6. QED
    BY <2>1, <2>2, <2>3, <2>4, <2>5 DEF HandInv
<1>6. CASE LoadBinary
  <2>1. /\ pc7 \in {"load", "load7"} /\ pc7' \in {"load7", "header"}
        /\ UNCHANGED <<entry, startFlag, temp, at9, fn9, ip9, fn7, k7>>
    BY <1>6 DEF LoadBinary, Goto7, vars9
  <2>2. QED
    BY <2>1 DEF HandInv, Installed, Outside
<1>7. CASE LoadHeader
  <2>1. /\ pc7 = "header" /\ pc7' = "patch" /\ at9 = "temp" /\ ip9 = CodeLen - 2
        /\ entry' = "zero" /\ UNCHANGED <<startFlag, temp, at9, fn9, ip9, fn7, k7>>
    BY <1>7 DEF LoadHeader, Goto7, Arm9Waits, vars9
  <2>2. /\ Installed /\ fn7 = "startBinary" /\ fn9 = "startBinary" /\ k7 = 0
        /\ ip9 > 0 => startFlag = 0
    BY <2>1 DEF HandInv, Outside
  <2>3. startFlag = 0
    BY <2>1, <2>2, Positions
  <2>4. Parked' /\ Installed'
    BY <2>1, <2>2, <2>3 DEF Parked, Installed
  <2>5. QED
    BY <2>1, <2>2, <2>4 DEF HandInv
<1>8. CASE PatchAndArgs
  <2>1. /\ pc7 \in {"patch", "args"} /\ pc7' \in {"args", "start"}
        /\ UNCHANGED <<entry, startFlag, temp, at9, fn9, ip9, fn7, k7>>
    BY <1>8 DEF PatchAndArgs, Goto7, vars9
  <2>2. QED
    BY <2>1 DEF HandInv, Installed, Parked
<1>9. CASE StartBinary7
  <2>1. UNCHANGED <<temp, at9, fn9, ip9, fn7, k7>>
    BY <1>9 DEF StartBinary7, vars9
  <2>2. CASE pc7 = "start"
    <3>1. pc7' = "flag" /\ entry' = "arm9 entry" /\ UNCHANGED startFlag
      BY <1>9, <2>2 DEF StartBinary7, Goto7
    <3>2. QED
      BY <2>1, <2>2, <3>1 DEF HandInv, Installed, Parked
  <2>3. CASE pc7 = "flag"
    <3>1. pc7' = "jump" /\ startFlag' = 1 /\ UNCHANGED entry
      BY <1>9, <2>3 DEF StartBinary7, Goto7
    <3>2. ip9 = CodeLen - 2 /\ CodeLen - 2 >= CodeLen - 2
      BY <2>3, Positions DEF HandInv, Parked
    <3>3. QED
      BY <2>1, <2>3, <3>1, <3>2 DEF HandInv, Installed, Parked
  <2>4. CASE pc7 = "jump"
    <3>1. pc7' = "program" /\ UNCHANGED <<entry, startFlag>>
      BY <1>9, <2>4 DEF StartBinary7, Goto7
    <3>2. QED
      BY <2>1, <2>4, <3>1 DEF HandInv, Installed
  <2>5. QED
    BY <1>9, <2>2, <2>3, <2>4 DEF StartBinary7, Goto7
<1>10. QED
  BY <1>1, <1>2, <1>3, <1>4, <1>5, <1>6, <1>7, <1>8, <1>9 DEF Arm7

\* Every step keeps the parts in place that its ARM7 step presupposes.
LEMMA PlacedInvStep ==
  ASSUME PlacedInv, [Next]_vars
  PROVE  PlacedInv'
<1>1. CASE Arm9
  <2>1. CASE ResetArm7
    BY <2>1 DEF ResetArm7, PlacedInv
  <2>2. CASE SetVector \/ FollowEntry \/ ResetWord \/ StartWord
    BY <2>2 DEF SetVector, FollowEntry, ResetWord, StartWord, PlacedInv, vars7
  <2>3. QED
    BY <1>1, <2>1, <2>2 DEF Arm9
<1>2. CASE Arm7
  <2>1. CASE InitFiles \/ CopyWord \/ Point \/ Await \/ ResetMemory
    BY <2>1 DEF InitFiles, CopyWord, Point, Await, ResetMemory, Goto7, PlacedInv
  <2>2. CASE LoadBinary \/ LoadHeader
    BY <2>2 DEF LoadBinary, LoadHeader, Goto7, PlacedInv
  <2>3. CASE PatchAndArgs \/ StartBinary7
    BY <2>3 DEF PatchAndArgs, StartBinary7, Goto7, PlacedInv
  <2>4. QED
    BY <1>2, <2>1, <2>2, <2>3 DEF Arm7
<1>3. CASE UNCHANGED vars
  BY <1>3 DEF vars, PlacedInv
<1>4. QED
  BY <1>1, <1>2, <1>3 DEF Next

\* Inv is inductive.
LEMMA Invariance == Spec => []Inv
<1>1. Inv /\ [Next]_vars => Inv'
  <2> SUFFICES ASSUME Inv, [Next]_vars PROVE Inv'
    OBVIOUS
  <2>1. TypeOK' /\ PlacedInv'
    BY NextType, PlacedInvStep DEF Inv
  <2>2. HandInv'
    <3>1. CASE UNCHANGED vars
      BY <3>1 DEF Inv, HandInv, Installed, Outside, Back, Parked, vars
    <3>2. QED
      BY <3>1, HandInvArm9, HandInvArm7 DEF Inv, Next
  <2>3. QED
    BY <2>1, <2>2 DEF Inv
<1>2. QED
  BY <1>1, InitInv, PTL DEF Spec

\* Every variable keeps to its type, whatever the length of the functions.
THEOREM HandoffTypes == Spec => []TypeOK
<1>1. Inv => TypeOK
  BY DEF Inv
<1>2. QED
  BY <1>1, Invariance, PTL

\* The ARM9 executes the function it entered to its end: however the CPUs
\* interleave, the ARM7 overwrites no word of it before the ARM9 has left it
\* (boot.c:315-335).
THEOREM OneFunction == Spec => []ExecutesOneFunction
<1>1. Inv => ExecutesOneFunction
  <2> SUFFICES ASSUME Inv, at9 = "temp" PROVE temp[ip9] = fn9 /\ fn9 \in Functions
    BY DEF ExecutesOneFunction
  <2>1. ip9 \in CodeIdx /\ pc7 # "menu" /\ ~Outside
    BY DEF Inv, TypeOK, HandInv, Outside
  <2>2. CASE Back
    BY <2>2 DEF Back, Functions
  <2>3. CASE Installed /\ fn9 = fn7
    BY <2>1, <2>3 DEF Inv, TypeOK, Installed
  <2>4. Back \/ (Installed /\ fn9 = fn7)
    BY <2>1 DEF Inv, TypeOK, HandInv, Parked
  <2>5. QED
    BY <2>2, <2>3, <2>4
<1>2. QED
  BY <1>1, Invariance, PTL

\* The ARM9 never jumps to an address the entry word was not meant to give it
\* (boot.c:248-253).
THEOREM NotLost == Spec => []NeverLost
<1>1. Inv => NeverLost
  BY DEF Inv, HandInv, NeverLost
<1>2. QED
  BY <1>1, Invariance, PTL

\* Neither CPU enters the program before the last part of it is in place: the
\* handoff implements ProgramStart (boot.c:238-265, 426-448).
THEOREM StartRefined == Spec => ImplementsStart
<1> DEFINE runs == (IF at9 = "program" THEN {"arm9"} ELSE {}) \cup
                   (IF pc7 = "program" THEN {"arm7"} ELSE {})
<1>1. Init => Program!Init
  <2>1. Init => placed \subseteq Parts /\ runs = {}
    BY DEF Init, Parts
  <2>2. QED
    BY <2>1 DEF Program!Init
<1>2. Inv /\ [Next]_vars => [Program!Next]_(Program!vars)
  <2> SUFFICES ASSUME Inv, [Next]_vars,
                      ~ UNCHANGED <<placed, runs>>
               PROVE  Program!Next
    BY DEF Program!vars
  <2>1. CASE runs' = runs
    <3>1. placed \subseteq placed' /\ placed' # placed
      BY <2>1 DEF Next, Arm9, Arm7, SetVector, ResetArm7, FollowEntry, ResetWord, StartWord,
        InitFiles, CopyWord, Point, Await, ResetMemory, LoadBinary, LoadHeader, PatchAndArgs,
        StartBinary7, vars, vars7
    <3>2. pc7 \in {"load", "load7", "header", "patch", "args"}
      BY <3>1 DEF Next, Arm9, Arm7, SetVector, ResetArm7, FollowEntry, ResetWord, StartWord,
        InitFiles, CopyWord, Point, Await, ResetMemory, LoadBinary, LoadHeader, PatchAndArgs,
        StartBinary7, vars, vars7, Goto7
    <3>3. at9 # "program"
      BY <3>2 DEF Inv, HandInv, Outside, Parked
    <3>4. placed' \subseteq Parts
      BY NextType DEF Inv, TypeOK
    <3>5. runs = {}
      BY <3>2, <3>3
    <3>6. Program!Place
      BY <2>1, <3>1, <3>4, <3>5 DEF Program!Place
    <3>7. QED
      BY <3>6 DEF Program!Next
  <2>2. CASE runs' # runs
    <3>1. CASE Arm9
      <4>1. /\ UNCHANGED <<pc7, placed>> /\ at9' = "program"
            /\ at9 \in {"reset", "loop", "temp"} /\ entry = "arm9 entry"
        <5>1. ~ResetArm7
          <6>1. ResetArm7 => /\ pc7 = "menu" /\ pc7' = "init"
                             /\ at9 = "vector set" /\ at9' = "reset"
            BY DEF ResetArm7, Inv, HandInv
          <6>2. QED
            BY <2>2, <6>1
        <5>2. UNCHANGED <<pc7, placed>>
          BY <3>1, <5>1 DEF Arm9, SetVector, FollowEntry, ResetWord, StartWord, vars7
        <5>3. (at9' = "program") # (at9 = "program")
          BY <2>2, <5>2
        <5>4. CASE SetVector \/ ResetWord
          BY <5>3, <5>4 DEF SetVector, ResetWord
        <5>5. CASE FollowEntry
          <6>1. at9 \in {"reset", "loop"} /\ JumpToEntry
            BY <5>5 DEF FollowEntry
          <6>2. QED
            BY <5>2, <5>3, <6>1, JumpTarget
        <5>6. CASE StartWord
          <6>1. at9 = "temp" /\ (JumpToEntry \/ at9' = at9)
            BY <5>6 DEF StartWord
          <6>2. QED
            BY <5>2, <5>3, <6>1, JumpTarget
        <5>7. QED
          BY <3>1, <5>1, <5>4, <5>5, <5>6 DEF Arm9
      <4>2. pc7 \in {"flag", "jump", "program"}
        BY <4>1 DEF Inv, HandInv, TypeOK
      <4>3. placed = Parts
        BY <4>2 DEF Inv, PlacedInv, TypeOK, Parts
      <4>4. runs' = runs \cup {"arm9"}
        BY <4>1
      <4>5. Program!Enter("arm9")
        BY <4>1, <4>3, <4>4 DEF Program!Enter
      <4>6. QED
        BY <4>5 DEF Program!Next, Program!CPUs
    <3>2. CASE Arm7
      <4>1. UNCHANGED at9
        BY <3>2 DEF Arm7, InitFiles, CopyWord, Point, Await, ResetMemory, LoadBinary, LoadHeader,
          PatchAndArgs, StartBinary7, vars9
      <4>2. (pc7' = "program") # (pc7 = "program")
        BY <2>2, <4>1
      <4>3. pc7 = "jump" /\ pc7' = "program" /\ UNCHANGED placed
        BY <3>2, <4>2 DEF Arm7, InitFiles, CopyWord, Point, Await, ResetMemory, LoadBinary,
          LoadHeader, PatchAndArgs, StartBinary7, Goto7
      <4>4. placed = Parts
        BY <4>3 DEF Inv, PlacedInv, TypeOK, Parts
      <4>5. runs' = runs \cup {"arm7"}
        BY <4>1, <4>3
      <4>6. Program!Enter("arm7")
        BY <4>3, <4>4, <4>5 DEF Program!Enter
      <4>7. QED
        BY <4>6 DEF Program!Next, Program!CPUs
    <3>3. CASE UNCHANGED vars
      BY <2>2, <3>3 DEF vars
    <3>4. QED
      BY <3>1, <3>2, <3>3 DEF Next
  <2>3. QED
    BY <2>1, <2>2
<1>3. QED
  BY <1>1, <1>2, Invariance, PTL DEF Spec, ImplementsStart, Program!Spec
=============================================================================
