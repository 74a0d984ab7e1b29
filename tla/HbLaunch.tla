------------------------------ MODULE HbLaunch ------------------------------
(***************************************************************************)
(* From the file browser, or a hotkey, to the program: argsFillArray makes *)
(* the arguments, runNds packs them into VRAM behind the bootloader and    *)
(* patches the bootloader with hbmenu's driver, the bootloader patches the *)
(* program with its own and copies the arguments to where the program      *)
(* looks for them.  miniboot has patched hbmenu before.                    *)
(*                                                                         *)
(* How the CPUs change hands meanwhile is BootHandoff's subject, what      *)
(* happens after a failed start HbMenu's.                                  *)
(***************************************************************************)
EXTENDS FileBrowse, Dldi

CONSTANTS
  Cards,                \* cards: see files in FileBrowse
  Hotkeys,              \* what getExecPath may return
  Drivers,              \* drivers as in flash
  HbmenuRoom,           \* the three programs' rooms for one
  LoaderRoom,
  ProgramRooms,
  Binaries              \* programs around their rooms, see quickFind

VARIABLES
  pc,                   \* "boot", "menu", "browse", "fill", "stat", "pack", "patch",
                        \* "load", "arguments", "started", "failed", "stopped"
  filePath,             \* the file that is started
  args,                 \* argarray
  vram,                 \* the argument block, by halfwords
  argSize,
  cmdline,              \* what the program finds as its command line
  driver,               \* the card's driver
  binary,               \* the program's binary
  hbmenu, loader, program   \* the images patched

images == <<driver, binary, hbmenu, loader, program>>
vars == <<files, browser, pc, filePath, args, vram, argSize, cmdline, images>>

Root == <<"fat:", "/">>

\* Sections and functions lie in the driver, a BSS behind everything else
ProperDriver(d) ==
  /\ IsImage(d) /\ d.log \in Logs /\ d.w \in [WordsOf(d.log) -> Int] /\ ~d.stub
  /\ DO_code <= SizeOf(d.log)
  /\ \A k \in HeaderWords : d.w[k] \in d.w[text_start] .. d.w[text_start] + SizeOf(d.log)
  /\ d.w[bss_start] < d.w[text_start] + SizeOf(d.log)
  /\ d.w[bss_end] > d.w[bss_start] =>
       /\ "bss" \in d.fix
       /\ \A last \in {d.w[text_start] + DO_code, d.w[data_end], d.w[glue_end], d.w[got_end]} :
            last <= d.w[bss_start]

ProperRoom(r) ==
  /\ IsImage(r) /\ r.stub /\ r.alloc \in Logs /\ r.w \in [WordsOf(r.alloc) -> Int]
  /\ DO_code <= SizeOf(r.alloc) /\ Address(r) # 0

\* The address each patcher finds a driver at lies apart from the one it moves it to
Apart(a, b) == Address(a) + SizeOf(a.alloc) <= Address(b)

\* miniboot does not fall back on a function's address
ASSUME LaunchAssumption ==
  /\ \A card \in Cards : ProperCard(card)
  /\ \A path \in Hotkeys :
       path \in Seq(Chars) /\ \A i \in DOMAIN path : path[i] = "fat:" => i = 1
  /\ \A b \in Binaries : b.size \in Nat
  /\ \A d \in Drivers : ProperDriver(d)
  /\ \A r \in {HbmenuRoom, LoaderRoom} \cup ProgramRooms : ProperRoom(r)
  /\ HbmenuRoom.w[text_start] # 0
  /\ \A r \in {HbmenuRoom} \cup ProgramRooms : Apart(r, LoaderRoom)
  /\ \A d \in Drivers : Address(LoaderRoom) + SizeOf(LoaderRoom.alloc) <= d.w[text_start]

Init ==
  /\ files \in Cards /\ driver \in Drivers /\ program \in ProgramRooms
  /\ binary \in Binaries
  /\ hbmenu = HbmenuRoom /\ loader = LoaderRoom
  /\ cwd = Root /\ dirContents = <<>> /\ fileOffset = 0 /\ screenOffset = 0
  /\ drawn = <<Root, 0>> /\ at = "away" /\ chosen = <<>>
  /\ pc = "boot" /\ filePath = <<>> /\ args = <<>> /\ vram = <<>> /\ argSize = 0
  /\ cmdline = <<>>

Goto(from, to) == pc = from /\ pc' = to

\* miniboot patches hbmenu, or stops with an error.  hbmenu's driver then uses
\* its variables.
MinibootPatch ==
  /\ \/ ~EnoughSpace(hbmenu, driver) /\ Goto("boot", "stopped") /\ UNCHANGED hbmenu
     \/ /\ EnoughSpace(hbmenu, driver) /\ Goto("boot", "menu")
        /\ \E patched \in {dldi_patch_relocate(hbmenu, driver)} :
             hbmenu' = [patched EXCEPT !.w = [k \in DOMAIN patched.w |->
                 IF InSection(driver, k, "bss", bss_start, bss_end)
                 THEN patched.w[text_start] ELSE patched.w[k]]]
  /\ UNCHANGED <<files, browser, filePath, args, vram, argSize, cmdline, driver, binary, loader, program>>

\* The held key's path is started if it begins with fat:/
Hotkey ==
  /\ \E path \in Hotkeys :
       IF IsPrefix(Root, path) THEN Goto("menu", "fill") /\ filePath' = path
       ELSE Goto("menu", "browse") /\ UNCHANGED filePath
  /\ UNCHANGED <<files, browser, args, vram, argSize, cmdline, images>>

\* browseForFile
Browse ==
  /\ pc = "browse"
  /\ \/ browseForFile \/ \E pressed \in SUBSET Keys \ {{}} : Press(pressed)
  /\ UNCHANGED <<files, pc, filePath, args, vram, argSize, cmdline, images>>

Chosen ==
  /\ Goto("browse", "fill") /\ Return
  /\ filePath' = chosen
  /\ UNCHANGED <<files, cwd, dirContents, fileOffset, screenOffset, drawn, chosen>>
  /\ UNCHANGED <<args, vram, argSize, cmdline, images>>

FillArray ==
  /\ args' = argarray(files, cwd, filePath)
  /\ Goto("fill", IF argsFillArray(args') THEN "stat" ELSE "failed")
  /\ UNCHANGED <<files, browser, filePath, vram, argSize, cmdline, images>>

\* runNdsFile asks for the file's cluster
Stat ==
  /\ Goto("stat", IF Located(args[1], cwd) \in DOMAIN files THEN "pack" ELSE "failed")
  /\ UNCHANGED <<files, browser, filePath, args, vram, argSize, cmdline, images>>

\* Fault: an argument of odd length is not written out.
EndArgument_Odd(s) == [s EXCEPT !.temp = "NUL", !.size = @ + 1]

\* runNds' two loops: VRAM takes halfwords, so every second character is held
\* back in argTempVal
PutCharacter(s, c) ==
  IF s.size % 2 = 1
  THEN [out |-> Append(s.out, <<s.temp, c>>), temp |-> s.temp, size |-> s.size + 1]
  ELSE [out |-> s.out, temp |-> c, size |-> s.size + 1]
EndArgument(s) ==
  [out |-> IF s.size % 2 = 1 THEN Append(s.out, <<s.temp, "NUL">>) ELSE s.out,
   temp |-> "NUL", size |-> s.size + 1]
Packed ==
  FoldLeft(LAMBDA s, arg : EndArgument(FoldLeft(PutCharacter, s, CString(arg))),
           [out |-> <<>>, temp |-> "NUL", size |-> 0], args)

\* Fault: the last character held back is not written.
PackArguments_Held ==
  /\ Goto("pack", "patch")
  /\ vram' = Packed.out
  /\ argSize' = Packed.size
  /\ UNCHANGED <<files, browser, filePath, args, cmdline, images>>

PackArguments ==
  /\ Goto("pack", "patch")
  /\ vram' = Append(Packed.out, <<Packed.temp, "NUL">>)
  /\ argSize' = Packed.size
  /\ UNCHANGED <<files, browser, filePath, args, cmdline, images>>

\* dldiPatchLoader; its source keeps the loader's room as its own
PatchLoader ==
  /\ IF Patchable(loader, hbmenu)
     THEN /\ Goto("patch", "load")
          /\ loader' = dldiPatch(loader, hbmenu, TRUE)
          /\ hbmenu' = [hbmenu EXCEPT !.alloc = loader.alloc]
     ELSE Goto("patch", "stopped") /\ UNCHANGED <<hbmenu, loader>>
  /\ UNCHANGED <<files, browser, filePath, args, vram, argSize, cmdline, driver, binary, program>>

\* dldiPatchBinary in the bootloader; its result is not looked at
PatchProgram ==
  /\ Goto("load", "arguments")
  /\ program' = IF quickFind(binary.words, binary.size) >= 0 /\ Patchable(program, loader)
                THEN dldiPatch(program, loader, TRUE) ELSE program
  /\ UNCHANGED <<files, browser, filePath, args, vram, argSize, cmdline, driver, binary, hbmenu, loader>>

\* Byte k of VRAM from the argument block on
Byte(k) == IF k \div 2 < Len(vram) THEN vram[(k \div 2) + 1][(k % 2) + 1] ELSE Junk

\* copyLoop, word by word
copyLoop(size) == [k \in 1 .. 4 * ((size + 3) \div 4) |-> Byte(k - 1)]

\* passArgs_ARM7: behind the ARM9 binary, with its length.  Its default for no
\* arguments (boot.c:122-134) is out of reach: the first is a program's name, so
\* that the length is not zero.
PassArguments ==
  /\ Goto("arguments", "started")
  /\ cmdline' = SubSeq(copyLoop(argSize), 1, argSize)
  /\ UNCHANGED <<files, browser, filePath, args, vram, argSize, images>>

\* START, or A released
Continue ==
  /\ Goto("failed", "browse")
  /\ UNCHANGED <<files, browser, filePath, args, vram, argSize, cmdline, images>>

Next ==
  \/ MinibootPatch \/ Hotkey \/ Browse \/ Chosen \/ FillArray \/ Stat \/ PackArguments
  \/ PatchLoader \/ PatchProgram \/ PassArguments \/ Continue

Spec == Init /\ [][Next]_vars

-----------------------------------------------------------------------------
\* The file of arguments that says how filePath is started, if there is one
ArgumentFile ==
  IF strCaseEnd(filePath, NDS_EXT) THEN <<>>
  ELSE IF strCaseEnd(filePath, ARG_EXT) THEN Located(filePath, cwd)
  ELSE toExtPath(filePath)

ArgumentLines == IF ArgumentFile \in DOMAIN files THEN files[ArgumentFile] ELSE <<>>

\* The directory a file lies in, up to its slash
Folder(path) == SubSeq(path, 1, SelectLastInSeq(path, LAMBDA c : c = "/"))

\* The file a path stands for in a directory
PathIn(dir, path) == IF path = <<>> \/ IsAbsolute(path) THEN path ELSE Under(dir) \o path

\* The documented arguments: README.md, "Passing arguments", where the program's
\* path is relative to the .argv file (line 18), and "File associations"
Expected ==
  LET words == Documented(ArgumentLines)
      program1(base) == IF words = <<>> THEN <<>>
                        ELSE <<PathIn(base, words[1])>> \o Tail(words)
  IN  IF strCaseEnd(filePath, NDS_EXT) THEN <<PathIn(cwd, filePath)>>
      ELSE IF strCaseEnd(filePath, ARG_EXT) THEN program1(Folder(PathIn(cwd, filePath)))
      ELSE Append(program1(EXT_DIR), PathIn(cwd, filePath))

Commented == \E k \in DOMAIN ArgumentLines : Contains(ArgumentLines[k], "#")

\* The .argv file lies in the working directory, where the browser finds it, or
\* gives its program's whole path
Nearby ==
  strCaseEnd(filePath, ARG_EXT) =>
    \/ Folder(PathIn(cwd, filePath)) = Under(cwd)
    \/ \E k \in DOMAIN Documented(ArgumentLines) :
         k = 1 /\ IsAbsolute(Documented(ArgumentLines)[k])

\* No comments, no blank line before the program, no path from elsewhere: what
\* CommentsIgnored and ProgramBesideFile are about
Plain ==
  /\ ~Commented /\ Nearby
  /\ ArgumentLines # <<>> => Words(ArgumentLines[1]) # <<>>

\* What a program makes of its command line: its strings, up to the length
Received == Runs(cmdline, LAMBDA c : c # "NUL")

\* Every variable holds a value of its type.
TypeOK ==
  /\ pc \in {"boot", "menu", "browse", "fill", "stat", "pack", "patch", "load",
             "arguments", "started", "failed", "stopped"}
  /\ at \in {"away", "keys", "chosen", "thrown"}
  /\ fileOffset \in 0 .. Len(dirContents) /\ screenOffset \in 0 .. Len(dirContents)
  /\ argSize <= 2 * Len(vram) /\ Len(cmdline) \in {0, argSize}
  /\ DOMAIN loader.w = DOMAIN LoaderRoom.w /\ DOMAIN hbmenu.w = DOMAIN HbmenuRoom.w

\* A program receives the documented arguments, each a string of its own, through
\* argarray, the halfwords of VRAM, the copy behind its binary and the length it
\* is told (nds_loader_arm9.c:299-321, boot.c:147-152), if its file is plain.
ArgumentsArrive == pc = "started" /\ Plain => Received = Expected

\* A plain file whose documented program exists is started, not refused
\* (args.cpp:231-279).
WellFormedStarts ==
  pc = "failed" /\ Plain =>
    \/ Expected = <<>> \/ ~strCaseEnd(Expected[1], NDS_EXT)
    \/ Located(Expected[1], cwd) \notin DOMAIN files

\* The banner the browser shows for a file is that of the program the file
\* starts: two parsers read the same argument file (args.cpp:54-141).
ShownIsStarted ==
  pc = "started" => Located(argsNdsPath(files, cwd, filePath), cwd) = Located(args[1], cwd)

\* A word that looks like a pointer into one of the drivers' places in between
Lookalike(word) ==
  \E room \in {HbmenuRoom, LoaderRoom} :
    word \in Address(room) .. Address(room) + SizeOf(room.alloc) - 1

\* Does the program keep a room for a driver?
HasRoom == \E k \in 1 .. (binary.size \div 4) - 2 : MagicAt(binary.words, k)

\* A program with room for the driver gets it, wherever in the binary the room
\* is.  After three relocations by two implementations, of which one looks at
\* each word four times, it is the card's driver, moved once: its pointers point
\* to the same places, its other words are unchanged (dldi_patch.c:19-86,
\* nds_loader_arm9.c:159-265, dldi_patcher.c:73-222).
RelocatedOnce ==
  pc \in {"arguments", "started"} /\ HasRoom /\ driver.log <= program.alloc =>
    /\ ~program.stub
    /\ \A k \in DOMAIN driver.w \ HeaderWords :
         ~Lookalike(driver.w[k]) =>
           program.w[k] = MovedTo(driver, Address(program))[k]

\* nds-hb-menu/README.md:15: "# This is a comment".  A comment is no argument, in a
\* file without blank lines.
CommentsIgnored ==
  /\ pc = "stat" /\ strCaseEnd(filePath, ARG_EXT) /\ Nearby
  /\ \A k \in DOMAIN ArgumentLines : Words(ArgumentLines[k]) # <<>>
  => args = Expected

\* nds-hb-menu/README.md:18: "this can include a path relative to the .argv file".
\* The program that is looked for is that one, in a file without comments that
\* begins with it.
ProgramBesideFile ==
  /\ pc = "stat" /\ strCaseEnd(filePath, ARG_EXT) /\ ~Commented
  /\ ArgumentLines # <<>> => Words(ArgumentLines[1]) # <<>>
  => Located(args[1], cwd) = Located(Expected[1], cwd)
=============================================================================
