----------------------------- MODULE FileBrowse -----------------------------
(***************************************************************************)
(* hbmenu's file browser (file_browse.cpp): a cursor over the current      *)
(* directory's subdirectories and startable files, and a screen that shows *)
(* part of them.                                                           *)
(***************************************************************************)
EXTENDS Args, Integers

CONSTANTS
  Order,                \* all names on the card, in strcasecmp's order
  ENTRIES_PER_SCREEN,
  ENTRY_PAGE_LENGTH

\* The entry for the directory above
Up == <<".", ".">>

ASSUME OrderAssumption == Order \in Seq(Seq(Chars)) /\ Up \in Range(Order)

ASSUME ScreenAssumption ==
  ENTRIES_PER_SCREEN \in Nat \ {0} /\ ENTRY_PAGE_LENGTH \in Nat

Keys == {"up", "down", "left", "right", "A", "B"}

VARIABLES
  files,                \* the card, see Args
  cwd,                  \* the working directory
  dirContents,          \* the entries listed
  fileOffset,           \* the entry the cursor is at
  screenOffset,         \* the entry on the screen's first row
  drawn,                \* directory and first entry drawn last
  at,                   \* "away", "keys", "chosen", or "thrown" (an exception)
  chosen                \* the file browseForFile returned

browser == <<cwd, dirContents, fileOffset, screenOffset, drawn, at, chosen>>

Rank(name) == CHOOSE i \in DOMAIN Order : Order[i] = name

\* A card: its files' paths, the names in them known to Order
ProperCard(card) ==
  /\ IsFiniteSet(DOMAIN card)
  /\ \A p \in DOMAIN card :
       /\ IsPath(p) /\ card[p] \in Seq(Seq(Chars))
       /\ \A i, j \in DOMAIN p :
            /\ p[i] = "/" /\ i < j /\ (j = Len(p) \/ p[j + 1] = "/")
            /\ \A k \in i + 1 .. j : p[k] # "/"
            => SubSeq(p, i + 1, j) \in Range(Order)

\* Subdirectories first, then by name
Before(a, b) ==
  \/ a.isDirectory /\ ~b.isDirectory
  \/ a.isDirectory = b.isDirectory /\ Rank(a.name) < Rank(b.name)

\* Where a name is shorter than an extension the code compares what memory holds
\* in front of it as well; no such name is taken to match
nameEndsWith(name, extensionList) ==
  name[1] # "." /\ \E end \in extensionList : strCaseEnd(name, end)

\* The names in a directory: what follows it in the paths below, up to a slash
Names(dir) ==
  LET prefix == Under(Located(dir, dir))
      below == {p \in DOMAIN files : IsPrefix(prefix, p) /\ p # prefix}
      rest(p) == SubSeq(p, Len(prefix) + 1, Len(p))
      slash(p) == SelectInSeq(rest(p), LAMBDA c : c = "/")
  IN  {[name |-> IF slash(p) = 0 THEN rest(p) ELSE SubSeq(rest(p), 1, slash(p) - 1),
        isDirectory |-> slash(p) # 0] : p \in below}
      \cup (IF IsSuffix(<<"/">>, dir) THEN {} ELSE {[name |-> Up, isDirectory |-> TRUE]})

\* The entries listed, each behind all those before it
Listed(dir) ==
  {e \in Names(dir) : e.isDirectory \/ nameEndsWith(e.name, argsGetExtensionList(files))}
getDirectoryContents(dir) ==
  [n \in 1 .. Cardinality(Listed(dir)) |->
     CHOOSE e \in Listed(dir) : Cardinality({f \in Listed(dir) : Before(f, e)}) = n - 1]

\* chdir.  There is nothing above the root.
Above(dir) ==
  LET slash == SelectLastInSeq(dir, LAMBDA c : c = "/")
  IN  IF slash <= 2 THEN <<"fat:", "/">> ELSE SubSeq(dir, 1, slash - 1)
Child(dir, name) == IF name = Up THEN Above(dir) ELSE toAbsPath(name, dir)

\* dirContents.at(0) throws if nothing is listed
ShowFirst(dir) ==
  /\ cwd' = dir /\ dirContents' = getDirectoryContents(dir)
  /\ fileOffset' = 0 /\ screenOffset' = 0 /\ drawn' = <<dir, 0>>
  /\ at' = IF dirContents' = <<>> THEN "thrown" ELSE "keys"
  /\ UNCHANGED chosen

browseForFile == at = "away" /\ ShowFirst(cwd)

\* The cursor after the direction keys in pressed, wrapping at both ends
Cursor(pressed) ==
  LET step(key, n) == IF key \in pressed THEN n ELSE 0
      moved == fileOffset + step("down", 1) - step("up", 1)
               + step("right", ENTRY_PAGE_LENGTH) - step("left", ENTRY_PAGE_LENGTH)
  IN  IF moved < 0 THEN Len(dirContents) - 1
      ELSE IF moved >= Len(dirContents) THEN 0 ELSE moved

\* Fault: the screen scrolls down one entry late.
Scrolled_Late(offset) ==
  IF offset < screenOffset THEN offset
  ELSE IF offset > screenOffset + ENTRIES_PER_SCREEN THEN offset - ENTRIES_PER_SCREEN + 1
  ELSE screenOffset

\* The first row's entry once entry offset is on the screen
Scrolled(offset) ==
  IF offset < screenOffset THEN offset
  ELSE IF offset > screenOffset + ENTRIES_PER_SCREEN - 1 THEN offset - ENTRIES_PER_SCREEN + 1
  ELSE screenOffset

\* Keys may be pressed together: the cursor moves, then A enters a directory or
\* returns a file, then B goes up
Press(pressed) ==
  /\ at = "keys"
  /\ LET offset == Cursor(pressed)
         entry == dirContents[offset + 1]
     IN  \/ /\ pressed \cap {"A", "B"} = {}
            /\ fileOffset' = offset /\ screenOffset' = Scrolled(offset)
            /\ drawn' = IF screenOffset' = screenOffset THEN drawn ELSE <<cwd, screenOffset'>>
            /\ UNCHANGED <<cwd, dirContents, at, chosen>>
         \/ /\ "A" \in pressed /\ ~entry.isDirectory
            /\ at' = "chosen" /\ chosen' = entry.name
            /\ fileOffset' = offset /\ screenOffset' = Scrolled(offset)
            /\ UNCHANGED <<cwd, dirContents, drawn>>
         \/ /\ "A" \in pressed /\ entry.isDirectory
            /\ LET entered == Child(cwd, entry.name)
               IN  ShowFirst(IF "B" \in pressed THEN Child(entered, Up) ELSE entered)
         \/ /\ pressed \cap {"A", "B"} = {"B"}
            /\ ShowFirst(Child(cwd, Up))
  /\ UNCHANGED files

\* The browser is left alone until the next file is chosen
Return == at = "chosen" /\ at' = "away"

-----------------------------------------------------------------------------
\* The screen's row with the star, and the entry drawn there last
StarRow == fileOffset - screenOffset
Starred ==
  LET contents == getDirectoryContents(drawn[1])
      n == drawn[2] + StarRow + 1
  IN  IF StarRow \in 0 .. ENTRIES_PER_SCREEN - 1 /\ n \in DOMAIN contents
      THEN contents[n] ELSE [name |-> <<>>, isDirectory |-> TRUE]

\* The file returned is the one whose row had the star when A was pressed, in the
\* directory the screen showed, whatever was paged, wrapped and entered before
\* (file_browse.cpp:160-218).  A press that moves the cursor together with A
\* returns an entry the star was never drawn at (lines 164, 175-207): the
\* property is about the others.
StarredReturned ==
  [][at = "keys" /\ at' = "chosen" /\ fileOffset' = fileOffset =>
       drawn[1] = cwd' /\ Starred.name = chosen' /\ ~Starred.isDirectory]_browser
=============================================================================
