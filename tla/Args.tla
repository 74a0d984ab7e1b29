-------------------------------- MODULE Args --------------------------------
(***************************************************************************)
(* hbmenu's argument files (args.cpp): a .argv file holds a program and    *)
(* its arguments; /nds/<ext>.ext holds those of the program that opens     *)
(* files with that extension.                                              *)
(*                                                                         *)
(* Text is a sequence of characters, where an extension, a name or a       *)
(* device counts as one character.  A file is a sequence of lines, each    *)
(* with its newline, as __getline returns them.                            *)
(***************************************************************************)
EXTENDS Naturals, Sequences, FiniteSets, FiniteSetsExt, SequencesExt

CONSTANTS
  Chars,            \* the characters of a C string
  Junk              \* what memory holds that was never written

ASSUME CharsAssumption ==
  {"/", ".", "fat:", "nds", "ext"} \subseteq Chars /\ "NUL" \notin Chars

NDS_EXT == <<".", "nds">>
ARG_EXT == <<".", "argv">>
EXT_EXT == <<".", "ext">>
EXT_DIR == <<"/", "nds">>
SEPARATORS == {"newline", " "}

\* strcasecmp from s's end on; names differ in more than case
strCaseEnd(s, end) == IsSuffix(end, s)

\* The maximal runs of characters that satisfy In, in order
Runs(s, In(_)) ==
  LET starts == {i \in DOMAIN s : In(s[i]) /\ (i = 1 \/ ~In(s[i - 1]))}
      nth(n) == CHOOSE i \in starts : Cardinality({j \in starts : j < i}) = n - 1
      end(i) == Min({j \in i .. Len(s) + 1 : j = Len(s) + 1 \/ ~In(s[j])})
  IN  [n \in 1 .. Cardinality(starts) |-> SubSeq(s, nth(n), end(nth(n)) - 1)]

Words(s) == Runs(s, LAMBDA c : c \notin SEPARATORS)

\* Character i of __getline's buffer after line k: the buffer keeps what longer
\* lines have left behind a line's terminator
Held(lines, k, i) ==
  LET reach == {j \in 1 .. k : Len(lines[j]) + 1 >= i}
  IN  IF reach = {} THEN Junk
      ELSE LET line == lines[Max(reach)]
           IN  IF i <= Len(line) THEN line[i] ELSE "NUL"

\* line_sv.  A comment is to be cut off; remove_suffix is given a length that
\* wraps below zero, which adds to the line as many characters instead.
line_sv(lines, k) ==
  LET line == lines[k]
      pos == SelectInSeq(line, LAMBDA c : c = "#") - 1
  IN  IF pos < 0 THEN line
      ELSE [i \in 1 .. 2 * Len(line) - pos |-> Held(lines, k, i)]

\* A line of separators only counts as an empty argument
LineArgs(line) ==
  IF Words(line) = <<>> /\ line # <<>> THEN << <<>> >> ELSE Words(line)

parseArgFileAll(lines) ==
  FlattenSeq([k \in DOMAIN lines |-> LineArgs(line_sv(lines, k))])

\* The first word of the file.  It reads no further, and skips lines of
\* separators.
parseArgFileNds(lines) ==
  LET with == {k \in DOMAIN lines : Words(line_sv(lines, k)) # <<>>}
  IN  IF with = {} THEN <<>> ELSE Words(line_sv(lines, Min(with)))[1]

\* The directory with the separator before a name in it
Under(basePath) == basePath \o (IF IsSuffix(<<"/">>, basePath) THEN <<>> ELSE <<"/">>)

\* Where absolute paths begin
IsAbsolute(filename) == \E root \in {<<"/">>, <<"fat:", "/">>} : IsPrefix(root, filename)

\* Fault: an absolute path on no device is taken for a relative one.
toAbsPath_Slash(filename, basePath) ==
  IF filename = <<>> \/ IsPrefix(<<"fat:", "/">>, filename) THEN filename
  ELSE Under(basePath) \o filename

\* The working directory is given where the code passes no base
toAbsPath(filename, basePath) ==
  IF filename = <<>> \/ IsAbsolute(filename) THEN filename ELSE Under(basePath) \o filename

\* The .ext file of a data file, <<>> if it has no extension
toExtPath(dataFilePath) ==
  LET dot == SelectLastInSeq(dataFilePath, LAMBDA c : c = ".")
  IN  IF dot = 0 \/ dot = Len(dataFilePath) THEN <<>>
      ELSE toAbsPath(SubSeq(dataFilePath, dot + 1, Len(dataFilePath)), EXT_DIR) \o EXT_EXT

-----------------------------------------------------------------------------
\* The card: files is a function from absolute paths to lines, of which a program
\* has one

Program == << <<"program">> >>

\* An absolute path: names, each behind a slash
IsPath(p) ==
  /\ p \in Seq(Chars) /\ p # <<>> /\ p[1] = "/"
  /\ \A i \in DOMAIN p :
       p[i] # "fat:" /\ (p[i] = "/" => i < Len(p) /\ p[i + 1] # "/")

\* The file fopen or stat finds: paths are C strings, and there is one device,
\* whose working directory a path without a slash in front is relative to
CString(s) == LET nul == SelectInSeq(s, LAMBDA c : c = "NUL")
              IN  IF nul = 0 THEN s ELSE SubSeq(s, 1, nul - 1)
OnDevice(p) == IF p # <<>> /\ p[1] = "fat:" THEN Tail(p) ELSE p
Located(path, cwd) ==
  LET p == OnDevice(CString(path))
  IN  IF p = <<>> \/ p[1] = "/" THEN p ELSE OnDevice(Under(cwd)) \o p

\* The lines of the file at path; a file that cannot be opened has none
Lines(files, cwd, path) ==
  IF Located(path, cwd) \in DOMAIN files THEN files[Located(path, cwd)] ELSE <<>>

\* Fault: a handler is looked for in the working directory.
argsNdsPath_Cwd(files, cwd, filePath) ==
  IF strCaseEnd(filePath, NDS_EXT) THEN filePath
  ELSE IF strCaseEnd(filePath, ARG_EXT) THEN parseArgFileNds(Lines(files, cwd, filePath))
  ELSE parseArgFileNds(Lines(files, cwd, toExtPath(filePath)))

\* The program the browser shows the banner of, <<>> on failure
argsNdsPath(files, cwd, filePath) ==
  IF strCaseEnd(filePath, NDS_EXT) THEN filePath
  ELSE IF strCaseEnd(filePath, ARG_EXT) THEN parseArgFileNds(Lines(files, cwd, filePath))
  ELSE toAbsPath(parseArgFileNds(Lines(files, cwd, toExtPath(filePath))), EXT_DIR)

\* argarray when a file is started.  Its first element is made absolute.
argarray(files, cwd, filePath) ==
  LET absolute(args, base) == <<toAbsPath(args[1], base)>> \o Tail(args)
      listed(path, base) ==
        LET args == parseArgFileAll(Lines(files, cwd, path))
        IN  IF args = <<>> THEN <<>> ELSE absolute(args, base)
      handled == listed(toExtPath(filePath), EXT_DIR)
  IN  IF strCaseEnd(filePath, NDS_EXT) THEN absolute(<<filePath>>, cwd)
      ELSE IF strCaseEnd(filePath, ARG_EXT) THEN listed(filePath, cwd)
      ELSE IF handled = <<>> THEN <<>> ELSE Append(handled, toAbsPath(filePath, cwd))

\* argsFillArray's result
argsFillArray(args) == args # <<>> /\ strCaseEnd(args[1], NDS_EXT)

\* The extensions the browser lists: those of the .ext files, without a dot
argsGetExtensionList(files) ==
  {NDS_EXT, ARG_EXT} \cup
  {SubSeq(p, 4, Len(p) - 2) : p \in {q \in DOMAIN files :
     /\ IsPrefix(EXT_DIR \o <<"/">>, q) /\ Len(q) > 3 /\ q[4] # "."
     /\ strCaseEnd(q, EXT_EXT)}}

-----------------------------------------------------------------------------
\* What nds-hb-menu/README.md says of an argument file: its words, but for
\* comments
Documented(lines) ==
  FlattenSeq([k \in DOMAIN lines |->
    LET pos == SelectInSeq(lines[k], LAMBDA c : c = "#")
    IN  Words(IF pos = 0 THEN lines[k] ELSE SubSeq(lines[k], 1, pos - 1))])
=============================================================================
