---- MODULE MCHbLaunch ----
EXTENDS HbLaunch

MCChars == {"/", ".", "fat:", "nds", "argv", "ext", "txt", "program", "#", " ", "newline",
            "a", "b", "c", "d", "x", "y", "z", "nosuch"}

Name(n, e) == <<n, ".", e>>
MCOrder == <<Up, <<".", "argv">>, Name("a", "argv"), Name("a", "nds"), Name("b", "nds"),
             Name("c", "txt"), <<"c", "txt">>, <<"nds">>, <<"z">>, Name("d", "nds"), Name("txt", "ext")>>

\* A line of words, with its newline
Line(words) == FlattenSeq([i \in DOMAIN words |-> words[i] \o <<" ">>]) \o <<"newline">>
A == Name("a", "nds")
D == Name("d", "nds")
B(path) == <<"/">> \o path

Text == {
  <<>>,
  << Line(<<A, <<"x">>, <<"y", "y">>, <<"z">> >>) >>,
  << Line(<<A>>), <<"newline">>, <<" ", "newline">>, Line(<< <<"x">> >>), <<"y", "y", "z">> >>,
  << <<" ">> \o Line(<< B(A), <<"x", "x">> >>) >>,
  << <<"newline">>, Line(<<A>>) >>,
  << Line(<< <<"fat:">> \o B(<<"nds">> \o B(D)), <<"x">> >>) >>,
  << Line(<< <<"nosuch", ".", "nds">> >>) >>,
  << Line(<<D, <<"x">> >>) >>,
  << Line(<< <<"x">>, A >>) >>,
  << <<"#">> \o Line(<< <<"x">> >>), Line(<<A>>) >>,
  << Line(<<A, <<"x">> >>), <<"#">> \o Line(<< <<"y">> >>) >>,
  << Line(<<A>>), <<"x", "x">> \o Line(<< <<"x">>, <<"#">>, <<"y">> >>), Line(<< <<"z">> >>) >> }

\* The .argv file lists a.nds, the data files' handler lies in /nds
Usual == << Line(<<A, <<"x">> >>) >>
Handler == << Line(<< Name("d", "nds"), <<"y">> >>) >>
CardWith(argv, ext) ==
  << "/", "a", ".", "nds" >> :> Program @@ << "/", "b", ".", "nds" >> :> Program
  @@ B(Name("a", "argv")) :> argv @@ B(Name("c", "txt")) :> Program
  @@ <<"/", "c", "txt">> :> Program @@ <<"/", ".", "argv">> :> Usual
  @@ (<<"/", "nds">> \o B(D)) :> Program @@ (<<"/", "nds">> \o B(Name("a", "argv"))) :> argv
  @@ (<<"/", "nds">> \o B(Name("txt", "ext"))) :> ext

\* One program, one directory in another, and a card with nothing the browser lists
SmallCard == B(A) :> Program
DeepCard == B(A) :> Program @@ (<<"/", "nds">> \o B(D)) :> Program
            @@ (<<"/", "nds">> \o B(<<"z">>) \o B(D)) :> Program

MCCards == {CardWith(t, Handler) : t \in Text} \cup {CardWith(Usual, t) : t \in Text}
           \cup {B(Name("c", "txt")) :> Program, SmallCard, DeepCard}

MCHotkeys == {<<>>, <<"fat:">> \o B(Name("a", "argv")), <<"fat:">> \o B(Name("b", "nds")),
              <<"fat:">> \o B(Name("nosuch", "nds")),
              <<"fat:">> \o B(<<"nds">>) \o B(Name("a", "argv"))}

Base == 900     \* where a driver is linked
\* A driver of 64 bytes: code, a word of the global offset table, BSS
MCDriver(fix, last, w1, w2, w3) ==
  [log |-> 6, alloc |-> 6, fix |-> fix, stub |-> FALSE,
   w |-> (0 :> Base @@ 1 :> Base + last @@ 2 :> Base + 40 @@ 3 :> Base + 48
          @@ 4 :> Base + 48 @@ 5 :> Base + 52 @@ 6 :> Base + 56
          @@ 7 :> (IF "bss" \in fix THEN Base + 64 ELSE Base + 56)
          @@ 8 :> Base + 40 @@ 9 :> Base + 44
          @@ 10 :> w1 @@ 11 :> w2 @@ 12 :> w3 @@ 13 :> 5 @@ 14 :> 6 @@ 15 :> 7)]

\* The driver's first, last and next byte, its BSS, an address elsewhere
Targets == {0, Base - 1, Base, Base + 40, Base + 55, Base + 56, Base + 63, Base + 64}
\* Drivers that fit no program, no bootloader, not even hbmenu
Large(log) ==
  LET small == MCDriver({"all"}, 56, Base + 40, 0, 0)
  IN  [small EXCEPT !.log = log, !.alloc = log,
                    !.w = [k \in WordsOf(log) |-> IF k < 16 THEN small.w[k] ELSE 1]]
OneDriver == MCDriver({"all", "glue", "got", "bss"}, 56, Base + 40, 0, Base + 56)
MCDrivers ==
  {OneDriver, Large(7), Large(8), Large(9)} \cup
  {MCDriver(fix, last, w[1], 1, w[2]) :
     fix \in SUBSET {"all", "glue", "got", "bss"}, last \in {54, 56},
     w \in {<<t, 0>> : t \in Targets} \cup {<<0, t>> : t \in Targets}}

Room(alloc, address, start) ==
  [log |-> alloc, alloc |-> alloc, fix |-> {}, stub |-> TRUE,
   w |-> [k \in WordsOf(alloc) |-> CASE k = text_start -> start [] k = data_end -> address + SizeOf(alloc)
                                     [] k \in {8, 9} -> address + DO_code [] OTHER -> 0]]
MCHbmenuRoom == Room(8, 128, 128)
MCLoaderRoom == Room(7, 640, 640)
OneRoom == Room(6, 384, 384)
MCProgramRooms == {OneRoom, Room(7, 384, 384), Room(6, 384, 0)}

\* The room at the beginning, after parts of the string, at the end before a
\* tail; no room, the string cut off by the end, binaries shorter than it
Whole == <<"magic", "chis", "hm">>
OneBinary == [words |-> Whole \o <<"other">>, size |-> 16]
MCBinaries ==
  {OneBinary} \cup
  { [words |-> w[1], size |-> w[2]] : w \in {
      <<<<"other", "magic", "magic", "chis", "other">> \o Whole \o <<"other">>, 36>>,
      << <<"magic", "other", "other">> \o Whole, 27>>, << <<"other", "magic", "chis">>, 12>>,
      <<Whole, 11>>, << <<"other", "other", "other", "magic">>, 16>>, << <<>>, 0>> } }

\* The card and the driver have nothing to do with each other: one varies at a time
MCInit ==
  /\ \/ driver = OneDriver /\ program = OneRoom /\ binary = OneBinary
     \/ files = SmallCard /\ binary = OneBinary
     \/ files = SmallCard /\ driver \in {OneDriver, Large(7)} /\ program \in {OneRoom, Room(7, 384, 384)}
  /\ Init
MCSpec == MCInit /\ [][Next]_vars
====
