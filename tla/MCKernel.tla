------------------------------ MODULE MCKernel ------------------------------
(***************************************************************************)
(* Cards and boards for TLC.  One thing is varied at a time: the volume    *)
(* and the order of a file's clusters, the file's size, the directories,   *)
(* what is wrong with the card, the board.                                 *)
(***************************************************************************)
EXTENDS KernelLoader

MCPaths == << <<"scfw", "kernel">>, <<"scsfw", "kernel">>, <<"kernel">> >>

File(n, o) == [name |-> n, attr |-> "file", obj |-> o]
Dir(n, o) == [name |-> n, attr |-> "dir", obj |-> o]
Label(n) == [name |-> n, attr |-> "label", obj |-> "none"]
Other == File("other", "k3")

\* A volume in the layout of its kind: one reserved sector, `fats' FATs as large as
\* they have to be
Bpb(kind, csize, clusters, fats) ==
  LET fatsz == CeilDiv(CeilDiv((clusters + 2) * kind, 8), 4)
      rootent == IF kind = 32 THEN 0 ELSE 4
  IN  [jmp |-> TRUE, sig |-> TRUE, fat32 |-> kind = 32, ss |-> 4, csize |-> csize,
       nrsv |-> 1, fats |-> fats, rootent |-> rootent, fatsz |-> fatsz,
       tot |-> 1 + fats * fatsz + rootent \div 2 + clusters * csize,
       rootclus |-> IF kind = 32 THEN 4 ELSE 0]

NoChains == [scfw |-> <<2>>, scsfw |-> <<>>, root |-> <<>>,
             k1 |-> <<>>, k2 |-> <<>>, k3 |-> <<>>]

\* The kernel in /scfw, which starts at cluster 2; a FAT32 root directory at 4
Card(kind, csize, clusters, table, part, chain, size) ==
  [table |-> table, part |-> part, bpb |-> Bpb(kind, csize, clusters, 2), kind |-> kind,
   chains |-> [NoChains EXCEPT !.k1 = chain, !.root = IF kind = 32 THEN <<4>> ELSE <<>>],
   dirs |-> [root |-> <<Label("scfw"), Dir("scfw", "scfw")>>,
             scfw |-> <<File("kernel", "k1")>>, scsfw |-> <<>>],
   size |-> [k1 |-> size, k2 |-> 0, k3 |-> 0], branch |-> TRUE, proper |-> TRUE]

\* Three clusters, the last one not full
ThreeClusters(csize) == IF csize = 1 THEN 12 ELSE 12 * csize - 2
NoTable == <<0, 0, 0, 0>>

\* Kinds and orders of clusters; 6 and 8 clusters are the limits
Orders == {<<3, 5, 6>>, <<6, 5, 3>>, <<5, 3, 6>>}
Geometries ==
  {Card(x[1], x[2], x[3], x[4], x[5], s, ThreeClusters(x[2])) :
     x \in {<<12, 1, 6, NoTable, 0>>, <<12, 2, 6, <<0, 3, 0, 0>>, 3>>,
            <<16, 1, 7, <<2, 0, 5, 0>>, 5>>, <<16, 2, 8, NoTable, 0>>,
            <<32, 1, 9, NoTable, 0>>, <<32, 4, 9, <<0, 0, 0, 7>>, 7>>},
     s \in Orders}
  \cup {[Card(16, 1, 6, NoTable, 0, s, 12) EXCEPT !.proper = FALSE] : s \in Orders}

\* Sizes around sectors, clusters and blocks; the largest is not accepted
Sizes == {Card(16, 1, 7, NoTable, 0, s[1], s[2]) :
            s \in {<<<<>>, 0>>, <<<<3>>, 3>>, <<<<3>>, 4>>, <<<<6, 3>>, 5>>, <<<<3, 4>>, 8>>,
                   <<<<5, 3, 4>>, 9>>, <<<<5, 3, 4>>, 12>>, <<<<5, 3, 6, 4>>, 16>>,
                   <<<<5, 3, 6, 4, 7>>, 17>>, <<<<5, 3, 6, 4, 7>>, 20>>}}
           \cup {Card(16, 2, 8, NoTable, 0, <<5, 3, 6, 4, 7, 9, 8>>, 49)}

\* Directories: which kernels there are, entries before them, entries behind the end
Tree(kind, csize, root, scfw, scsfw) ==
  LET c == Card(kind, csize, IF kind = 12 THEN 6 ELSE 9, NoTable, 0, <<3>>, 4)
  IN  [c EXCEPT !.chains = [scfw |-> <<2, IF kind = 32 THEN 9 ELSE 4>>, scsfw |-> <<7>>,
                            root |-> IF kind = 32 THEN <<4, 8>> ELSE <<>>,
                            k1 |-> <<3>>, k2 |-> <<5>>, k3 |-> <<6>>],
                !.dirs = [root |-> root, scfw |-> scfw, scsfw |-> scsfw],
                !.size = [k1 |-> 4, k2 |-> 4, k3 |-> 4]]
Roots == {<<Dir("scfw", "scfw"), Dir("scsfw", "scsfw"), Other, File("kernel", "k3")>>,
          <<File("scfw", "k3"), Dir("scsfw", "scsfw")>>,
          <<Dir("kernel", "scfw"), Label("kernel"), File("kernel", "k3")>>,
          <<Other, Last, Dir("scfw", "scfw"), File("kernel", "k3")>>,
          <<Dir("scsfw", "scsfw"), Dir("scfw", "scfw")>>}
Subs == {<<>>, <<Other, File("kernel", "k1")>>, <<Dir("kernel", "scsfw")>>,
         <<Other, Last, File("kernel", "k1")>>}
Trees == {Tree(k, 1, r, s, <<File("kernel", "k2")>>) : k \in {12, 32}, r \in Roots, s \in Subs}

\* A root directory of three clusters, and of more than MAX_DIR entries
Long ==
  {LET c == Card(32, 1, 9, NoTable, 0, <<3>>, 4)
   IN  [c EXCEPT !.chains.root = <<4, 9, 8>>, !.dirs.root =
          [i \in 1 .. n |-> Other] \o <<File("kernel", "k1")>>] : n \in {3, 4, 5}}

\* What may be wrong with a volume
Good == Card(12, 1, 6, NoTable, 0, <<3, 5>>, 8)
Good32 == Card(32, 1, 9, NoTable, 0, <<3, 5>>, 8)
Bad ==
  {[c EXCEPT !.bpb = b, !.proper = FALSE] :
     c \in {Good, Good32},
     b \in UNION {{[c.bpb EXCEPT !.ss = 8], [c.bpb EXCEPT !.csize = 3],
                   [c.bpb EXCEPT !.fatsz = 1], [c.bpb EXCEPT !.tot = 2],
                   [c.bpb EXCEPT !.jmp = FALSE], [c.bpb EXCEPT !.jmp = FALSE, !.sig = FALSE],
                   [c.bpb EXCEPT !.rootent = 4 - @]} : c \in {Good, Good32}}}
NoBranch == {[Good EXCEPT !.branch = FALSE]}
Broken1 == {[Good EXCEPT !.chains.k1 = <<3>>]}          \* a chain that ends early

MCCards ==
  Geometries \cup Sizes \cup Trees \cup Long \cup Bad \cup NoBranch
    \cup {[c EXCEPT !.proper = FALSE] : c \in Broken1}

MCBoard == [params |-> 0, status |-> 57344, cf |-> FALSE, wants |-> "scsd", fits |-> TRUE,
            bad |-> {}]
MCBoards ==
  {MCBoard, [MCBoard EXCEPT !.params = -1], [MCBoard EXCEPT !.fits = FALSE],
   [MCBoard EXCEPT !.status = 40960, !.wants = "sc_lite"],
   [MCBoard EXCEPT !.status = 49152, !.wants = "sc_lite", !.params = 262144],
   [MCBoard EXCEPT !.status = 1234, !.cf = TRUE, !.wants = "sccf"],
   [MCBoard EXCEPT !.status = 1234], [MCBoard EXCEPT !.wants = "sccf"]}
    \cup {[MCBoard EXCEPT !.bad = {w}] : w \in 0 .. 5}

\* Every card in the plain board, every board with one card
MCInit == Init /\ (board = MCBoard \/ card \in {Good, Card(16, 1, 7, NoTable, 0, <<5, 3, 6, 4, 7>>, 20)})
MCSpec == MCInit /\ [][Next]_vars /\ WF_vars(Next)
=============================================================================
